---------------------------- MODULE JobQueueProofs ----------------------------
(***************************************************************************)
(* What holds of the worker registry for every set of workers and agents,  *)
(* and of the job queue for every set of sessions, jobs, workers and       *)
(* completion requests, every workflow and every limit.                    *)
(*                                                                         *)
(* 1. The registry: its type, that no deleted worker listens, that a claim *)
(*    replaces only the holder it judged.  The lemmas about one step are   *)
(*    stated for the actions that JobQueue also takes.                     *)
(* 2. The type invariant (TypeCorrect).                                    *)
(* 3. The row locks that handlers of several actions rely on (LockInv).    *)
(* 4. What a step makes of one job (RowStep), action by action.            *)
(* 5. What follows for single jobs: final outcomes, bounded retries, and   *)
(*    the refinement of JobLifecycle.                                      *)
(***************************************************************************)
EXTENDS JobQueue, TLAPS

(***************************************************************************)
(* 1. The registry.                                                        *)
(***************************************************************************)
LEMMA RegistryStepType ==
    ASSUME RegistryTypeOK, NEW w \in Workers, RegistryStep(w)
    PROVE  RegistryTypeOK'
<1> USE NoWorkerAssumption, NoAgentAssumption DEF RegistryTypeOK
<1>1. CASE Register(w)
  BY <1>1 DEF Register
<1>2. CASE Heartbeat(w)
  BY <1>2 DEF Heartbeat
<1>3. CASE GoStale(w)
  BY <1>3 DEF GoStale
<1>4. ASSUME NEW a \in Agents, ClaimCheck(w, a)
      PROVE  RegistryTypeOK'
  BY <1>4 DEF ClaimCheck, LockListener
<1>5. CASE ClaimCommit(w)
  BY <1>5 DEF ClaimCommit, ReleaseClaim
<1>6. CASE ClaimAbort(w)
  BY <1>6 DEF ClaimAbort, ReleaseClaim
<1> QED BY <1>1, <1>2, <1>3, <1>4, <1>5, <1>6 DEF RegistryStep

LEMMA UnregisterType ==
    ASSUME RegistryTypeOK, NEW w \in Workers, Unregister(w)
    PROVE  RegistryTypeOK'
BY DEF RegistryTypeOK, Unregister, DropListeners

LEMMA RegistryInitType == RegistryInit => RegistryTypeOK
BY DEF RegistryInit, RegistryTypeOK

\* RegistrySpec keeps the type of every variable.
THEOREM RegistryTypeCorrect == RegistrySpec => []RegistryTypeOK
<1>1. RegistryTypeOK /\ [RegistryNext]_registryVars => RegistryTypeOK'
  <2> SUFFICES ASSUME RegistryTypeOK, [RegistryNext]_registryVars
               PROVE  RegistryTypeOK'
    OBVIOUS
  <2>1. CASE UNCHANGED registryVars
    BY <2>1 DEF registryVars, RegistryTypeOK
  <2>2. ASSUME NEW w \in Workers, RegistryStep(w) \/ Unregister(w)
        PROVE  RegistryTypeOK'
    BY <2>2, RegistryStepType, UnregisterType
  <2>3. ASSUME NEW a \in Agents, KnowAgent(a),
               UNCHANGED <<registered, fresh, listener, claiming, current, listenerLock>>
        PROVE  RegistryTypeOK'
    BY <2>3 DEF RegistryTypeOK, KnowAgent
  <2> QED BY <2>1, <2>2, <2>3 DEF RegistryNext
<1> QED BY <1>1, RegistryInitType, PTL DEF RegistrySpec

-----------------------------------------------------------------------------
\* The conjunct of the inductive invariant behind ReplacesWhatItJudged: while
\* a claim that read a holder is in progress, it has that row's lock, and the
\* row still holds what the claim read.
JudgedHolderLocked ==
    \A w \in Workers :
        claiming[w] # NoAgent /\ current[w] # NoWorker =>
            /\ listenerLock[claiming[w]] = w
            /\ listener[claiming[w]] = current[w]

RegistryInv == RegistryTypeOK /\ ListenersRegistered /\ JudgedHolderLocked

LEMMA RegistryStepInv ==
    ASSUME RegistryInv, NEW w \in Workers, RegistryStep(w)
    PROVE  ListenersRegistered' /\ JudgedHolderLocked'
<1> USE NoWorkerAssumption, NoAgentAssumption
    DEF RegistryInv, RegistryTypeOK, ListenersRegistered, JudgedHolderLocked
<1>1. CASE Register(w)
  BY <1>1 DEF Register
<1>2. CASE Heartbeat(w)
  BY <1>2 DEF Heartbeat
<1>3. CASE GoStale(w)
  BY <1>3 DEF GoStale
<1>4. ASSUME NEW a \in Agents, ClaimCheck(w, a)
      PROVE  ListenersRegistered' /\ JudgedHolderLocked'
  <2>1. ListenersRegistered'
    BY <1>4 DEF ClaimCheck
  <2>2. ASSUME NEW v \in Workers, claiming'[v] # NoAgent, current'[v] # NoWorker
        PROVE  /\ listenerLock'[claiming'[v]] = v
               /\ listener'[claiming'[v]] = current'[v]
    <3>1. CASE v = w
      BY <1>4, <2>2, <3>1 DEF ClaimCheck, LockListener
    <3>2. CASE v # w
      <4>1. claiming'[v] = claiming[v] /\ current'[v] = current[v] /\ listener' = listener
        BY <1>4, <3>2 DEF ClaimCheck
      <4>2. listenerLock[claiming[v]] = v
        BY <4>1, <2>2
      <4>3. claiming[v] # a
        BY <1>4, <4>2 DEF ClaimCheck
      <4> QED BY <1>4, <2>2, <4>1, <4>2, <4>3 DEF ClaimCheck, LockListener
    <3> QED BY <3>1, <3>2
  <2> QED BY <2>1, <2>2
<1>5. CASE ClaimCommit(w)
  <2>1. ListenersRegistered'
    BY <1>5 DEF ClaimCommit
  <2>2. ASSUME NEW v \in Workers, claiming'[v] # NoAgent, current'[v] # NoWorker
        PROVE  /\ listenerLock'[claiming'[v]] = v
               /\ listener'[claiming'[v]] = current'[v]
    <3>1. v # w /\ claiming'[v] = claiming[v] /\ current'[v] = current[v]
      BY <1>5, <2>2 DEF ClaimCommit, ReleaseClaim
    <3>2. listenerLock[claiming[v]] = v /\ listener[claiming[v]] = current[v]
      BY <3>1, <2>2
    <3>3. claiming[v] # claiming[w]
      BY <1>5, <3>1, <3>2 DEF ClaimCommit
    <3> QED BY <1>5, <2>2, <3>1, <3>2, <3>3 DEF ClaimCommit, ReleaseClaim
  <2> QED BY <2>1, <2>2
<1>6. CASE ClaimAbort(w)
  BY <1>6 DEF ClaimAbort, ReleaseClaim
<1> QED BY <1>1, <1>2, <1>3, <1>4, <1>5, <1>6 DEF RegistryStep

LEMMA UnregisterInv ==
    ASSUME RegistryInv, NEW w \in Workers, Unregister(w)
    PROVE  ListenersRegistered' /\ JudgedHolderLocked'
<1> USE NoWorkerAssumption, NoAgentAssumption
    DEF RegistryInv, RegistryTypeOK, Unregister, DropListeners
<1>1. ListenersRegistered'
  BY DEF ListenersRegistered
<1>2. ASSUME NEW v \in Workers, claiming'[v] # NoAgent, current'[v] # NoWorker
      PROVE  /\ listenerLock'[claiming'[v]] = v
             /\ listener'[claiming'[v]] = current'[v]
  <2>1. listenerLock[claiming[v]] = v /\ listener[claiming[v]] = current[v]
    BY <1>2 DEF JudgedHolderLocked
  <2>2. listener[claiming[v]] # w
    BY <1>2, <2>1
  <2> QED BY <1>2, <2>1, <2>2
<1> QED BY <1>1, <1>2 DEF JudgedHolderLocked

LEMMA RegistryInvHolds == RegistrySpec => []RegistryInv
<1>1. RegistryInit => RegistryInv
  BY DEF RegistryInit, RegistryInv, RegistryTypeOK, ListenersRegistered, JudgedHolderLocked
<1>2. RegistryInv /\ [RegistryNext]_registryVars => RegistryInv'
  <2> SUFFICES ASSUME RegistryInv, [RegistryNext]_registryVars
               PROVE  RegistryInv'
    OBVIOUS
  <2>1. CASE UNCHANGED registryVars
    BY <2>1 DEF registryVars, RegistryInv, RegistryTypeOK, ListenersRegistered,
                JudgedHolderLocked
  <2>2. ASSUME NEW w \in Workers, RegistryStep(w) \/ Unregister(w)
        PROVE  RegistryInv'
    BY <2>2, RegistryStepType, UnregisterType, RegistryStepInv, UnregisterInv DEF RegistryInv
  <2>3. ASSUME NEW a \in Agents, KnowAgent(a),
               UNCHANGED <<registered, fresh, listener, claiming, current, listenerLock>>
        PROVE  RegistryInv'
    BY <2>3 DEF RegistryInv, RegistryTypeOK, ListenersRegistered, JudgedHolderLocked, KnowAgent
  <2> QED BY <2>1, <2>2, <2>3 DEF RegistryNext
<1> QED BY <1>1, <1>2, PTL DEF RegistrySpec

\* A deleted worker listens to no inbox.
THEOREM DeletedWorkersListenToNothing == RegistrySpec => []ListenersRegistered
BY RegistryInvHolds, PTL DEF RegistryInv

\* A claim that found a holder replaces that very holder.
THEOREM ClaimsReplaceWhatTheyJudged == RegistrySpec => ReplacesWhatItJudged
<1>1. RegistryInv => \A w \in Workers :
          /\ claiming[w] # NoAgent
          /\ current[w] # NoWorker
          /\ listener'[claiming[w]] = w
          /\ listener[claiming[w]] # w
          => listener[claiming[w]] = current[w]
  BY DEF RegistryInv, JudgedHolderLocked
<1> QED BY <1>1, RegistryInvHolds, PTL DEF RegistrySpec, ReplacesWhatItJudged

USE DEF Workflows, Loops, SessionStatus, Active, Terminal, JobStatus, Outcomes

(***************************************************************************)
(* Rows keep their type under every update.                                *)
(***************************************************************************)
LEMMA NewRowType == \A s \in Sessions : NewRow(s) \in JobRow
BY DEF NewRow, JobRow

LEMMA AssignType == \A row \in JobRow, w \in Workers : Assign(row, w) \in JobRow
BY DEF Assign, JobRow

LEMMA FinishType ==
    \A row \in JobRow, status \in JobStatus : Finish(row, status) \in JobRow
BY DEF Finish, JobRow

LEMMA ReclaimType == \A row \in JobRow : Reclaim(row) \in JobRow
<1> SUFFICES ASSUME NEW row \in JobRow
             PROVE  Reclaim(row) \in JobRow
  OBVIOUS
<1>1. Requeue(row) \in JobRow
  <2>1. row.reclaims + 1 \in Nat
    BY DEF JobRow
  <2> DEFINE more == row.reclaims + 1
  <2>2. more \in Nat /\ Requeue(row) = [row EXCEPT !.status = "pending",
                                       !.worker = NoWorker, !.reclaims = more]
    BY <2>1 DEF Requeue
  <2> HIDE DEF more
  <2> QED BY <2>2 DEF JobRow
<1>2. Finish(row, "failed") \in JobRow
  BY FinishType
<1> QED BY <1>1, <1>2 DEF Reclaim

LEMMA SweptType == jobs \in [Jobs -> JobRow] => \A p : Swept(p) \in [Jobs -> JobRow]
BY FinishType, ReclaimType DEF Swept

LEMMA LeasesType == expired \subseteq Jobs /\ RestartLeases => expired' \subseteq Jobs
BY DEF RestartLeases

(***************************************************************************)
(* 2. The type invariant.                                                  *)
(***************************************************************************)
QueueTypeOK ==
    /\ sessions \in [Sessions -> SessionStatus]
    /\ jobs \in [Jobs -> JobRow]
    /\ expired \subseteq Jobs
    /\ inbox \in [Tasks -> InboxRow]
    /\ requests \in [Requests -> Request \cup {NoRequest}]
    /\ pulls \in [Pulls -> Pull \cup {NoPull}]
    /\ removing \subseteq Workers
    /\ rowLock \in [Jobs -> Requests \cup Workers \cup Pulls \cup {NoTx}]
    /\ attempts \in [Jobs -> Nat]

LEMMA TypeSplit == TypeOK <=> RegistryTypeOK /\ QueueTypeOK
BY DEF TypeOK, QueueTypeOK

LEMMA InitType == Init => TypeOK
<1> SUFFICES ASSUME Init PROVE TypeOK
  OBVIOUS
<1>1. NoJobRow \in JobRow
  <2>1. (CHOOSE s \in Sessions : TRUE) \in Sessions
    BY OrderAssumption
  <2> QED BY <2>1 DEF NoJobRow, JobRow
<1>2. NoInboxRow \in InboxRow
  <2>1. (CHOOSE a \in Agents : TRUE) \in Agents
    BY OrderAssumption
  <2>2. (CHOOSE j \in Jobs : TRUE) \in Jobs
    BY OrderAssumption
  <2> QED BY <2>1, <2>2 DEF NoInboxRow, InboxRow
<1>3. RegistryTypeOK
  BY RegistryInitType DEF Init
<1> QED BY <1>1, <1>2, <1>3 DEF Init, TypeOK

LEMMA ClientType == TypeOK /\ ClientNext => TypeOK'
<1> SUFFICES ASSUME TypeOK, ClientNext PROVE TypeOK'
  OBVIOUS
<1>1. ASSUME NEW s \in Sessions, CreateSession(s) PROVE TypeOK'
  <2>1. RegistryTypeOK'
    <3>1. agents' \subseteq Agents
      <4>1. agents \subseteq Agents /\ SessionAgent[s] \in Agents
        BY AgentAssumption DEF TypeOK, RegistryTypeOK
      <4>2. agents' = agents \/ KnowAgent(SessionAgent[s])
        BY <1>1 DEF CreateSession
      <4> QED BY <4>1, <4>2 DEF KnowAgent
    <3> QED BY <1>1, <3>1 DEF CreateSession, TypeOK, RegistryTypeOK
  <2>2. jobs' \in [Jobs -> JobRow]
    BY <1>1, NewRowType DEF CreateSession, TypeOK
  <2> QED BY <1>1, <2>1, <2>2 DEF CreateSession, TypeOK
<1>2. ASSUME NEW s \in Sessions, PostInput(s) PROVE TypeOK'
  <2>1. jobs' \in [Jobs -> JobRow]
    BY <1>2, NewRowType DEF PostInput, TypeOK
  <2> QED BY <1>2, <2>1 DEF PostInput, TypeOK, RegistryTypeOK, registryVars
<1>3. ASSUME NEW s \in Sessions, DeleteSession(s) PROVE TypeOK'
  <2>1. jobs' \in [Jobs -> JobRow]
    BY <1>3, FinishType DEF DeleteSession, TypeOK
  <2> QED BY <1>3, <2>1, LeasesType DEF DeleteSession, TypeOK, RegistryTypeOK, registryVars
<1>4. ASSUME NEW a \in Agents, NEW t \in Tasks, PostInbox(a, t) PROVE TypeOK'
  <2>1. inbox' \in [Tasks -> InboxRow]
    BY <1>4 DEF PostInbox, TypeOK, InboxRow
  <2> QED BY <1>4, <2>1 DEF PostInbox, TypeOK, RegistryTypeOK, registryVars
<1> QED BY <1>1, <1>2, <1>3, <1>4 DEF ClientNext

LEMMA PullRows ==
    ASSUME TypeOK, NEW p \in Pulls, pulls[p] # NoPull
    PROVE  pulls[p] \in Pull /\ pulls[p].by \in Workers
BY DEF TypeOK, Pull

LEMMA EndPullType ==
    ASSUME TypeOK, NEW p \in Pulls, EndPull(p)
    PROVE  /\ pulls' \in [Pulls -> Pull \cup {NoPull}]
           /\ rowLock' \in [Jobs -> Requests \cup Workers \cup Pulls \cup {NoTx}]
BY DEF TypeOK, EndPull

LEMMA SweepType ==
    \A p \in Pulls, w \in Workers : TypeOK /\ PullSweep(p, w) => TypeOK'
<1> SUFFICES ASSUME NEW p \in Pulls, NEW w \in Workers, TypeOK, PullSweep(p, w)
             PROVE  TypeOK'
  OBVIOUS
<1>1. /\ LeaseOver \subseteq Jobs
      /\ {v \in Stale : v = w \/ HeldBy(jobs, v) # {}} \subseteq Workers
  BY DEF LeaseOver, Stale, TypeOK, RegistryTypeOK
<1>2. pulls' \in [Pulls -> Pull \cup {NoPull}]
  BY <1>1 DEF PullSweep, TypeOK, Pull
<1>3. rowLock' \in [Jobs -> Requests \cup Workers \cup Pulls \cup {NoTx}]
  BY DEF PullSweep, TypeOK
<1> QED BY <1>2, <1>3 DEF PullSweep, TypeOK, RegistryTypeOK, registryVars

LEMMA PullType == \A p \in Pulls : TypeOK /\ PullStep(p) => TypeOK'
<1> SUFFICES ASSUME NEW p \in Pulls, TypeOK, PullStep(p) PROVE TypeOK'
  OBVIOUS
<1> DEFINE w == pulls[p].by
<1>1. Swept(p) \in [Jobs -> JobRow] /\ w \in Workers
  BY SweptType, PullRows DEF TypeOK, PullStep, PullCommit, PullAbort
<1> HIDE DEF w
<1>2. ASSUME PullCommit(p)
      PROVE  /\ jobs' \in [Jobs -> JobRow]
             /\ sessions' \in [Sessions -> SessionStatus]
             /\ inbox' \in [Tasks -> InboxRow]
             /\ attempts' \in [Jobs -> Nat]
  <2>1. CASE PullSweepOnly(p)
    BY <1>1, <2>1 DEF PullSweepOnly, TypeOK
  <2>2. CASE PullPromote(p)
    <3>1. PICK s \in Sessions, t \in Tasks, j \in Jobs :
              /\ jobs' = [Swept(p) EXCEPT ![j] = Assign(NewRow(s), w)]
              /\ inbox' = [inbox EXCEPT ![t] = [@ EXCEPT !.status = "promoted",
                                                         !.job = j]]
              /\ attempts' = [attempts EXCEPT ![j] = @ + 1]
              /\ StartSession(s)
      BY <2>2 DEF PullPromote, RunningInbox, PendingTasks, w
    <3>2. Assign(NewRow(s), w) \in JobRow
      BY <1>1, NewRowType, AssignType
    <3>3. inbox' \in [Tasks -> InboxRow]
      BY <3>1 DEF TypeOK, InboxRow
    <3> QED BY <1>1, <3>1, <3>2, <3>3 DEF StartSession, TypeOK
  <2>3. CASE PullClaim(p)
    <3>1. PICK j \in Jobs :
              /\ jobs' = [Swept(p) EXCEPT ![j] = Assign(@, w)]
              /\ attempts' = [attempts EXCEPT ![j] = @ + 1]
              /\ StartSession(jobs[j].session)
      BY <2>3 DEF PullClaim, Queued, w
    <3>2. Assign(Swept(p)[j], w) \in JobRow
      BY <1>1, AssignType
    <3>3. jobs' \in [Jobs -> JobRow] /\ attempts' \in [Jobs -> Nat]
      BY <1>1, <3>1, <3>2 DEF TypeOK
    <3>4. sessions' \in [Sessions -> SessionStatus]
      BY <3>1 DEF StartSession, TypeOK
    <3>5. inbox' \in [Tasks -> InboxRow]
      BY <2>3 DEF PullClaim, TypeOK
    <3> QED BY <3>3, <3>4, <3>5
  <2> QED BY <1>2, <2>1, <2>2, <2>3 DEF PullCommit
<1>3. CASE PullCommit(p)
  BY <1>2, <1>3, EndPullType, LeasesType DEF PullCommit, TypeOK, RegistryTypeOK, registryVars
<1>4. CASE PullAbort(p)
  BY <1>4, EndPullType DEF PullAbort, TypeOK, RegistryTypeOK, registryVars
<1> QED BY <1>3, <1>4 DEF PullStep

LEMMA RequestRows ==
    ASSUME TypeOK, NEW r \in Requests, requests[r] # NoRequest
    PROVE  /\ requests[r] \in Request
           /\ requests[r].job \in Jobs
           /\ jobs[requests[r].job] \in JobRow
           /\ jobs[requests[r].job].session \in Sessions
BY DEF TypeOK, Request, JobRow

LEMMA EndRequestType ==
    ASSUME TypeOK, NEW r \in Requests, EndRequest(r)
    PROVE  /\ requests' \in [Requests -> Request \cup {NoRequest}]
           /\ rowLock' \in [Jobs -> Requests \cup Workers \cup Pulls \cup {NoTx}]
BY DEF TypeOK, EndRequest

LEMMA CompleteType == \A r \in Requests : TypeOK /\ RequestNext(r) => TypeOK'
<1> SUFFICES ASSUME NEW r \in Requests, TypeOK, RequestNext(r) PROVE TypeOK'
  OBVIOUS
<1> DEFINE j == requests[r].job
<1>1. ASSUME NEW k \in Jobs, NEW by \in Workers \cup {NoWorker}, NEW outcome \in Outcomes,
             CompleteCheck(r, k, by, outcome)
      PROVE  TypeOK'
  BY <1>1 DEF CompleteCheck, TypeOK, RegistryTypeOK, registryVars, Request
<1>2. CASE CompleteCount(r)
  <2>1. requests[r] \in Request /\ j \in Jobs
    BY <1>2, RequestRows DEF CompleteCount
  <2>2. requests' \in [Requests -> Request \cup {NoRequest}]
    BY <1>2, <2>1 DEF CompleteCount, TypeOK, Request
  <2> QED BY <1>2, <2>1, <2>2 DEF CompleteCount, TypeOK, RegistryTypeOK, registryVars
<1>3. CASE CompleteLoopN(r)
  <2>1. j \in Jobs /\ jobs[j] \in JobRow
    BY <1>3, RequestRows DEF CompleteLoopN
  <2>2. jobs' \in [Jobs -> JobRow]
    BY <1>3, <2>1, FinishType DEF CompleteLoopN, TypeOK
  <2> QED BY <1>3, <2>2, EndRequestType, LeasesType
          DEF CompleteLoopN, TypeOK, RegistryTypeOK, registryVars
<1>4. CASE CompleteFailed(r)
  <2>1. jobs' \in [Jobs -> JobRow]
    BY <1>4, FinishType DEF CompleteFailed, TypeOK
  <2> QED BY <1>4, <2>1, EndRequestType, LeasesType
          DEF CompleteFailed, TypeOK, RegistryTypeOK, registryVars
<1>5. CASE CompleteTurn(r)
  <2>1. j \in Jobs /\ jobs[j] \in JobRow
    BY <1>5, RequestRows DEF CompleteTurn
  <2>2. jobs' \in [Jobs -> JobRow]
    BY <1>5, <2>1, FinishType DEF CompleteTurn, TypeOK
  <2> QED BY <1>5, <2>2, EndRequestType, LeasesType
          DEF CompleteTurn, TypeOK, RegistryTypeOK, registryVars
<1>6. CASE CompleteIteration(r)
  <2>1. j \in Jobs /\ jobs[j] \in JobRow /\ jobs[j].session \in Sessions
    BY <1>6, RequestRows DEF CompleteIteration
  <2>2. [jobs EXCEPT ![j] = Finish(@, "completed")] \in [Jobs -> JobRow]
    BY <2>1, FinishType DEF TypeOK
  <2>3. jobs' \in [Jobs -> JobRow]
    BY <1>6, <2>1, <2>2, NewRowType DEF CompleteIteration
  <2>4. sessions' \in [Sessions -> SessionStatus]
    BY <1>6, <2>1 DEF CompleteIteration, TypeOK
  <2>5. expired' \subseteq Jobs
    BY <1>6, LeasesType DEF CompleteIteration, TypeOK
  <2>6. EndRequest(r) /\ UNCHANGED <<registryVars, inbox, pulls, removing, attempts>>
    BY <1>6 DEF CompleteIteration
  <2> QED BY <2>3, <2>4, <2>5, <2>6, EndRequestType DEF TypeOK, RegistryTypeOK, registryVars
<1>7. CASE CompleteAbort(r)
  BY <1>7, EndRequestType DEF CompleteAbort, TypeOK, RegistryTypeOK, registryVars
<1> QED BY <1>1, <1>2, <1>3, <1>4, <1>5, <1>6, <1>7 DEF RequestNext, RequestStep

LEMMA RemoveType ==
    \A w \in Workers : TypeOK /\ (RemoveStart(w) \/ RemoveCommit(w) \/ RemoveAbort(w)) => TypeOK'
<1> SUFFICES ASSUME NEW w \in Workers, TypeOK,
                    RemoveStart(w) \/ RemoveCommit(w) \/ RemoveAbort(w)
             PROVE  TypeOK'
  OBVIOUS
<1>1. CASE RemoveStart(w)
  BY <1>1 DEF RemoveStart, TypeOK, RegistryTypeOK, registryVars
<1>2. CASE RemoveCommit(w)
  <2>1. RegistryTypeOK'
    BY <1>2, UnregisterType DEF RemoveCommit, TypeOK
  <2>2. \A j \in Jobs : [jobs[j] EXCEPT !.worker = NoWorker] \in JobRow
    BY DEF TypeOK, JobRow
  <2>3. jobs' \in [Jobs -> JobRow]
    BY <1>2, <2>2, ReclaimType DEF RemoveCommit, TypeOK
  <2>4. /\ removing' \subseteq Workers
        /\ rowLock' \in [Jobs -> Requests \cup Workers \cup Pulls \cup {NoTx}]
    BY <1>2 DEF RemoveCommit, EndRemoval, TypeOK
  <2>5. expired' \subseteq Jobs /\ UNCHANGED <<sessions, inbox, requests, pulls, attempts>>
    BY <1>2, LeasesType DEF RemoveCommit, TypeOK
  <2> QED BY <2>1, <2>3, <2>4, <2>5 DEF TypeOK
<1>3. CASE RemoveAbort(w)
  BY <1>3 DEF RemoveAbort, EndRemoval, TypeOK, RegistryTypeOK, registryVars
<1> QED BY <1>1, <1>2, <1>3

LEMMA NextType == TypeOK /\ [Next]_vars => TypeOK'
<1> SUFFICES ASSUME TypeOK, [Next]_vars PROVE TypeOK'
  OBVIOUS
<1>1. CASE UNCHANGED vars
  BY <1>1 DEF vars, registryVars, queueVars, TypeOK, RegistryTypeOK
<1>2. ASSUME NEW w \in Workers, RegistryStep(w), UNCHANGED queueVars PROVE TypeOK'
  <2>1. RegistryTypeOK'
    BY <1>2, RegistryStepType DEF TypeOK
  <2> QED BY <1>2, <2>1 DEF queueVars, TypeOK
<1>3. ASSUME NEW w \in Workers, WorkerNext(w) PROVE TypeOK'
  BY <1>2, <1>3, RemoveType DEF WorkerNext
<1>4. ASSUME NEW j \in Jobs, LeaseRunsOut(j) PROVE TypeOK'
  BY <1>4 DEF LeaseRunsOut, TypeOK, RegistryTypeOK, registryVars
<1> QED BY <1>1, <1>3, <1>4, ClientType, CompleteType, SweepType, PullType DEF Next, PullNext

\* Every variable keeps its type, whatever the handlers do.
THEOREM TypeCorrect == Spec => []TypeOK
<1>1. Init => TypeOK
  BY InitType
<1>2. TypeOK /\ [Next]_vars => TypeOK'
  BY NextType
<1> QED BY <1>1, <1>2, PTL DEF Spec

(***************************************************************************)
(* 3. Row locks.  A locked row stays assigned until its transaction ends:  *)
(* to the worker a deletion removes, or to one that the sweep of a pull    *)
(* found stale, unless its lease was over; and a loop_n completion that    *)
(* has counted the other jobs has its own row's lock.  This is what lets   *)
(* the later statements of pull_task, complete_task and delete_worker rely *)
(* on what the earlier ones saw.                                           *)
(***************************************************************************)
LockedIsAssigned == \A j \in Jobs : rowLock[j] # NoTx => jobs[j].status = "assigned"

LockedByRemoval ==
    \A j \in Jobs, w \in Workers : rowLock[j] = w => jobs[j].worker = w

LockedBySweep ==
    \A j \in Jobs, p \in Pulls :
        rowLock[j] = p => /\ pulls[p] # NoPull
                          /\ j \in pulls[p].over \/ jobs[j].worker \in pulls[p].stale

CountedIsLocked ==
    \A r \in Requests :
        requests[r] # NoRequest /\ requests[r].phase \in {"sawOthers", "sawNone"} =>
            /\ rowLock[requests[r].job] = r
            /\ Workflow[jobs[requests[r].job].session] = "loop_n"

LockInv == LockedIsAssigned /\ LockedByRemoval /\ LockedBySweep /\ CountedIsLocked

(***************************************************************************)
(* What one update makes of a row.                                         *)
(***************************************************************************)
LEMMA NewRowFields ==
    \A s : /\ NewRow(s).status = "pending"
           /\ NewRow(s).session = s
           /\ NewRow(s).worker = NoWorker
           /\ NewRow(s).reclaims = 0
BY DEF NewRow

LEMMA AssignFields ==
    \A row \in JobRow : \A w :
        /\ Assign(row, w).status = "assigned"
        /\ Assign(row, w).session = row.session
        /\ Assign(row, w).worker = w
        /\ Assign(row, w).reclaims = row.reclaims
BY DEF Assign, JobRow

LEMMA FinishFields ==
    \A row \in JobRow : \A status :
        /\ Finish(row, status).status = status
        /\ Finish(row, status).session = row.session
        /\ Finish(row, status).worker = NoWorker
        /\ Finish(row, status).reclaims = row.reclaims
BY DEF Finish, JobRow

\* Back in the queue, at the cost of one reclaim, or failed at the cap.
Requeued(old, new) ==
    /\ new.status = "pending"
    /\ old.reclaims < MaxReclaims
    /\ new.reclaims = old.reclaims + 1

FailedRow(old, new) == new.status = "failed" /\ new.reclaims = old.reclaims

LEMMA ReclaimFields ==
    \A row \in JobRow : /\ Reclaim(row).session = row.session
                        /\ Reclaim(row).worker = NoWorker
                        /\ Requeued(row, Reclaim(row)) \/ FailedRow(row, Reclaim(row))
<1> SUFFICES ASSUME NEW row \in JobRow
             PROVE  /\ Reclaim(row).session = row.session
                    /\ Reclaim(row).worker = NoWorker
                    /\ Requeued(row, Reclaim(row)) \/ FailedRow(row, Reclaim(row))
  OBVIOUS
<1>1. CASE row.reclaims < MaxReclaims
  BY <1>1 DEF Reclaim, Requeue, Requeued, JobRow
<1>2. CASE ~(row.reclaims < MaxReclaims)
  BY <1>2, FinishFields DEF Reclaim, FailedRow
<1> QED BY <1>1, <1>2

LEMMA SweptFields ==
    ASSUME TypeOK, LockInv, NEW p \in Pulls, NEW j \in Jobs
    PROVE  /\ Swept(p)[j] \in JobRow
           /\ Swept(p)[j].session = jobs[j].session
           /\ Swept(p)[j].worker \in {jobs[j].worker, NoWorker}
           /\ \/ Swept(p)[j] = jobs[j] /\ rowLock[j] # p
              \/ /\ rowLock[j] = p
                 /\ jobs[j].status = "assigned"
                 /\ \/ Requeued(jobs[j], Swept(p)[j])
                    \/ FailedRow(jobs[j], Swept(p)[j])
<1>1. jobs[j] \in JobRow /\ Swept(p)[j] \in JobRow
  BY SweptType DEF TypeOK
<1>2. CASE rowLock[j] # p
  BY <1>1, <1>2 DEF Swept
<1>3. CASE rowLock[j] = p
  <2>1. jobs[j].status = "assigned"
    BY <1>3, TxAssumption DEF LockInv, LockedIsAssigned
  <2>2. Swept(p)[j] \in {Finish(jobs[j], "failed"), Reclaim(jobs[j])}
    BY <1>3 DEF Swept
  <2> QED BY <1>1, <1>3, <2>1, <2>2, FinishFields, ReclaimFields DEF FailedRow
<1> QED BY <1>2, <1>3

(***************************************************************************)
(* 4. What one step makes of one job.  RowMove lists the moves of a row    *)
(* and of the number of times it was handed out; every step makes one of   *)
(* them on every job, and keeps the locks right.                           *)
(***************************************************************************)
RowMove(old, new, tries, triesNow) ==
    \/ new.status = old.status /\ new.reclaims = old.reclaims /\ triesNow = tries
    \/ /\ old.status = "absent" /\ new.reclaims = 0
       /\ \/ new.status = "pending" /\ triesNow = tries
          \/ new.status = "assigned" /\ triesNow = tries + 1
    \/ /\ old.status = "pending" /\ new.status = "assigned"
       /\ new.reclaims = old.reclaims /\ triesNow = tries + 1
    \/ old.status = "assigned" /\ Requeued(old, new) /\ triesNow = tries
    \/ /\ old.status = "assigned" /\ new.status = "assigned"
       /\ old.reclaims < MaxReclaims /\ new.reclaims = old.reclaims + 1
       /\ triesNow = tries + 1
    \/ old.status \in Active /\ FailedRow(old, new) /\ triesNow = tries
    \/ /\ old.status = "assigned" /\ new.status = "completed"
       /\ new.reclaims = old.reclaims /\ triesNow = tries
    \/ /\ old.status # "absent" /\ new.status = "deleted"
       /\ new.reclaims = old.reclaims /\ triesNow = tries

RowStep(j) ==
    /\ RowMove(jobs[j], jobs'[j], attempts[j], attempts'[j])
    /\ jobs[j].status # "absent" => jobs'[j].session = jobs[j].session
    /\ jobs'[j].worker \notin {jobs[j].worker, NoWorker} => attempts'[j] = attempts[j] + 1

GoodStep == (\A j \in Jobs : RowStep(j)) /\ LockInv'

LEMMA QuietStep == jobs' = jobs /\ attempts' = attempts => \A j \in Jobs : RowStep(j)
BY DEF RowStep, RowMove

\* A step that takes no lock and moves only unlocked rows keeps the locks right.
LEMMA LocksKept ==
    ASSUME TypeOK, LockInv, UNCHANGED <<requests, pulls, rowLock>>,
           \A j \in Jobs : rowLock[j] # NoTx => jobs'[j] = jobs[j]
    PROVE  LockInv'
<1>1. LockedIsAssigned' /\ LockedByRemoval' /\ LockedBySweep'
  BY TxAssumption DEF LockInv, LockedIsAssigned, LockedByRemoval, LockedBySweep
<1>2. CountedIsLocked'
  <2> SUFFICES ASSUME NEW r \in Requests, requests[r] # NoRequest,
                      requests[r].phase \in {"sawOthers", "sawNone"}
               PROVE  /\ rowLock[requests[r].job] = r
                      /\ Workflow[jobs'[requests[r].job].session] = "loop_n"
    BY DEF CountedIsLocked
  <2>1. requests[r].job \in Jobs
    BY RequestRows
  <2> QED BY <2>1, TxAssumption DEF LockInv, CountedIsLocked
<1> QED BY <1>1, <1>2 DEF LockInv

LEMMA ClientStep == TypeOK /\ LockInv /\ ClientNext => GoodStep
<1> SUFFICES ASSUME TypeOK, LockInv, ClientNext PROVE GoodStep
  OBVIOUS
<1>1. ASSUME NEW s \in Sessions, NEW new \in SUBSET Unused,
             jobs' = [j \in Jobs |-> IF j \in new THEN NewRow(s) ELSE jobs[j]],
             UNCHANGED <<requests, pulls, rowLock, attempts>>
      PROVE  GoodStep
  <2>1. \A j \in new : jobs[j].status = "absent"
    BY DEF Unused
  <2>2. \A j \in Jobs : RowStep(j)
    BY <1>1, <2>1, NewRowFields DEF RowStep, RowMove
  <2>3. \A j \in Jobs : rowLock[j] # NoTx => jobs'[j] = jobs[j]
    BY <1>1, <2>1 DEF LockInv, LockedIsAssigned
  <2> QED BY <1>1, <2>2, <2>3, LocksKept DEF GoodStep
<1>2. ASSUME NEW s \in Sessions, CreateSession(s) \/ PostInput(s) PROVE GoodStep
  BY <1>1, <1>2 DEF CreateSession, PostInput
<1>3. ASSUME NEW s \in Sessions, DeleteSession(s) PROVE GoodStep
  <2>1. \A j \in Jobs : jobs'[j] = IF j \in JobsOf(s) THEN Finish(jobs[j], "deleted")
                                  ELSE jobs[j]
    BY <1>3 DEF DeleteSession
  <2>2. \A j \in JobsOf(s) : jobs[j].status # "absent" /\ rowLock[j] = NoTx
    BY <1>3 DEF DeleteSession, JobsOf
  <2>3. \A j \in Jobs : jobs[j] \in JobRow /\ attempts'[j] = attempts[j]
    BY <1>3 DEF DeleteSession, TypeOK
  <2>4. \A j \in Jobs : RowStep(j)
    BY <2>1, <2>2, <2>3, FinishFields DEF RowStep, RowMove
  <2> QED BY <1>3, <2>1, <2>2, <2>4, LocksKept DEF GoodStep, DeleteSession
<1>4. ASSUME NEW a \in Agents, NEW t \in Tasks, PostInbox(a, t) PROVE GoodStep
  BY <1>4, QuietStep, LocksKept DEF GoodStep, PostInbox
<1> QED BY <1>2, <1>3, <1>4 DEF ClientNext

LEMMA SweepStep ==
    \A p \in Pulls, w \in Workers : TypeOK /\ LockInv /\ PullSweep(p, w) => GoodStep
<1> SUFFICES ASSUME NEW p \in Pulls, NEW w \in Workers, TypeOK, LockInv, PullSweep(p, w)
             PROVE  GoodStep
  OBVIOUS
<1>1. UNCHANGED <<jobs, requests, attempts>> /\ pulls[p] = NoPull
  BY DEF PullSweep
<1>2. \A j \in Jobs : rowLock'[j] = IF j \in LeaseOver \cup Lost THEN p ELSE rowLock[j]
  BY DEF PullSweep
<1>3. \A j \in LeaseOver \cup Lost : /\ j \in Jobs /\ rowLock[j] = NoTx
                                    /\ jobs[j].status = "assigned"
  BY DEF PullSweep, LeaseOver, Lost, TypeOK
<1>4. /\ pulls'[p] = [by |-> w, over |-> LeaseOver,
                      stale |-> {v \in Stale : v = w \/ HeldBy(jobs, v) # {}}]
      /\ \A q \in Pulls \ {p} : pulls'[q] = pulls[q]
  BY DEF PullSweep, TypeOK
<1>5. LockedIsAssigned' /\ LockedByRemoval'
  BY <1>1, <1>2, <1>3, TxAssumption DEF LockInv, LockedIsAssigned, LockedByRemoval
<1>6. LockedBySweep'
  <2> SUFFICES ASSUME NEW j \in Jobs, NEW q \in Pulls, rowLock'[j] = q
               PROVE  /\ pulls'[q] # NoPull
                      /\ j \in pulls'[q].over \/ jobs'[j].worker \in pulls'[q].stale
    BY DEF LockedBySweep
  <2>1. CASE j \in LeaseOver \cup Lost
    <3>1. q = p /\ pulls'[p].over = LeaseOver
      BY <1>2, <1>4, <2>1
    <3>2. pulls'[p] # NoPull
      BY <1>4 DEF NoPull
    <3>3. j \in Lost => jobs[j].worker \in pulls'[p].stale
      BY <1>4 DEF Lost, HeldBy
    <3> QED BY <1>1, <2>1, <3>1, <3>2, <3>3
  <2>2. CASE j \notin LeaseOver \cup Lost
    <3>1. rowLock[j] = q
      BY <1>2, <2>2
    <3>2. q # p
      BY <1>1, <3>1 DEF LockInv, LockedBySweep
    <3> QED BY <1>1, <1>4, <3>1, <3>2 DEF LockInv, LockedBySweep
  <2> QED BY <2>1, <2>2
<1>7. CountedIsLocked'
  BY <1>1, <1>2, <1>3, RequestRows, TxAssumption DEF LockInv, CountedIsLocked
<1> QED BY <1>1, <1>5, <1>6, <1>7, QuietStep DEF GoodStep, LockInv

\* A pull that ends gives up its locks; every other lock is kept.
LEMMA LocksAfterPull ==
    ASSUME TypeOK, LockInv, NEW p \in Pulls, EndPull(p), UNCHANGED requests,
           \A j \in Jobs : rowLock[j] \notin {NoTx, p} => jobs'[j] = jobs[j]
    PROVE  LockInv'
<1>1. \A j \in Jobs : rowLock'[j] = IF rowLock[j] = p THEN NoTx ELSE rowLock[j]
  BY DEF EndPull
<1>2. \A q \in Pulls \ {p} : pulls'[q] = pulls[q]
  BY DEF EndPull, TypeOK
<1>3. LockedIsAssigned' /\ LockedByRemoval' /\ LockedBySweep'
  BY <1>1, <1>2, TxAssumption
     DEF LockInv, LockedIsAssigned, LockedByRemoval, LockedBySweep
<1>4. ASSUME NEW r \in Requests, requests[r] # NoRequest,
             requests[r].phase \in {"sawOthers", "sawNone"}
      PROVE  /\ rowLock'[requests[r].job] = r
             /\ Workflow[jobs'[requests[r].job].session] = "loop_n"
  <2>1. /\ requests[r].job \in Jobs
        /\ rowLock[requests[r].job] = r
        /\ Workflow[jobs[requests[r].job].session] = "loop_n"
    BY <1>4, RequestRows DEF LockInv, CountedIsLocked
  <2> QED BY <1>1, <2>1, TxAssumption
<1> QED BY <1>3, <1>4 DEF LockInv, CountedIsLocked

LEMMA PullsStep == \A p \in Pulls : TypeOK /\ LockInv /\ PullStep(p) => GoodStep
<1> SUFFICES ASSUME NEW p \in Pulls, TypeOK, LockInv, PullStep(p) PROVE GoodStep
  OBVIOUS
<1> DEFINE w == pulls[p].by
<1>1. \A j \in Jobs : rowLock[j] \notin {NoTx, p} => Swept(p)[j] = jobs[j]
                                                 /\ jobs[j].status = "assigned"
  BY SweptFields DEF LockInv, LockedIsAssigned
<1>2. \A j \in Jobs : jobs[j] \in JobRow /\ attempts[j] \in Nat /\ Swept(p)[j] \in JobRow
  BY SweptType DEF TypeOK
<1>3. PullCommit(p) => EndPull(p) /\ UNCHANGED requests
  BY DEF PullCommit
<1> HIDE DEF w
\* The sweep alone.
<1>4. ASSUME NEW j \in Jobs, jobs'[j] = Swept(p)[j], attempts'[j] = attempts[j]
      PROVE  RowStep(j)
  BY <1>4, SweptFields DEF RowStep, RowMove
\* A job that the sweep left in the queue, or put there, is handed to w.
<1>5. ASSUME NEW j \in Jobs, Swept(p)[j].status = "pending",
             jobs'[j] = Assign(Swept(p)[j], w), attempts'[j] = attempts[j] + 1
      PROVE  RowStep(j)
  <2>1. /\ jobs'[j].status = "assigned"
        /\ jobs'[j].session = jobs[j].session
        /\ jobs'[j].reclaims = Swept(p)[j].reclaims
    BY <1>2, <1>5, AssignFields, SweptFields
  <2>2. CASE Swept(p)[j] = jobs[j]
    BY <1>5, <2>1, <2>2 DEF RowStep, RowMove
  <2>3. CASE jobs[j].status = "assigned" /\ Requeued(jobs[j], Swept(p)[j])
    BY <1>5, <2>1, <2>3 DEF RowStep, RowMove, Requeued
  <2> QED BY <1>5, <2>2, <2>3, SweptFields DEF FailedRow
<1>6. CASE PullCommit(p) /\ PullSweepOnly(p)
  <2>1. \A j \in Jobs : jobs'[j] = Swept(p)[j] /\ attempts'[j] = attempts[j]
    BY <1>6 DEF PullSweepOnly
  <2> QED BY <1>1, <1>3, <1>4, <1>6, <2>1, LocksAfterPull DEF GoodStep
<1>7. CASE PullCommit(p) /\ PullPromote(p)
  <2>1. PICK s \in Sessions, j \in Jobs :
            /\ NextIds({j}, 1)
            /\ jobs' = [Swept(p) EXCEPT ![j] = Assign(NewRow(s), w)]
            /\ attempts' = [attempts EXCEPT ![j] = @ + 1]
    BY <1>7 DEF PullPromote, RunningInbox, w
  <2>2. jobs[j].status = "absent"
    BY <2>1 DEF NextIds, Unused
  <2>3. NewRow(s) \in JobRow
    BY NewRowType
  <2>4. /\ jobs'[j] = Assign(NewRow(s), w)
        /\ attempts'[j] = attempts[j] + 1
        /\ \A k \in Jobs \ {j} : jobs'[k] = Swept(p)[k] /\ attempts'[k] = attempts[k]
    BY <2>1, SweptType DEF TypeOK
  <2>5. RowStep(j)
    BY <2>2, <2>3, <2>4, NewRowFields, AssignFields DEF RowStep, RowMove
  <2>6. \A k \in Jobs : rowLock[k] \notin {NoTx, p} => jobs'[k] = jobs[k]
    BY <1>1, <2>2, <2>4
  <2> QED BY <1>3, <1>4, <1>7, <2>4, <2>5, <2>6, LocksAfterPull DEF GoodStep
<1>8. CASE PullCommit(p) /\ PullClaim(p)
  <2>1. PICK j \in Queued(p) :
            /\ jobs' = [Swept(p) EXCEPT ![j] = Assign(@, w)]
            /\ attempts' = [attempts EXCEPT ![j] = @ + 1]
    BY <1>8 DEF PullClaim, w
  <2>2. j \in Jobs /\ Swept(p)[j].status = "pending"
    BY DEF Queued
  <2>3. /\ jobs'[j] = Assign(Swept(p)[j], w)
        /\ attempts'[j] = attempts[j] + 1
        /\ \A k \in Jobs \ {j} : jobs'[k] = Swept(p)[k] /\ attempts'[k] = attempts[k]
    BY <2>1, <2>2, SweptType DEF TypeOK
  <2>4. \A k \in Jobs : rowLock[k] \notin {NoTx, p} => jobs'[k] = jobs[k]
    BY <1>1, <2>2, <2>3
  <2> QED BY <1>3, <1>4, <1>5, <1>8, <2>2, <2>3, <2>4, LocksAfterPull DEF GoodStep
<1>9. CASE PullAbort(p)
  BY <1>9, QuietStep, LocksAfterPull DEF GoodStep, PullAbort
<1> QED BY <1>6, <1>7, <1>8, <1>9 DEF PullStep, PullCommit

\* A request that ends gives up its locks; the others keep theirs.
LEMMA LocksAfterRequest ==
    ASSUME TypeOK, LockInv, NEW r \in Requests, requests[r] # NoRequest, EndRequest(r),
           UNCHANGED pulls,
           \A j \in Jobs : rowLock[j] \notin {NoTx, r} => jobs'[j] = jobs[j],
           \A j \in Jobs : jobs[j].status # "absent" => jobs'[j].session = jobs[j].session
    PROVE  LockInv'
<1>1. \A j \in Jobs : rowLock'[j] = IF rowLock[j] = r THEN NoTx ELSE rowLock[j]
  BY DEF EndRequest
<1>2. LockedIsAssigned' /\ LockedByRemoval' /\ LockedBySweep'
  BY <1>1, TxAssumption DEF LockInv, LockedIsAssigned, LockedByRemoval, LockedBySweep
<1>3. CountedIsLocked'
  <2> SUFFICES ASSUME NEW q \in Requests, requests'[q] # NoRequest,
                      requests'[q].phase \in {"sawOthers", "sawNone"}
               PROVE  /\ rowLock'[requests'[q].job] = q
                      /\ Workflow[jobs'[requests'[q].job].session] = "loop_n"
    BY DEF CountedIsLocked
  <2>1. q # r /\ requests'[q] = requests[q]
    BY DEF EndRequest, TypeOK
  <2>2. requests[q].job \in Jobs
    BY <2>1, RequestRows
  <2> QED BY <1>1, <2>1, <2>2, TxAssumption DEF LockInv, CountedIsLocked
<1> QED BY <1>2, <1>3 DEF LockInv

\* The job of a request is assigned when its completion takes effect.
LEMMA FinishStep ==
    ASSUME TypeOK, LockInv, NEW r \in Requests, requests[r] # NoRequest, EndRequest(r),
           NEW status \in Terminal,
           jobs[requests[r].job].status = "assigned",
           rowLock[requests[r].job] \in {NoTx, r},
           jobs' = [jobs EXCEPT ![requests[r].job] = Finish(@, status)],
           UNCHANGED <<pulls, attempts>>
    PROVE  GoodStep
<1>1. requests[r].job \in Jobs
  BY RequestRows
<1>2. jobs[requests[r].job] \in JobRow
  BY RequestRows
<1>3. /\ jobs'[requests[r].job] = Finish(jobs[requests[r].job], status)
      /\ \A j \in Jobs \ {requests[r].job} : jobs'[j] = jobs[j]
  BY <1>1 DEF TypeOK
<1>4. RowStep(requests[r].job)
  BY <1>1, <1>2, <1>3, FinishFields DEF RowStep, RowMove, FailedRow
<1>5. \A j \in Jobs : RowStep(j)
  BY <1>3, <1>4 DEF RowStep, RowMove
<1>6. LockInv'
  BY <1>3, <1>5, LocksAfterRequest DEF RowStep
<1> QED BY <1>5, <1>6 DEF GoodStep

LEMMA CompleteStep == \A r \in Requests : TypeOK /\ LockInv /\ RequestNext(r) => GoodStep
<1> SUFFICES ASSUME NEW r \in Requests, TypeOK, LockInv, RequestNext(r) PROVE GoodStep
  OBVIOUS
<1> DEFINE j == requests[r].job
<1>1. ASSUME NEW k \in Jobs, NEW by \in Workers \cup {NoWorker}, NEW outcome \in Outcomes,
             CompleteCheck(r, k, by, outcome)
      PROVE  GoodStep
  <2>1. UNCHANGED <<jobs, pulls, rowLock, attempts>>
    BY <1>1 DEF CompleteCheck
  <2>2. \A q \in Requests : q # r => requests'[q] = requests[q]
    BY <1>1 DEF CompleteCheck, TypeOK
  <2>3. requests'[r].phase = "checked"
    BY <1>1 DEF CompleteCheck, TypeOK
  <2>4. LockInv'
    BY <2>1, <2>2, <2>3
       DEF LockInv, LockedIsAssigned, LockedByRemoval, LockedBySweep, CountedIsLocked
  <2> QED BY <2>1, <2>4, QuietStep DEF GoodStep
<1>2. CASE CompleteCount(r)
  <2>1. requests[r] \in Request /\ j \in Jobs
    BY <1>2, RequestRows DEF CompleteCount
  <2>2. UNCHANGED <<jobs, pulls, attempts>>
    BY <1>2 DEF CompleteCount
  <2>3. requests'[r].job = j /\ \A q \in Requests : q # r => requests'[q] = requests[q]
    BY <1>2, <2>1 DEF CompleteCount, TypeOK, Request
  <2>4. /\ jobs[j].status = "assigned" /\ rowLock[j] \in {NoTx, r}
        /\ Workflow[jobs[j].session] = "loop_n"
    BY <1>2 DEF CompleteCount, Updatable, WorkflowOf
  <2>5. rowLock'[j] = r /\ \A k \in Jobs \ {j} : rowLock'[k] = rowLock[k]
    BY <1>2, <2>1 DEF CompleteCount, TypeOK
  <2>6. LockedIsAssigned' /\ LockedByRemoval' /\ LockedBySweep'
    BY <2>2, <2>4, <2>5, TxAssumption
       DEF LockInv, LockedIsAssigned, LockedByRemoval, LockedBySweep
  <2>7. ASSUME NEW q \in Requests, requests'[q] # NoRequest,
               requests'[q].phase \in {"sawOthers", "sawNone"}
        PROVE  /\ rowLock'[requests'[q].job] = q
               /\ Workflow[jobs'[requests'[q].job].session] = "loop_n"
    <3>1. CASE q = r
      BY <2>2, <2>3, <2>4, <2>5, <3>1
    <3>2. CASE q # r
      <4>1. /\ requests'[q] = requests[q] /\ requests[q].job \in Jobs
            /\ rowLock[requests[q].job] = q
            /\ Workflow[jobs[requests[q].job].session] = "loop_n"
        BY <2>3, <2>7, <3>2, RequestRows DEF LockInv, CountedIsLocked
      <4> QED BY <2>2, <2>4, <2>5, <3>2, <4>1, TxAssumption
    <3> QED BY <3>1, <3>2
  <2>8. LockInv'
    BY <2>6, <2>7 DEF LockInv, CountedIsLocked
  <2> QED BY <2>2, <2>8, QuietStep DEF GoodStep
<1>3. CASE CompleteLoopN(r)
  <2>1. j \in Jobs /\ rowLock[j] = r
    BY <1>3, RequestRows DEF CompleteLoopN, LockInv, CountedIsLocked
  <2>2. jobs[j].status = "assigned"
    BY <2>1, TxAssumption DEF LockInv, LockedIsAssigned
  <2> QED BY <1>3, <2>1, <2>2, FinishStep DEF CompleteLoopN
<1>4. CASE CompleteFailed(r)
  <2>1. PICK cancelled \in SUBSET Jobs :
            /\ \A k \in cancelled : jobs[k].status = "pending"
            /\ jobs' = [k \in Jobs |-> IF k \in cancelled \cup {j} THEN Finish(jobs[k], "failed")
                                       ELSE jobs[k]]
    <3> DEFINE cancelled == IF WorkflowOf(j) \in Loops
                     THEN {k \in JobsOf(jobs[j].session) : jobs[k].status = "pending"}
                     ELSE {}
    <3>1. cancelled \in SUBSET Jobs /\ \A k \in cancelled : jobs[k].status = "pending"
      BY DEF JobsOf
    <3>2. jobs' = [k \in Jobs |-> IF k \in cancelled \cup {j} THEN Finish(jobs[k], "failed")
                                 ELSE jobs[k]]
      BY <1>4 DEF CompleteFailed
    <3> QED BY <3>1, <3>2
  <2>2. /\ requests[r] # NoRequest /\ EndRequest(r) /\ UNCHANGED <<pulls, attempts>>
        /\ jobs[j].status = "assigned" /\ rowLock[j] \in {NoTx, r}
    BY <1>4 DEF CompleteFailed, Updatable
  <2>3. \A k \in Jobs : jobs[k] \in JobRow
    BY DEF TypeOK
  <2>4. \A k \in Jobs : RowStep(k)
    BY <2>1, <2>2, <2>3, FinishFields DEF RowStep, RowMove, FailedRow
  <2>5. \A k \in Jobs : rowLock[k] \notin {NoTx, r} => jobs'[k] = jobs[k]
    BY <2>1, <2>2 DEF LockInv, LockedIsAssigned
  <2>6. LockInv'
    BY <2>2, <2>4, <2>5, LocksAfterRequest DEF RowStep
  <2> QED BY <2>4, <2>6 DEF GoodStep
<1>5. CASE CompleteTurn(r)
  BY <1>5, FinishStep DEF CompleteTurn, Updatable
<1>6. CASE CompleteIteration(r)
  <2>1. j \in Jobs /\ jobs[j] \in JobRow
    BY <1>6, RequestRows DEF CompleteIteration
  <2>2. /\ requests[r] # NoRequest /\ EndRequest(r) /\ UNCHANGED <<pulls, attempts>>
        /\ jobs[j].status = "assigned" /\ rowLock[j] \in {NoTx, r}
    BY <1>6 DEF CompleteIteration, Updatable
  <2>3. CASE jobs' = [jobs EXCEPT ![j] = Finish(@, "completed")]
    BY <2>2, <2>3, FinishStep
  <2>4. ASSUME NEW next \in Jobs, NextIds({next}, 1),
               jobs' = [[jobs EXCEPT ![j] = Finish(@, "completed")]
                            EXCEPT ![next] = NewRow(jobs[j].session)]
        PROVE  GoodStep
    <3>1. jobs[next].status = "absent" /\ next # j
      BY <2>2, <2>4 DEF NextIds, Unused
    <3>2. /\ jobs'[j] = Finish(jobs[j], "completed")
          /\ jobs'[next] = NewRow(jobs[j].session)
          /\ \A k \in Jobs \ {j, next} : jobs'[k] = jobs[k]
      BY <2>1, <2>4, <3>1 DEF TypeOK
    <3>3. \A k \in Jobs : RowStep(k)
      BY <2>1, <2>2, <3>1, <3>2, FinishFields, NewRowFields DEF RowStep, RowMove
    <3>4. \A k \in Jobs : rowLock[k] \notin {NoTx, r} => jobs'[k] = jobs[k]
      BY <2>2, <3>1, <3>2 DEF LockInv, LockedIsAssigned
    <3>5. LockInv'
      BY <2>2, <3>3, <3>4, LocksAfterRequest DEF RowStep
    <3> QED BY <3>3, <3>5 DEF GoodStep
  <2> QED BY <1>6, <2>3, <2>4 DEF CompleteIteration
<1>7. CASE CompleteAbort(r)
  <2>1. requests[r] # NoRequest /\ EndRequest(r) /\ UNCHANGED <<jobs, pulls, attempts>>
    BY <1>7 DEF CompleteAbort
  <2> QED BY <2>1, QuietStep, LocksAfterRequest DEF GoodStep
<1> QED BY <1>1, <1>2, <1>3, <1>4, <1>5, <1>6, <1>7 DEF RequestNext, RequestStep

LEMMA RemoveStep ==
    \A w \in Workers :
        TypeOK /\ LockInv /\ (RemoveStart(w) \/ RemoveCommit(w) \/ RemoveAbort(w)) => GoodStep
<1> SUFFICES ASSUME NEW w \in Workers, TypeOK, LockInv,
                    RemoveStart(w) \/ RemoveCommit(w) \/ RemoveAbort(w)
             PROVE  GoodStep
  OBVIOUS
<1>1. CASE RemoveStart(w)
  <2>1. UNCHANGED <<jobs, requests, pulls, attempts>>
    BY <1>1 DEF RemoveStart
  <2>2. \A j \in Jobs : rowLock'[j] = IF j \in HeldBy(jobs, w) THEN w ELSE rowLock[j]
    BY <1>1 DEF RemoveStart
  <2>3. \A j \in HeldBy(jobs, w) : /\ rowLock[j] = NoTx
                                  /\ jobs[j].status = "assigned" /\ jobs[j].worker = w
    BY <1>1 DEF RemoveStart, HeldBy
  <2>4. LockedIsAssigned' /\ LockedByRemoval' /\ LockedBySweep'
    BY <2>1, <2>2, <2>3, TxAssumption
       DEF LockInv, LockedIsAssigned, LockedByRemoval, LockedBySweep
  <2>5. CountedIsLocked'
    BY <2>1, <2>2, <2>3, RequestRows, TxAssumption DEF LockInv, CountedIsLocked
  <2> QED BY <2>1, <2>4, <2>5, QuietStep DEF GoodStep, LockInv
<1>2. ASSUME EndRemoval(w), UNCHANGED <<requests, pulls>>,
             \A j \in Jobs : rowLock[j] \notin {NoTx, w} => jobs'[j] = jobs[j],
             \A j \in Jobs : RowStep(j)
      PROVE  GoodStep
  <2>1. \A j \in Jobs : rowLock'[j] = IF rowLock[j] = w THEN NoTx ELSE rowLock[j]
    BY <1>2 DEF EndRemoval
  <2>2. LockedIsAssigned' /\ LockedByRemoval' /\ LockedBySweep'
    BY <1>2, <2>1, TxAssumption
       DEF LockInv, LockedIsAssigned, LockedByRemoval, LockedBySweep
  <2>3. ASSUME NEW r \in Requests, requests[r] # NoRequest,
               requests[r].phase \in {"sawOthers", "sawNone"}
        PROVE  /\ rowLock'[requests[r].job] = r
               /\ Workflow[jobs'[requests[r].job].session] = "loop_n"
    <3>1. /\ requests[r].job \in Jobs
          /\ rowLock[requests[r].job] = r
          /\ Workflow[jobs[requests[r].job].session] = "loop_n"
      BY <2>3, RequestRows DEF LockInv, CountedIsLocked
    <3> QED BY <1>2, <2>1, <3>1, TxAssumption
  <2> QED BY <1>2, <2>2, <2>3 DEF GoodStep, LockInv, CountedIsLocked
<1>3. CASE RemoveCommit(w)
  <2>1. ASSUME NEW j \in Jobs PROVE RowStep(j)
    <3>1. jobs[j] \in JobRow /\ attempts'[j] = attempts[j]
      BY <1>3 DEF RemoveCommit, TypeOK
    <3>2. jobs'[j] = IF rowLock[j] = w THEN Reclaim(jobs[j])
                     ELSE IF j \in HeldBy(jobs, w)
                          THEN [jobs[j] EXCEPT !.worker = NoWorker]
                     ELSE jobs[j]
      BY <1>3 DEF RemoveCommit
    <3>3. CASE rowLock[j] = w
      <4>1. jobs[j].status = "assigned"
        BY <3>3, TxAssumption DEF LockInv, LockedIsAssigned
      <4> QED BY <3>1, <3>2, <3>3, <4>1, ReclaimFields DEF RowStep, RowMove
    <3>4. CASE rowLock[j] # w
      BY <3>1, <3>2, <3>4 DEF RowStep, RowMove, JobRow
    <3> QED BY <3>3, <3>4
  <2>2. \A j \in Jobs : rowLock[j] \notin {NoTx, w} => jobs'[j] = jobs[j]
    BY <1>3 DEF RemoveCommit
  <2> QED BY <1>2, <1>3, <2>1, <2>2 DEF RemoveCommit
<1>4. CASE RemoveAbort(w)
  BY <1>2, <1>4, QuietStep DEF RemoveAbort
<1> QED BY <1>1, <1>3, <1>4

LEMMA NextStep == TypeOK /\ LockInv /\ [Next]_vars => GoodStep
<1> SUFFICES ASSUME TypeOK, LockInv, [Next]_vars PROVE GoodStep
  OBVIOUS
<1>1. ASSUME UNCHANGED queueVars PROVE GoodStep
  BY <1>1, QuietStep, LocksKept DEF queueVars, GoodStep
<1>2. CASE UNCHANGED vars
  BY <1>1, <1>2 DEF vars
<1>3. ASSUME NEW w \in Workers, WorkerNext(w) PROVE GoodStep
  BY <1>1, <1>3, RemoveStep DEF WorkerNext
<1>4. ASSUME NEW j \in Jobs, LeaseRunsOut(j) PROVE GoodStep
  BY <1>4, QuietStep, LocksKept DEF LeaseRunsOut, GoodStep
<1> QED BY <1>2, <1>3, <1>4, ClientStep, CompleteStep, SweepStep, PullsStep DEF Next, PullNext

(***************************************************************************)
(* 5. What follows for single jobs.                                        *)
(***************************************************************************)

\* RetriesBounded is not inductive: a job in the queue has been handed out at
\* most as often as it was reclaimed, and a job not inserted yet never.
RetryInv ==
    \A j \in Jobs :
        /\ jobs[j].reclaims <= MaxReclaims
        /\ attempts[j] <= jobs[j].reclaims + 1
        /\ jobs[j].status = "pending" => attempts[j] <= jobs[j].reclaims
        /\ jobs[j].status = "absent" => attempts[j] = 0

JobInv == TypeOK /\ LockInv /\ RetryInv

LEMMA InitInv == Init => JobInv
<1> SUFFICES ASSUME Init PROVE JobInv
  OBVIOUS
<1>1. TypeOK
  BY InitType
<1>2. LockInv
  BY TxAssumption DEF Init, LockInv, LockedIsAssigned, LockedByRemoval,
                       LockedBySweep, CountedIsLocked
<1>3. RetryInv
  BY LimitAssumption DEF Init, RetryInv, NoJobRow
<1> QED BY <1>1, <1>2, <1>3 DEF JobInv

LEMMA RetryStep == TypeOK /\ RetryInv /\ TypeOK' /\ (\A j \in Jobs : RowStep(j)) => RetryInv'
<1> SUFFICES ASSUME TypeOK, RetryInv, TypeOK', NEW j \in Jobs, RowStep(j)
             PROVE  /\ jobs'[j].reclaims <= MaxReclaims
                    /\ attempts'[j] <= jobs'[j].reclaims + 1
                    /\ jobs'[j].status = "pending" => attempts'[j] <= jobs'[j].reclaims
                    /\ jobs'[j].status = "absent" => attempts'[j] = 0
  BY DEF RetryInv
<1>1. /\ jobs[j].reclaims \in Nat /\ attempts[j] \in Nat
      /\ jobs'[j].reclaims \in Nat /\ attempts'[j] \in Nat
  BY DEF TypeOK, JobRow
<1>2. /\ jobs[j].reclaims <= MaxReclaims
      /\ attempts[j] <= jobs[j].reclaims + 1
      /\ jobs[j].status = "pending" => attempts[j] <= jobs[j].reclaims
      /\ jobs[j].status = "absent" => attempts[j] = 0
  BY DEF RetryInv
<1>3. RowMove(jobs[j], jobs'[j], attempts[j], attempts'[j])
  BY DEF RowStep
<1> QED BY <1>1, <1>2, <1>3, LimitAssumption DEF RowMove, Requeued, FailedRow

LEMMA JobInvHolds == Spec => []JobInv
<1>1. JobInv /\ [Next]_vars => JobInv'
  BY NextType, NextStep, RetryStep DEF JobInv, GoodStep
<1> QED BY <1>1, InitInv, PTL DEF Spec

\* Retries are bounded: however sweeps, deletions and completions race, no job
\* is reclaimed more than MaxReclaims times or handed out more than once more.
THEOREM RetriesAreBounded == Spec => []RetriesBounded
<1>1. JobInv => RetriesBounded
  BY DEF JobInv, RetryInv, RetriesBounded
<1> QED BY <1>1, JobInvHolds, PTL

\* A job that has completed or failed keeps that outcome until it is deleted
\* with its session.
THEOREM OutcomesAreFinal == Spec => OutcomeIsFinal
<1>1. JobInv /\ [Next]_vars =>
        [\A j \in Jobs : jobs[j].status \in Terminal =>
            jobs'[j].status \in {jobs[j].status, "deleted"}]_vars
  BY NextStep DEF JobInv, GoodStep, RowStep, RowMove, Requeued, FailedRow
<1> QED BY <1>1, JobInvHolds, PTL DEF Spec, OutcomeIsFinal

\* The queue implements JobLifecycle: the life of each job under the status
\* column and the number of times the job was handed out.
THEOREM ImplementsJobLifecycle == Spec => ImplementsLifecycle
<1>1. Init => Lifecycle!Init
  BY DEF Init, Lifecycle!Init, NoJobRow
<1>2. ASSUME JobInv, TypeOK', NEW j \in Jobs, RowStep(j)
      PROVE  Lifecycle!JobStep(j)
  <2>1. /\ jobs[j].reclaims \in Nat /\ attempts[j] \in Nat
        /\ jobs[j].reclaims <= MaxReclaims
        /\ attempts[j] <= jobs[j].reclaims + 1
        /\ jobs[j].status = "pending" => attempts[j] <= jobs[j].reclaims
        /\ jobs[j].status = "absent" => attempts[j] = 0
    BY <1>2 DEF JobInv, RetryInv, TypeOK, JobRow
  <2>2. RowMove(jobs[j], jobs'[j], attempts[j], attempts'[j])
    BY <1>2 DEF RowStep
  <2> QED BY <2>1, <2>2, LimitAssumption
          DEF RowMove, Requeued, FailedRow, Lifecycle!JobStep, Lifecycle!Submit,
              Lifecycle!HandOut, Lifecycle!Retry, Lifecycle!Complete, Lifecycle!Fail,
              Lifecycle!Discard, Lifecycle!Stay
<1>3. JobInv /\ [Next]_vars => [Lifecycle!Next]_(Lifecycle!lifecycleVars)
  BY <1>2, NextType, NextStep DEF JobInv, GoodStep, Lifecycle!Next, TypeOK
<1> QED BY <1>1, <1>3, JobInvHolds, PTL DEF Spec, ImplementsLifecycle, Lifecycle!Spec
===============================================================================
