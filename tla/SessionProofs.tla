----------------------------- MODULE SessionProofs -----------------------------
(***************************************************************************)
(* What holds of sessions and inbox tasks for every set of sessions, jobs, *)
(* workers and requests, every workflow and every limit.                   *)
(*                                                                         *)
(* 1. The queue uses the registry (QueueUsesTheRegistry).                  *)
(* 2. What a step makes of a session and its jobs, action by action        *)
(*    (Kind).                                                              *)
(* 3. The invariant of sessions, and the properties it gives.              *)
(* 4. Sentinel loops (LoopsAreBounded).                                    *)
(* 5. Inbox tasks and their jobs (TasksArePromotedOnce).                   *)
(* 6. The jobs of workers that are heard from (HeardWorkersKeepJobs).      *)
(* 7. Chats and sentinel loops take turns (SessionsTakeTurns).             *)
(***************************************************************************)
EXTENDS JobQueueProofs, FiniteSetTheorems

USE DEF Workflows, Loops, SessionStatus, Active, Terminal, JobStatus, Outcomes

(***************************************************************************)
(* 1. Every step of the queue is a step of the registry or leaves it as it *)
(* is.                                                                     *)
(***************************************************************************)
LEMMA RegistryPart == [Next]_vars => [RegistryNext]_registryVars
<1> SUFFICES ASSUME [Next]_vars PROVE [RegistryNext]_registryVars
  OBVIOUS
<1>1. CASE UNCHANGED vars
  BY <1>1 DEF vars
<1>2. ASSUME NEW w \in Workers, WorkerNext(w)
      PROVE  [RegistryNext]_registryVars
  <2>1. CASE RegistryStep(w)
    BY <2>1 DEF RegistryNext
  <2>2. CASE RemoveStart(w) \/ RemoveAbort(w)
    BY <2>2 DEF RemoveStart, RemoveAbort
  <2>3. CASE RemoveCommit(w)
    BY <2>3 DEF RemoveCommit, RegistryNext
  <2> QED
    BY <1>2, <2>1, <2>2, <2>3 DEF WorkerNext
<1>3. ASSUME NEW r \in Requests, RequestNext(r)
      PROVE  UNCHANGED registryVars
  BY <1>3 DEF RequestNext, RequestStep, CompleteCheck, CompleteCount, CompleteLoopN,
      CompleteFailed, CompleteTurn, CompleteIteration, CompleteAbort
<1>4. ASSUME ClientNext
      PROVE  [RegistryNext]_registryVars
  <2>1. ASSUME NEW s \in Sessions, CreateSession(s)
        PROVE  [RegistryNext]_registryVars
    <3>1. SessionAgent[s] \in Agents
      BY AgentAssumption
    <3>2. UNCHANGED <<registered, fresh, listener, claiming, current, listenerLock>>
      BY <2>1 DEF CreateSession
    <3>3. KnowAgent(SessionAgent[s]) \/ UNCHANGED agents
      BY <2>1 DEF CreateSession
    <3> QED
      BY <3>1, <3>2, <3>3 DEF RegistryNext, registryVars
  <2>2. ASSUME NEW s \in Sessions, PostInput(s) \/ DeleteSession(s)
        PROVE  UNCHANGED registryVars
    BY <2>2 DEF PostInput, DeleteSession
  <2>3. ASSUME NEW a \in Agents, NEW t \in Tasks, PostInbox(a, t)
        PROVE  UNCHANGED registryVars
    BY <2>3 DEF PostInbox
  <2> QED
    BY <1>4, <2>1, <2>2, <2>3 DEF ClientNext
<1>5. ASSUME NEW j \in Jobs, LeaseRunsOut(j)
      PROVE  UNCHANGED registryVars
  BY <1>5 DEF LeaseRunsOut
<1>6. ASSUME NEW p \in Pulls, PullNext(p)
      PROVE  UNCHANGED registryVars
  BY <1>6 DEF PullNext, PullStep, PullSweep, PullCommit, PullAbort
<1> QED
  BY <1>1, <1>2, <1>3, <1>4, <1>5, <1>6 DEF Next

\* The job queue, with its pulls, completions and deletions, uses the registry
\* only as RegistrySpec describes: what is proved of the registry alone holds
\* of the control plane.
THEOREM QueueUsesTheRegistry == Spec => RegistrySpec
<1>1. Init => RegistryInit
  BY DEF Init
<1> QED
  BY <1>1, RegistryPart, PTL DEF Spec, RegistrySpec

(***************************************************************************)
(* 2. What a step makes of a session and of its jobs.                      *)
(***************************************************************************)
Gone == {"absent", "deleted"}
Turns == {"chat", "loop_until_sentinel"}

\* The rows inserted are those of new, in session s.
Insert(new, s) ==
    \A j \in Jobs :
        IF j \in new THEN jobs[j].status = "absent" /\ jobs'[j].session = s
        ELSE jobs[j].status = "absent" => jobs'[j].status = "absent"

NoInsert == \A j \in Jobs : jobs[j].status = "absent" => jobs'[j].status = "absent"

Still == NoInsert /\ UNCHANGED <<sessions, attempts>>

Creates(s, new) ==
    /\ sessions[s] = "absent"
    /\ \E status \in {"pending", "running"} : sessions' = [sessions EXCEPT ![s] = status]
    /\ Insert(new, s)
    /\ Workflow[s] \in Turns => \E n : new = {n}
    /\ Workflow[s] = "inbox" => new = {}
    /\ UNCHANGED attempts

Posts(s, n) ==
    /\ Workflow[s] = "chat" /\ sessions[s] = "running"
    /\ \A j \in Jobs : jobs[j].session = s => jobs[j].status \notin Active
    /\ Insert({n}, s)
    /\ UNCHANGED <<sessions, attempts>>

Deletes(s) ==
    /\ sessions' = [sessions EXCEPT ![s] = "deleted"]
    /\ \A j \in Jobs : jobs[j].session = s => jobs'[j].status \in Gone
    /\ NoInsert
    /\ UNCHANGED attempts

Promotes(s, n) ==
    /\ Workflow[s] = "inbox" /\ sessions[s] = "running"
    /\ Insert({n}, s)
    /\ UNCHANGED sessions
    /\ \A j \in Jobs : j # n => attempts'[j] = attempts[j]

Claims(j) ==
    /\ NoInsert
    /\ jobs[j].status \notin Gone
    /\ sessions' = IF sessions[jobs[j].session] = "pending"
                   THEN [sessions EXCEPT ![jobs[j].session] = "running"]
                   ELSE sessions
    /\ \A k \in Jobs : k # j => attempts'[k] = attempts[k]

Finishes(j, status) ==
    /\ jobs[j].status = "assigned" /\ jobs'[j].status \notin Active
    /\ NoInsert
    /\ sessions' = [sessions EXCEPT ![jobs[j].session] = status]
    /\ status = "completed" =>
          \A k \in Jobs : k # j /\ jobs[k].session = jobs[j].session =>
                          jobs[k].status \notin Active
    /\ UNCHANGED attempts

Iterates(j, n) ==
    /\ jobs[j].status = "assigned" /\ jobs'[j].status \notin Active
    /\ Workflow[jobs[j].session] = "loop_until_sentinel"
    /\ DoneWith(j) < MaxIterations
    /\ jobs'[j].status = "completed"
    /\ Insert({n}, jobs[j].session)
    /\ sessions' = [sessions EXCEPT ![jobs[j].session] = "running"]
    /\ UNCHANGED attempts

Kind ==
    \/ Still
    \/ \E s \in Sessions : \E new \in SUBSET Jobs : Creates(s, new)
    \/ \E s \in Sessions, n \in Jobs : Posts(s, n) \/ Promotes(s, n)
    \/ \E s \in Sessions : Deletes(s)
    \/ \E j \in Jobs : Claims(j)
    \/ \E j \in Jobs, status \in {"running", "completed", "failed"} : Finishes(j, status)
    \/ \E j, n \in Jobs : Iterates(j, n)

\* A count of the active jobs is taken over from the state before, or taken
\* now.
Counts ==
    \A r \in Requests :
        requests'[r] # NoRequest /\ requests'[r].phase = "sawNone" =>
            \/ requests'[r] = requests[r]
            \/ OthersActive(requests'[r].job) = {} /\ jobs' = jobs

(***************************************************************************)
(* 3. The invariant of sessions.                                           *)
(***************************************************************************)
\* Jobs live in sessions that do.
Homes == \A j \in Jobs : jobs[j].status \notin Gone => sessions[jobs[j].session] \notin Gone

\* A turn or an iteration is the only one of its session.
Single ==
    \A j, k \in Jobs :
        /\ jobs[j].status \in Active /\ jobs[k].status \in Active
        /\ jobs[j].session = jobs[k].session
        /\ Workflow[jobs[j].session] \in Turns
        => j = k

\* A count that found no active job still does.
Counted ==
    \A r \in Requests, k \in Jobs :
        /\ requests[r] # NoRequest /\ requests[r].phase = "sawNone"
        /\ k # requests[r].job
        /\ jobs[k].session = jobs[requests[r].job].session
        => jobs[k].status \notin Active

Done == \A j \in Jobs : jobs[j].status \in Active => sessions[jobs[j].session] # "completed"

Untouched ==
    \A j \in Jobs : jobs[j].status \notin Gone /\ sessions[jobs[j].session] = "pending" =>
        attempts[j] = 0

SessionInv == Homes /\ Single /\ Counted /\ Done /\ Untouched

LEMMA SessionInit == Init => SessionInv
<1> SUFFICES ASSUME Init PROVE SessionInv
  OBVIOUS
<1>1. \A j \in Jobs : jobs[j].status = "absent"
  BY DEF Init, NoJobRow
<1>2. \A r \in Requests : requests[r] = NoRequest
  BY DEF Init
<1>3. Homes /\ Single /\ Done /\ Untouched
  BY <1>1 DEF Homes, Single, Done, Untouched, Gone
<1>4. Counted
  BY <1>2 DEF Counted
<1> QED
  BY <1>3, <1>4 DEF SessionInv

LEMMA OneId ==
    ASSUME NEW new, NextIds(new, 1)
    PROVE  \E n : new = {n}
BY FS_Singleton DEF NextIds

LEMMA ClientKind == TypeOK /\ ClientNext => Kind /\ UNCHANGED requests
<1> SUFFICES ASSUME TypeOK, ClientNext PROVE Kind /\ UNCHANGED requests
  OBVIOUS
<1>1. ASSUME NEW s \in Sessions, NEW new \in SUBSET Unused,
             jobs' = [j \in Jobs |-> IF j \in new THEN NewRow(s) ELSE jobs[j]]
      PROVE  Insert(new, s) /\ new \in SUBSET Jobs
  BY <1>1, NewRowFields DEF Insert, Unused
<1>2. ASSUME NEW s \in Sessions, CreateSession(s)
      PROVE  Kind /\ UNCHANGED requests
  <2>1. PICK new \in SUBSET Unused :
            /\ NextIds(new, PlannedJobs(s))
            /\ jobs' = [j \in Jobs |-> IF j \in new THEN NewRow(s) ELSE jobs[j]]
    BY <1>2 DEF CreateSession
  <2>2. Workflow[s] \in Turns => \E n : new = {n}
    BY <2>1, OneId DEF PlannedJobs, Turns
  <2>3. Workflow[s] = "inbox" => new = {}
    BY <2>1, FS_EmptySet DEF PlannedJobs, NextIds
  <2>4. sessions[s] = "absent" /\ UNCHANGED <<requests, attempts>>
    BY <1>2 DEF CreateSession
  <2>5. \E status \in {"pending", "running"} : sessions' = [sessions EXCEPT ![s] = status]
    BY <1>2 DEF CreateSession
  <2>6. Insert(new, s) /\ new \in SUBSET Jobs
    BY <1>1, <2>1
  <2>7. Creates(s, new)
    BY <2>2, <2>3, <2>4, <2>5, <2>6 DEF Creates
  <2> QED
    BY <2>4, <2>6, <2>7 DEF Kind
<1>3. ASSUME NEW s \in Sessions, PostInput(s)
      PROVE  Kind /\ UNCHANGED requests
  <2>1. PICK new \in SUBSET Unused :
            /\ NextIds(new, 1)
            /\ jobs' = [j \in Jobs |-> IF j \in new THEN NewRow(s) ELSE jobs[j]]
    BY <1>3 DEF PostInput
  <2>2. PICK n : new = {n}
    BY <2>1, OneId
  <2>3. Insert({n}, s) /\ n \in Jobs
    BY <1>1, <2>1, <2>2
  <2>4. \A j \in Jobs : jobs[j].session = s => jobs[j].status \notin Active
    <3>1. ActiveJobs(s) = {}
      BY <1>3 DEF PostInput, AcceptsInput
    <3>2. \A j \in Jobs : jobs[j].session = s /\ jobs[j].status \in Active => j \in ActiveJobs(s)
      BY DEF ActiveJobs, JobsOf
    <3> QED
      BY <3>1, <3>2
  <2>5. /\ Workflow[s] = "chat" /\ sessions[s] = "running"
        /\ UNCHANGED <<sessions, attempts, requests>>
    BY <1>3 DEF PostInput, AcceptsInput
  <2>6. Posts(s, n)
    BY <2>3, <2>4, <2>5 DEF Posts
  <2> QED
    BY <2>3, <2>5, <2>6 DEF Kind
<1>4. ASSUME NEW s \in Sessions, DeleteSession(s)
      PROVE  Kind /\ UNCHANGED requests
  <2>1. \A j \in Jobs : jobs[j] \in JobRow
    BY DEF TypeOK
  <2>2. \A j \in Jobs : jobs'[j] = IF j \in JobsOf(s) THEN Finish(jobs[j], "deleted")
                                  ELSE jobs[j]
    BY <1>4 DEF DeleteSession
  <2>3. \A j \in Jobs : jobs[j].session = s => jobs'[j].status \in Gone
    BY <2>1, <2>2, FinishFields DEF JobsOf, Gone
  <2>4. NoInsert
    BY <2>2 DEF NoInsert, JobsOf
  <2>5. sessions' = [sessions EXCEPT ![s] = "deleted"] /\ UNCHANGED <<requests, attempts>>
    BY <1>4 DEF DeleteSession
  <2>6. Deletes(s)
    BY <2>3, <2>4, <2>5 DEF Deletes
  <2> QED
    BY <2>5, <2>6 DEF Kind
<1>5. ASSUME NEW a \in Agents, NEW t \in Tasks, PostInbox(a, t)
      PROVE  Kind /\ UNCHANGED requests
  BY <1>5 DEF PostInbox, Kind, Still, NoInsert
<1> QED
  BY <1>2, <1>3, <1>4, <1>5 DEF ClientNext

\* Until its commit a pull changes nothing that others see but its row locks.
LEMMA PullQuiet ==
    \A p \in Pulls : (\E w \in Workers : PullSweep(p, w)) \/ PullAbort(p) =>
        UNCHANGED <<registryVars, sessions, jobs, inbox, requests, attempts>>
BY DEF PullSweep, PullAbort

LEMMA PullKind == \A p \in Pulls : TypeOK /\ LockInv /\ PullNext(p) => Kind /\ UNCHANGED requests
<1> SUFFICES ASSUME NEW p \in Pulls, TypeOK, LockInv, PullCommit(p) PROVE Kind
  BY PullQuiet DEF PullNext, PullStep, PullCommit, Kind, Still, NoInsert
<1> DEFINE w == pulls[p].by
<1>1. \A j \in Jobs : jobs[j].status = "absent" => Swept(p)[j].status = "absent"
  BY SweptFields
<1>2. \A j \in Jobs : Swept(p)[j].status = "pending" => jobs[j].status \notin Gone
  BY SweptFields DEF Gone
<1>3. Swept(p) \in [Jobs -> JobRow] /\ sessions \in [Sessions -> SessionStatus]
      /\ attempts \in [Jobs -> Nat] /\ (\A j \in Jobs : jobs[j].session \in Sessions)
  BY SweptType DEF TypeOK, JobRow
<1>4. CASE PullSweepOnly(p)
  BY <1>1, <1>4 DEF PullSweepOnly, Kind, Still, NoInsert
<1>5. CASE PullPromote(p)
  <2>1. PICK a \in Listening(w), s \in Sessions, j \in Jobs :
            /\ s \in RunningInbox(a)
            /\ NextIds({j}, 1)
            /\ jobs' = [Swept(p) EXCEPT ![j] = Assign(NewRow(s), w)]
            /\ attempts' = [attempts EXCEPT ![j] = @ + 1]
            /\ StartSession(s)
    BY <1>5 DEF PullPromote, RunningInbox
  <2>2. Workflow[s] = "inbox" /\ sessions[s] = "running"
    BY <2>1 DEF RunningInbox
  <2>3. sessions' = sessions
    BY <2>1, <2>2 DEF StartSession
  <2>4. jobs[j].status = "absent"
    BY <2>1 DEF NextIds, Unused
  <2>5. /\ jobs'[j] = Assign(NewRow(s), w)
        /\ \A k \in Jobs \ {j} : jobs'[k] = Swept(p)[k] /\ attempts'[k] = attempts[k]
    BY <1>3, <2>1
  <2>6. jobs'[j].session = s
    BY <2>5, NewRowType, NewRowFields, AssignFields
  <2>7. Insert({j}, s)
    BY <1>1, <2>4, <2>5, <2>6 DEF Insert
  <2>8. Promotes(s, j)
    BY <2>2, <2>3, <2>5, <2>7 DEF Promotes
  <2> QED
    BY <2>8 DEF Kind
<1>6. CASE PullClaim(p)
  <2>1. PICK j \in Queued(p) :
            /\ jobs' = [Swept(p) EXCEPT ![j] = Assign(@, w)]
            /\ attempts' = [attempts EXCEPT ![j] = @ + 1]
            /\ StartSession(jobs[j].session)
    BY <1>6 DEF PullClaim
  <2>2. j \in Jobs /\ Swept(p)[j].status = "pending" /\ jobs[j].status \notin Gone
    BY <1>2 DEF Queued
  <2>3. \A k \in Jobs \ {j} : jobs'[k] = Swept(p)[k] /\ attempts'[k] = attempts[k]
    BY <1>3, <2>1, <2>2
  <2>4. NoInsert
    BY <1>1, <2>2, <2>3 DEF NoInsert, Gone
  <2>5. Claims(j)
    BY <2>1, <2>2, <2>3, <2>4 DEF Claims, StartSession
  <2> QED
    BY <2>2, <2>5 DEF Kind
<1> QED
  BY <1>4, <1>5, <1>6 DEF PullCommit

\* A completion that ends its job and inserts none.
LEMMA FinishKind ==
    ASSUME TypeOK, NEW r \in Requests, requests[r] # NoRequest,
           NEW outcome \in Terminal, NEW status \in {"running", "completed", "failed"},
           jobs[requests[r].job].status = "assigned",
           jobs' = [jobs EXCEPT ![requests[r].job] = Finish(@, outcome)],
           sessions' = [sessions EXCEPT ![jobs[requests[r].job].session] = status],
           UNCHANGED attempts,
           status = "completed" => OthersActive(requests[r].job) = {}
    PROVE  Kind
<1> DEFINE j == requests[r].job
<1>1. j \in Jobs /\ jobs[j] \in JobRow
  BY RequestRows
<1>2. jobs'[j] = Finish(jobs[j], outcome) /\ \A k \in Jobs \ {j} : jobs'[k] = jobs[k]
  BY <1>1 DEF TypeOK
<1>3. jobs'[j].status \notin Active /\ NoInsert
  BY <1>1, <1>2, FinishFields DEF NoInsert
<1>4. ASSUME status = "completed", NEW k \in Jobs, k # j,
             jobs[k].session = jobs[j].session, jobs[k].status \in Active
      PROVE  FALSE
  <2>1. k \in OthersActive(j)
    BY <1>4 DEF OthersActive, ActiveJobs, JobsOf
  <2> QED
    BY <1>4, <2>1
<1>5. Finishes(j, status)
  BY <1>3, <1>4 DEF Finishes
<1> QED
  BY <1>1, <1>5 DEF Kind

LEMMA RequestKind ==
    ASSUME TypeOK, LockInv, SessionInv, NEW r \in Requests, RequestNext(r)
    PROVE  Kind /\ Counts
<1> DEFINE j == requests[r].job
<1>1. ASSUME EndRequest(r)
      PROVE  Counts
  BY <1>1 DEF EndRequest, TypeOK, Counts
<1>2. ASSUME UNCHANGED <<jobs, sessions, attempts>>
      PROVE  Kind
  BY <1>2 DEF Kind, Still, NoInsert
<1>3. ASSUME NEW k \in Jobs, NEW by \in Workers \cup {NoWorker}, NEW outcome \in Outcomes,
             CompleteCheck(r, k, by, outcome)
      PROVE  Kind /\ Counts
  <2>1. UNCHANGED <<jobs, sessions, attempts>>
    BY <1>3 DEF CompleteCheck
  <2>2. requests'[r].phase = "checked" /\ \A q \in Requests : q # r => requests'[q] = requests[q]
    BY <1>3 DEF CompleteCheck, TypeOK
  <2> QED
    BY <1>2, <2>1, <2>2 DEF Counts
<1>4. CASE CompleteCount(r)
  <2>1. requests[r] \in Request
    BY <1>4, RequestRows DEF CompleteCount
  <2>2. UNCHANGED <<jobs, sessions, attempts>>
    BY <1>4 DEF CompleteCount
  <2>3. /\ requests'[r].job = j
        /\ requests'[r].phase = IF OthersActive(j) = {} THEN "sawNone" ELSE "sawOthers"
        /\ \A q \in Requests : q # r => requests'[q] = requests[q]
    BY <1>4, <2>1 DEF CompleteCount, TypeOK, Request
  <2> QED
    BY <1>2, <2>2, <2>3 DEF Counts
<1>5. CASE CompleteLoopN(r)
  <2>1. j \in Jobs /\ rowLock[j] = r
    BY <1>5, RequestRows DEF CompleteLoopN, LockInv, CountedIsLocked
  <2>2. jobs[j].status = "assigned"
    BY <2>1, TxAssumption DEF LockInv, LockedIsAssigned
  <2>3. requests[r].phase = "sawNone" => OthersActive(j) = {}
    BY <1>5, <2>1 DEF SessionInv, Counted, CompleteLoopN, OthersActive, ActiveJobs, JobsOf
  <2>4. PICK status \in {"running", "completed"} :
            /\ sessions' = [sessions EXCEPT ![jobs[j].session] = status]
            /\ status = "completed" => requests[r].phase = "sawNone"
    BY <1>5 DEF CompleteLoopN
  <2>5. /\ requests[r] # NoRequest /\ EndRequest(r) /\ UNCHANGED attempts
        /\ jobs' = [jobs EXCEPT ![j] = Finish(@, "completed")]
    BY <1>5 DEF CompleteLoopN
  <2>6. Kind
    BY <2>2, <2>3, <2>4, <2>5, FinishKind
  <2> QED
    BY <1>1, <2>5, <2>6
<1>6. CASE CompleteFailed(r)
  <2>1. PICK cancelled \in SUBSET Jobs :
            /\ \A k \in cancelled : jobs[k].status = "pending"
            /\ jobs' = [k \in Jobs |-> IF k \in cancelled \cup {j} THEN Finish(jobs[k], "failed")
                                       ELSE jobs[k]]
    <3> DEFINE cancelled == IF WorkflowOf(j) \in Loops
                     THEN {k \in JobsOf(jobs[j].session) : jobs[k].status = "pending"}
                     ELSE {}
    <3>1. cancelled \in SUBSET Jobs /\ \A k \in cancelled : jobs[k].status = "pending"
      BY DEF JobsOf
    <3>2. jobs' = [k \in Jobs |-> IF k \in cancelled \cup {j} THEN Finish(jobs[k], "failed")
                                 ELSE jobs[k]]
      BY <1>6 DEF CompleteFailed
    <3> QED
      BY <3>1, <3>2
  <2>2. /\ jobs[j].status = "assigned" /\ EndRequest(r) /\ UNCHANGED attempts
        /\ sessions' = [sessions EXCEPT ![jobs[j].session] = "failed"]
    BY <1>6 DEF CompleteFailed, Updatable
  <2>3. j \in Jobs /\ \A k \in Jobs : jobs[k] \in JobRow
    BY <1>6, RequestRows DEF CompleteFailed, TypeOK
  <2>4. jobs'[j].status = "failed" /\ NoInsert
    BY <2>1, <2>2, <2>3, FinishFields DEF NoInsert
  <2>5. Finishes(j, "failed")
    BY <2>2, <2>4 DEF Finishes
  <2>6. Kind
    BY <2>3, <2>5 DEF Kind
  <2> QED
    BY <1>1, <2>2, <2>6
<1>7. CASE CompleteTurn(r)
  <2>1. /\ requests[r] # NoRequest /\ EndRequest(r) /\ UNCHANGED attempts
        /\ jobs[j].status = "assigned"
        /\ jobs' = [jobs EXCEPT ![j] = Finish(@, "completed")]
        /\ sessions' = [sessions EXCEPT ![jobs[j].session] = "running"]
    BY <1>7 DEF CompleteTurn, Updatable
  <2>2. Kind
    BY <2>1, FinishKind
  <2> QED
    BY <1>1, <2>1, <2>2
<1>8. CASE CompleteIteration(r)
  <2>1. /\ requests[r] # NoRequest /\ EndRequest(r) /\ UNCHANGED attempts
        /\ jobs[j].status = "assigned"
        /\ Workflow[jobs[j].session] = "loop_until_sentinel"
    BY <1>8 DEF CompleteIteration, Updatable, WorkflowOf
  <2>2. j \in Jobs /\ jobs[j] \in JobRow /\ jobs[j].session \in Sessions
    BY <2>1, RequestRows
  <2>3. ASSUME ~IteratesAfter(r, j)
        PROVE  Kind
    <3>1. /\ jobs' = [jobs EXCEPT ![j] = Finish(@, "completed")]
          /\ sessions' = [sessions EXCEPT ![jobs[j].session] = "completed"]
      BY <1>8, <2>3 DEF CompleteIteration
    <3>2. OthersActive(j) = {}
      BY <2>1, <2>2 DEF SessionInv, Single, Turns, OthersActive, ActiveJobs, JobsOf
    <3> QED
      BY <2>1, <3>1, <3>2, FinishKind
  <2>4. ASSUME IteratesAfter(r, j)
        PROVE  Kind
    <3>1. PICK next \in Jobs :
              /\ NextIds({next}, 1)
              /\ jobs' = [[jobs EXCEPT ![j] = Finish(@, "completed")]
                              EXCEPT ![next] = NewRow(jobs[j].session)]
      BY <1>8, <2>4 DEF CompleteIteration
    <3>2. sessions' = [sessions EXCEPT ![jobs[j].session] = "running"]
      BY <1>8, <2>4 DEF CompleteIteration
    <3>3. jobs[next].status = "absent" /\ next # j
      BY <2>1, <3>1 DEF NextIds, Unused
    <3>4. /\ jobs'[j] = Finish(jobs[j], "completed")
          /\ jobs'[next] = NewRow(jobs[j].session)
          /\ \A k \in Jobs \ {j, next} : jobs'[k] = jobs[k]
      BY <2>2, <3>1, <3>3 DEF TypeOK
    <3>5. jobs'[j].status = "completed" /\ Insert({next}, jobs[j].session)
      BY <2>1, <2>2, <3>3, <3>4, FinishFields, NewRowFields DEF Insert
    <3>6. Iterates(j, next)
      BY <2>1, <2>4, <3>2, <3>5 DEF Iterates, IteratesAfter
    <3> QED
      BY <2>2, <3>6 DEF Kind
  <2> QED
    BY <1>1, <2>1, <2>3, <2>4
<1>9. CASE CompleteAbort(r)
  BY <1>1, <1>2, <1>9 DEF CompleteAbort
<1> QED
  BY <1>3, <1>4, <1>5, <1>6, <1>7, <1>8, <1>9 DEF RequestNext, RequestStep

LEMMA NextKind == TypeOK /\ LockInv /\ SessionInv /\ [Next]_vars => Kind /\ Counts
<1> SUFFICES ASSUME TypeOK, LockInv, SessionInv, [Next]_vars PROVE Kind /\ Counts
  OBVIOUS
<1>1. ASSUME UNCHANGED requests
      PROVE  Counts
  BY <1>1 DEF Counts
<1>2. ASSUME UNCHANGED <<jobs, sessions, attempts>>
      PROVE  Kind
  BY <1>2 DEF Kind, Still, NoInsert
<1>3. CASE UNCHANGED vars
  BY <1>1, <1>2, <1>3 DEF vars, queueVars
<1>4. ASSUME NEW w \in Workers, WorkerNext(w)
      PROVE  Kind /\ Counts
  <2>1. CASE RegistryStep(w) /\ UNCHANGED queueVars
    BY <1>1, <1>2, <2>1 DEF queueVars
  <2>2. CASE RemoveStart(w) \/ RemoveAbort(w)
    BY <1>1, <1>2, <2>2 DEF RemoveStart, RemoveAbort
  <2>3. CASE RemoveCommit(w)
    <3>1. UNCHANGED <<sessions, requests, attempts>>
      BY <2>3 DEF RemoveCommit
    <3>2. \A j \in Jobs : jobs[j].status = "absent" => jobs'[j] = jobs[j]
      BY <2>3, TxAssumption DEF RemoveCommit, HeldBy, LockInv, LockedIsAssigned
    <3> QED
      BY <1>1, <3>1, <3>2 DEF Kind, Still, NoInsert
  <2> QED
    BY <1>4, <2>1, <2>2, <2>3 DEF WorkerNext
<1>5. ASSUME NEW r \in Requests, RequestNext(r)
      PROVE  Kind /\ Counts
  BY <1>5, RequestKind
<1>6. ASSUME NEW j \in Jobs, LeaseRunsOut(j)
      PROVE  Kind /\ Counts
  BY <1>1, <1>2, <1>6 DEF LeaseRunsOut
<1>7. ASSUME NEW p \in Pulls, PullNext(p)
      PROVE  Kind /\ Counts
  BY <1>1, <1>7, PullKind
<1> QED
  BY <1>1, <1>3, <1>4, <1>5, <1>6, <1>7, ClientKind DEF Next

\* What every step does to every row, from RowStep.
Rows ==
    \A j \in Jobs :
        /\ jobs[j].session \in Sessions /\ jobs'[j].session \in Sessions
        /\ jobs[j].status # "absent" => jobs'[j].session = jobs[j].session
        /\ jobs'[j].status \in Active => jobs[j].status \in Active \cup {"absent"}
        /\ jobs'[j].status \notin Gone => jobs[j].status # "deleted"
        /\ jobs[j].status = "completed" => jobs'[j].status \in {"completed", "deleted"}
        /\ jobs[j].status = "absent" => attempts[j] = 0

LEMMA RowsOfStep == JobInv /\ [Next]_vars => Rows
<1> SUFFICES ASSUME JobInv, [Next]_vars, NEW j \in Jobs
             PROVE  /\ jobs[j].session \in Sessions /\ jobs'[j].session \in Sessions
                    /\ jobs[j].status # "absent" => jobs'[j].session = jobs[j].session
                    /\ jobs'[j].status \in Active => jobs[j].status \in Active \cup {"absent"}
                    /\ jobs'[j].status \notin Gone => jobs[j].status # "deleted"
                    /\ jobs[j].status = "completed" =>
                          jobs'[j].status \in {"completed", "deleted"}
                    /\ jobs[j].status = "absent" => attempts[j] = 0
  BY DEF Rows
<1>1. TypeOK /\ TypeOK' /\ RowStep(j)
  BY NextType, NextStep DEF JobInv, GoodStep
<1>2. jobs[j] \in JobRow /\ jobs'[j] \in JobRow
  BY <1>1 DEF TypeOK
<1>3. jobs[j].session \in Sessions /\ jobs'[j].session \in Sessions
  BY <1>2 DEF JobRow
<1>4. jobs[j].status # "absent" => jobs'[j].session = jobs[j].session
  BY <1>1 DEF RowStep
<1>5. jobs'[j].status \in Active => jobs[j].status \in Active \cup {"absent"}
  BY <1>1 DEF RowStep, RowMove, Requeued, FailedRow
<1>6. jobs'[j].status \notin Gone => jobs[j].status # "deleted"
  BY <1>1 DEF RowStep, RowMove, Requeued, FailedRow, Gone
<1>7. jobs[j].status = "absent" => attempts[j] = 0
  BY DEF JobInv, RetryInv
<1>8. jobs[j].status = "completed" => jobs'[j].status \in {"completed", "deleted"}
  BY <1>1 DEF RowStep, RowMove, Requeued, FailedRow
<1> QED
  BY <1>3, <1>4, <1>5, <1>6, <1>7, <1>8

\* The step from a state that satisfies the invariants.
SessionStep ==
    /\ JobInv /\ SessionInv /\ Kind /\ Counts /\ Rows
    /\ LockInv'
    /\ sessions \in [Sessions -> SessionStatus]

LEMMA HomesStep == SessionStep => Homes'
<1> SUFFICES ASSUME SessionStep, NEW j \in Jobs, jobs'[j].status \notin Gone
             PROVE  sessions'[jobs'[j].session] \notin Gone
  BY DEF Homes
<1>1. /\ jobs[j].status \notin Gone =>
            /\ jobs'[j].session = jobs[j].session
            /\ sessions[jobs[j].session] \notin Gone
      /\ jobs[j].status = "absent" \/ jobs[j].status \notin Gone
      /\ jobs[j].session \in Sessions /\ jobs'[j].session \in Sessions
      /\ sessions \in [Sessions -> SessionStatus]
  BY DEF SessionStep, SessionInv, Rows, Homes, Gone
<1>2. CASE Still
  BY <1>1, <1>2 DEF Still, NoInsert, Gone
<1>3. ASSUME NEW s \in Sessions, NEW new \in SUBSET Jobs, Creates(s, new)
      PROVE  sessions'[jobs'[j].session] \notin Gone
  BY <1>1, <1>3 DEF Creates, Insert, Gone
<1>4. ASSUME NEW s \in Sessions, NEW n \in Jobs, Posts(s, n) \/ Promotes(s, n)
      PROVE  sessions'[jobs'[j].session] \notin Gone
  BY <1>1, <1>4 DEF Posts, Promotes, Insert, Gone
<1>5. ASSUME NEW s \in Sessions, Deletes(s)
      PROVE  sessions'[jobs'[j].session] \notin Gone
  BY <1>1, <1>5 DEF Deletes, NoInsert, Gone
<1>6. ASSUME NEW k \in Jobs, Claims(k)
      PROVE  sessions'[jobs'[j].session] \notin Gone
  BY <1>1, <1>6 DEF Claims, NoInsert, Gone
<1>7. ASSUME NEW k \in Jobs, NEW status \in {"running", "completed", "failed"},
             Finishes(k, status)
      PROVE  sessions'[jobs'[j].session] \notin Gone
  BY <1>1, <1>7 DEF Finishes, NoInsert, Gone
<1>8. ASSUME NEW k \in Jobs, NEW n \in Jobs, Iterates(k, n)
      PROVE  sessions'[jobs'[j].session] \notin Gone
  <2>1. jobs[k].session \in Sessions
    BY DEF SessionStep, Rows
  <2> QED
    BY <1>1, <1>8, <2>1 DEF Iterates, Insert, Gone
<1> QED
  BY <1>2, <1>3, <1>4, <1>5, <1>6, <1>7, <1>8 DEF SessionStep, Kind

LEMMA SingleStep == SessionStep => Single'
<1> SUFFICES ASSUME SessionStep, NEW j \in Jobs, NEW k \in Jobs, j # k,
                    jobs'[j].status \in Active, jobs'[k].status \in Active,
                    jobs'[j].session = jobs'[k].session,
                    Workflow[jobs'[j].session] \in Turns
             PROVE  FALSE
  BY DEF Single
<1>1. /\ jobs[j].status \in Active \cup {"absent"} /\ jobs[k].status \in Active \cup {"absent"}
      /\ jobs[j].status # "absent" => jobs'[j].session = jobs[j].session
      /\ jobs[k].status # "absent" => jobs'[k].session = jobs[k].session
      /\ jobs[j].status \in Active => sessions[jobs[j].session] \notin Gone
      /\ jobs[k].status \in Active => sessions[jobs[k].session] \notin Gone
  BY DEF SessionStep, SessionInv, Rows, Homes, Gone
<1>2. jobs[j].status = "absent" \/ jobs[k].status = "absent"
  BY <1>1 DEF SessionStep, SessionInv, Single
<1>3. ~NoInsert
  BY <1>2 DEF NoInsert
<1>4. ASSUME NEW s \in Sessions, NEW new \in SUBSET Jobs, Creates(s, new)
      PROVE  FALSE
  <2>1. \E n : new = {n}
    BY <1>1, <1>2, <1>4 DEF Creates, Insert
  <2> QED
    BY <1>1, <1>2, <1>4, <2>1 DEF Creates, Insert, Gone
<1>5. ASSUME NEW s \in Sessions, NEW n \in Jobs, Posts(s, n)
      PROVE  FALSE
  BY <1>1, <1>2, <1>5 DEF Posts, Insert
<1>6. ASSUME NEW s \in Sessions, NEW n \in Jobs, Promotes(s, n)
      PROVE  FALSE
  BY <1>1, <1>2, <1>6 DEF Promotes, Insert, Turns
<1>7. ASSUME NEW i \in Jobs, NEW n \in Jobs, Iterates(i, n)
      PROVE  FALSE
  <2>1. /\ jobs[i].status \in Active /\ i # j /\ i # k
        /\ Insert({n}, jobs[i].session)
        /\ Workflow[jobs[i].session] \in Turns
    BY <1>7 DEF Iterates, Turns
  <2>2. \A l \in Jobs : jobs[l].status \in Active /\ jobs[l].session = jobs[i].session => l = i
    BY <2>1 DEF SessionStep, SessionInv, Single
  <2> QED
    BY <1>1, <1>2, <2>1, <2>2 DEF Insert
<1> QED
  BY <1>3, <1>4, <1>5, <1>6, <1>7
  DEF SessionStep, Kind, Still, Deletes, Claims, Finishes

LEMMA CountedStep == SessionStep => Counted'
<1> SUFFICES ASSUME SessionStep, NEW r \in Requests, NEW k \in Jobs,
                    requests'[r] # NoRequest, requests'[r].phase = "sawNone",
                    k # requests'[r].job, jobs'[k].session = jobs'[requests'[r].job].session,
                    jobs'[k].status \in Active
             PROVE  FALSE
  BY DEF Counted
<1> DEFINE i == requests'[r].job
<1>1. CASE OthersActive(i) = {} /\ jobs' = jobs
  <2>1. k \in OthersActive(i)
    BY <1>1 DEF OthersActive, ActiveJobs, JobsOf
  <2> QED
    BY <1>1, <2>1
<1>2. CASE requests'[r] = requests[r]
  <2>1. TypeOK /\ LockInv
    BY DEF SessionStep, JobInv
  <2>2. i = requests[r].job /\ i \in Jobs /\ rowLock[i] = r /\ Workflow[jobs[i].session] = "loop_n"
    BY <1>2, <2>1, RequestRows DEF LockInv, CountedIsLocked
  <2>3. jobs[i].status = "assigned"
    BY <2>1, <2>2, TxAssumption DEF LockInv, LockedIsAssigned
  <2>4. jobs'[i].session = jobs[i].session /\ sessions[jobs[i].session] \notin Gone
    BY <2>2, <2>3 DEF SessionStep, SessionInv, Homes, Rows, Gone
  <2>5. jobs[k].status = "absent"
    <3>1. jobs[k].status \in Active \cup {"absent"}
      BY DEF SessionStep, Rows
    <3>2. jobs[k].status \in Active => jobs[k].session = jobs[i].session
      BY <2>4 DEF SessionStep, Rows
    <3>3. jobs[k].status \notin Active
      BY <1>2, <2>2, <3>2 DEF SessionStep, SessionInv, Counted
    <3> QED
      BY <3>1, <3>3
  <2>6. ~NoInsert
    BY <2>5 DEF NoInsert
  <2>7. ASSUME NEW s \in Sessions, NEW new \in SUBSET Jobs, Insert(new, s)
        PROVE  s = jobs[i].session
    BY <2>4, <2>5, <2>7 DEF Insert
  <2>8. ASSUME NEW s \in Sessions, NEW new \in SUBSET Jobs, Creates(s, new)
        PROVE  FALSE
    BY <2>4, <2>7, <2>8 DEF Creates, Gone
  <2>9. ASSUME NEW s \in Sessions, NEW n \in Jobs, Posts(s, n) \/ Promotes(s, n)
        PROVE  FALSE
    <3>1. {n} \in SUBSET Jobs
      OBVIOUS
    <3> QED
      BY <2>2, <2>7, <2>9, <3>1 DEF Posts, Promotes
  <2>10. ASSUME NEW l \in Jobs, NEW n \in Jobs, Iterates(l, n)
         PROVE  FALSE
    <3>1. {n} \in SUBSET Jobs /\ jobs[l].session \in Sessions
      BY DEF SessionStep, Rows
    <3> QED
      BY <2>2, <2>7, <2>10, <3>1 DEF Iterates
  <2> QED
    BY <2>6, <2>8, <2>9, <2>10 DEF SessionStep, Kind, Still, Deletes, Claims, Finishes
<1> QED
  BY <1>1, <1>2 DEF SessionStep, Counts

LEMMA DoneStep == SessionStep => Done'
<1> SUFFICES ASSUME SessionStep, NEW j \in Jobs, jobs'[j].status \in Active
             PROVE  sessions'[jobs'[j].session] # "completed"
  BY DEF Done
<1>1. /\ jobs[j].status \in Active \cup {"absent"}
      /\ jobs[j].status # "absent" => /\ jobs'[j].session = jobs[j].session
                                      /\ sessions[jobs[j].session] # "completed"
      /\ jobs[j].session \in Sessions /\ jobs'[j].session \in Sessions
      /\ sessions \in [Sessions -> SessionStatus]
  BY DEF SessionStep, SessionInv, Rows, Done
<1>2. ASSUME NoInsert
      PROVE  jobs[j].status \in Active
  BY <1>1, <1>2 DEF NoInsert
<1>3. CASE Still
  BY <1>1, <1>2, <1>3 DEF Still
<1>4. ASSUME NEW s \in Sessions, NEW new \in SUBSET Jobs, Creates(s, new)
      PROVE  sessions'[jobs'[j].session] # "completed"
  BY <1>1, <1>4 DEF Creates, Insert
<1>5. ASSUME NEW s \in Sessions, NEW n \in Jobs, Posts(s, n) \/ Promotes(s, n)
      PROVE  sessions'[jobs'[j].session] # "completed"
  BY <1>1, <1>5 DEF Posts, Promotes, Insert
<1>6. ASSUME NEW s \in Sessions, Deletes(s)
      PROVE  sessions'[jobs'[j].session] # "completed"
  BY <1>1, <1>2, <1>6 DEF Deletes
<1>7. ASSUME NEW k \in Jobs, Claims(k)
      PROVE  sessions'[jobs'[j].session] # "completed"
  BY <1>1, <1>2, <1>7 DEF Claims
<1>8. ASSUME NEW k \in Jobs, NEW status \in {"running", "completed", "failed"},
             Finishes(k, status)
      PROVE  sessions'[jobs'[j].session] # "completed"
  <2>1. j # k /\ jobs[j].status \in Active
    BY <1>2, <1>8 DEF Finishes
  <2>2. status = "completed" => jobs[j].session # jobs[k].session
    BY <1>8, <2>1 DEF Finishes
  <2> QED
    BY <1>1, <1>8, <2>1, <2>2 DEF Finishes
<1>9. ASSUME NEW k \in Jobs, NEW n \in Jobs, Iterates(k, n)
      PROVE  sessions'[jobs'[j].session] # "completed"
  BY <1>1, <1>9 DEF Iterates, Insert
<1> QED
  BY <1>3, <1>4, <1>5, <1>6, <1>7, <1>8, <1>9 DEF SessionStep, Kind

LEMMA UntouchedStep == SessionStep => Untouched'
<1> SUFFICES ASSUME SessionStep, NEW j \in Jobs, jobs'[j].status \notin Gone,
                    sessions'[jobs'[j].session] = "pending"
             PROVE  attempts'[j] = 0
  BY DEF Untouched
<1>1. /\ jobs[j].status = "absent" \/ jobs[j].status \notin Gone
      /\ jobs[j].status = "absent" => attempts[j] = 0
      /\ jobs[j].status # "absent" => jobs'[j].session = jobs[j].session
      /\ jobs[j].status \notin Gone /\ sessions[jobs[j].session] = "pending" => attempts[j] = 0
      /\ jobs[j].status \notin Gone => sessions[jobs[j].session] \notin Gone
      /\ jobs[j].session \in Sessions /\ jobs'[j].session \in Sessions
      /\ sessions \in [Sessions -> SessionStatus]
  BY DEF SessionStep, SessionInv, Rows, Untouched, Homes, Gone
<1>2. CASE Still
  BY <1>1, <1>2 DEF Still, NoInsert, Gone
<1>3. ASSUME NEW s \in Sessions, NEW new \in SUBSET Jobs, Creates(s, new)
      PROVE  attempts'[j] = 0
  <2>1. jobs[j].status # "absent" => jobs[j].session # s
    BY <1>1, <1>3 DEF Creates, Gone
  <2> QED
    BY <1>1, <1>3, <2>1 DEF Creates
<1>4. ASSUME NEW s \in Sessions, NEW n \in Jobs, Posts(s, n)
      PROVE  attempts'[j] = 0
  BY <1>1, <1>4 DEF Posts, Insert
<1>5. ASSUME NEW s \in Sessions, NEW n \in Jobs, Promotes(s, n)
      PROVE  attempts'[j] = 0
  BY <1>1, <1>5 DEF Promotes, Insert
<1>6. ASSUME NEW s \in Sessions, Deletes(s)
      PROVE  attempts'[j] = 0
  BY <1>1, <1>6 DEF Deletes
<1>7. ASSUME NEW k \in Jobs, Claims(k)
      PROVE  attempts'[j] = 0
  <2>1. jobs[j].status \notin Gone /\ jobs[k].session \in Sessions
    BY <1>1, <1>7 DEF Claims, NoInsert, Gone, SessionStep, Rows
  <2>2. sessions'[jobs[k].session] # "pending"
    BY <1>1, <1>7, <2>1 DEF Claims
  <2>3. j # k /\ attempts'[j] = attempts[j]
    BY <1>1, <1>7, <2>1, <2>2 DEF Claims, Gone
  <2>4. sessions[jobs[j].session] = "pending"
    BY <1>1, <1>7, <2>1 DEF Claims, Gone
  <2> QED
    BY <1>1, <2>1, <2>3, <2>4
<1>8. ASSUME NEW k \in Jobs, NEW status \in {"running", "completed", "failed"},
             Finishes(k, status)
      PROVE  attempts'[j] = 0
  BY <1>1, <1>8 DEF Finishes
<1>9. ASSUME NEW k \in Jobs, NEW n \in Jobs, Iterates(k, n)
      PROVE  attempts'[j] = 0
  BY <1>1, <1>9 DEF Iterates, Insert
<1> QED
  BY <1>2, <1>3, <1>4, <1>5, <1>6, <1>7, <1>8, <1>9 DEF SessionStep, Kind

LEMMA EachStep == JobInv /\ SessionInv /\ [Next]_vars => SessionStep
<1> SUFFICES ASSUME JobInv, SessionInv, [Next]_vars PROVE SessionStep
  OBVIOUS
<1>1. TypeOK /\ LockInv
  BY DEF JobInv
<1>2. Kind /\ Counts
  BY <1>1, NextKind
<1>3. LockInv'
  BY <1>1, NextStep DEF GoodStep
<1>4. sessions \in [Sessions -> SessionStatus]
  BY <1>1 DEF TypeOK
<1> QED
  BY <1>2, <1>3, <1>4, RowsOfStep DEF SessionStep

LEMMA SessionInvHolds == Spec => []SessionInv
<1>1. JobInv /\ SessionInv /\ [Next]_vars => SessionInv'
  BY EachStep, HomesStep, SingleStep, CountedStep, DoneStep, UntouchedStep DEF SessionInv
<1> QED
  BY <1>1, SessionInit, JobInvHolds, PTL DEF Spec

\* OneJobAtATime of JobQueue: a chat turn or a sentinel iteration never
\* overlaps the next one, for every order of messages, completions, reclaims
\* and deletions.
THEOREM TurnsDoNotOverlap == Spec => []OneJobAtATime
<1>1. SessionInv => OneJobAtATime
  BY DEF SessionInv, Single, Turns, OneJobAtATime, ActiveJobs, JobsOf
<1> QED
  BY <1>1, SessionInvHolds, PTL

\* CompletedMeansDone of JobQueue: the count of complete_task, taken before its
\* commit, never completes a session that has work left.
THEOREM CompletedSessionsAreDone == Spec => []CompletedMeansDone
<1>1. SessionInv => CompletedMeansDone
  BY DEF SessionInv, Done, CompletedMeansDone, ActiveJobs, JobsOf
<1> QED
  BY <1>1, SessionInvHolds, PTL

\* PendingMeansUntouched of JobQueue: no job of a session that is shown as
\* pending was ever handed out.
THEOREM PendingSessionsAreUntouched == Spec => []PendingMeansUntouched
<1>1. SessionInv => PendingMeansUntouched
  BY DEF SessionInv, Untouched, Gone, PendingMeansUntouched, JobsOf
<1> QED
  BY <1>1, SessionInvHolds, PTL

\* CompletedIsFinal of JobQueue: a completed session stays so until it is
\* deleted, because no job of it is left to complete or fail.
THEOREM CompletedSessionsStay == Spec => CompletedIsFinal
<1>1. ASSUME SessionStep, NEW s \in Sessions, sessions[s] = "completed"
      PROVE  sessions'[s] \in {"completed", "deleted"}
  <2>1. \A j \in Jobs : jobs[j].session = s => jobs[j].status \notin Active
    BY <1>1 DEF SessionStep, SessionInv, Done
  <2>2. sessions \in [Sessions -> SessionStatus]
    BY <1>1 DEF SessionStep
  <2>3. CASE Still
    BY <1>1, <2>3 DEF Still
  <2>4. ASSUME NEW s2 \in Sessions, NEW new \in SUBSET Jobs, Creates(s2, new)
        PROVE  sessions'[s] \in {"completed", "deleted"}
    BY <1>1, <2>2, <2>4 DEF Creates
  <2>5. ASSUME NEW s2 \in Sessions, NEW n \in Jobs, Posts(s2, n) \/ Promotes(s2, n)
        PROVE  sessions'[s] \in {"completed", "deleted"}
    BY <1>1, <2>5 DEF Posts, Promotes
  <2>6. ASSUME NEW s2 \in Sessions, Deletes(s2)
        PROVE  sessions'[s] \in {"completed", "deleted"}
    BY <1>1, <2>2, <2>6 DEF Deletes
  <2>7. ASSUME NEW k \in Jobs, Claims(k)
        PROVE  sessions'[s] \in {"completed", "deleted"}
    BY <1>1, <2>2, <2>7 DEF Claims
  <2>8. ASSUME NEW k \in Jobs, NEW status \in {"running", "completed", "failed"},
               Finishes(k, status)
        PROVE  sessions'[s] \in {"completed", "deleted"}
    BY <1>1, <2>1, <2>2, <2>8 DEF Finishes
  <2>9. ASSUME NEW k \in Jobs, NEW n \in Jobs, Iterates(k, n)
        PROVE  sessions'[s] \in {"completed", "deleted"}
    BY <1>1, <2>1, <2>2, <2>9 DEF Iterates
  <2> QED
    BY <1>1, <2>3, <2>4, <2>5, <2>6, <2>7, <2>8, <2>9 DEF SessionStep, Kind
<1>2. JobInv /\ SessionInv /\ [Next]_vars =>
        [\A s \in Sessions : sessions[s] = "completed" =>
            sessions'[s] \in {"completed", "deleted"}]_vars
  BY <1>1, EachStep
<1> QED
  BY <1>2, JobInvHolds, SessionInvHolds, PTL DEF Spec, CompletedIsFinal

(***************************************************************************)
(* 4. Sentinel loops.  The count of complete_task is of completed jobs, so *)
(* it bounds the jobs only because the others of a loop that still has an  *)
(* active job have all completed: a failure ends the loop.                 *)
(***************************************************************************)
OthersCompleted ==
    \A j, k \in Jobs :
        /\ jobs[j].status \in Active /\ jobs[k].status \notin Gone /\ j # k
        /\ jobs[j].session = jobs[k].session
        /\ Workflow[jobs[j].session] = "loop_until_sentinel"
        => jobs[k].status = "completed"

FewIterations ==
    \A s \in Sessions : Workflow[s] = "loop_until_sentinel" =>
        IsFiniteSet(JobsOf(s)) /\ Cardinality(JobsOf(s)) <= MaxIterations

LoopInv == OthersCompleted /\ FewIterations

LEMMA OthersStep == SessionStep /\ OthersCompleted => OthersCompleted'
<1> SUFFICES ASSUME SessionStep, OthersCompleted, NEW j \in Jobs, NEW k \in Jobs, j # k,
                    jobs'[j].status \in Active, jobs'[k].status \notin Gone,
                    jobs'[j].session = jobs'[k].session,
                    Workflow[jobs'[j].session] = "loop_until_sentinel"
             PROVE  jobs'[k].status = "completed"
  BY DEF OthersCompleted
<1>1. /\ jobs[j].status \in Active \cup {"absent"}
      /\ jobs[k].status = "absent" \/ jobs[k].status \notin Gone
      /\ jobs[j].status # "absent" => jobs'[j].session = jobs[j].session
      /\ jobs[k].status # "absent" => jobs'[k].session = jobs[k].session
      /\ jobs[j].status \in Active => sessions[jobs[j].session] \notin Gone
      /\ jobs[k].status \notin Gone => sessions[jobs[k].session] \notin Gone
      /\ jobs[k].status = "completed" => jobs'[k].status = "completed"
  BY DEF SessionStep, SessionInv, Rows, Homes, Gone
<1>2. CASE jobs[j].status # "absent" /\ jobs[k].status # "absent"
  <2>1. jobs[k].status = "completed"
    BY <1>1, <1>2 DEF OthersCompleted, Gone
  <2> QED
    BY <1>1, <2>1
<1>3. CASE jobs[j].status = "absent" \/ jobs[k].status = "absent"
  <2>1. ~NoInsert
    BY <1>3 DEF NoInsert, Gone
  <2>2. ASSUME NEW s \in Sessions, NEW new \in SUBSET Jobs, Creates(s, new)
        PROVE  FALSE
    <3>1. \E n : new = {n}
      BY <1>1, <1>3, <2>2 DEF Creates, Insert, Turns, Gone
    <3> QED
      BY <1>1, <1>3, <2>2, <3>1 DEF Creates, Insert, Gone
  <2>3. ASSUME NEW s \in Sessions, NEW n \in Jobs, Posts(s, n) \/ Promotes(s, n)
        PROVE  FALSE
    BY <1>1, <1>3, <2>3 DEF Posts, Promotes, Insert, Gone
  <2>4. ASSUME NEW i \in Jobs, NEW n \in Jobs, Iterates(i, n)
        PROVE  jobs'[k].status = "completed"
    <3>1. /\ jobs[i].status \in Active /\ i # n /\ jobs'[i].status = "completed"
          /\ jobs[n].status = "absent" /\ jobs'[n].session = jobs[i].session
          /\ \A l \in Jobs : l # n /\ jobs[l].status = "absent" => jobs'[l].status = "absent"
          /\ Workflow[jobs[i].session] = "loop_until_sentinel"
      BY <2>4 DEF Iterates, Insert
    <3>2. j = n \/ k = n
      BY <1>3, <3>1 DEF Gone
    <3>3. CASE k = n
      <4>1. j # n /\ jobs[j].status \in Active /\ jobs[j].session = jobs[i].session
        BY <1>1, <3>1, <3>3
      <4>2. j = i
        BY <3>1, <4>1 DEF SessionStep, SessionInv, Single, Turns
      <4> QED
        BY <3>1, <4>2
    <3>4. CASE j = n
      <4>1. jobs[k].status \notin Gone /\ jobs[k].session = jobs[i].session
        BY <1>1, <3>1, <3>4 DEF Gone
      <4>2. k = i \/ jobs[k].status = "completed"
        BY <3>1, <4>1 DEF OthersCompleted
      <4> QED
        BY <1>1, <3>1, <4>2
    <3> QED
      BY <3>2, <3>3, <3>4
  <2> QED
    BY <2>1, <2>2, <2>3, <2>4 DEF SessionStep, Kind, Still, Deletes, Claims, Finishes
<1> QED
  BY <1>2, <1>3

LEMMA FewStep == SessionStep /\ LoopInv => FewIterations'
<1> SUFFICES ASSUME SessionStep, LoopInv, NEW s \in Sessions,
                    Workflow[s] = "loop_until_sentinel"
             PROVE  IsFiniteSet(JobsOf(s)') /\ Cardinality(JobsOf(s)') <= MaxIterations
  BY DEF FewIterations
<1>1. /\ IsFiniteSet(JobsOf(s)) /\ Cardinality(JobsOf(s)) \in Nat
      /\ Cardinality(JobsOf(s)) <= MaxIterations
  BY FS_CardinalityType DEF LoopInv, FewIterations
<1>2. \A j \in JobsOf(s)' : jobs[j].status # "absent" => j \in JobsOf(s)
  BY DEF SessionStep, Rows, JobsOf, Gone
<1>3. ASSUME JobsOf(s)' \subseteq JobsOf(s)
      PROVE  IsFiniteSet(JobsOf(s)') /\ Cardinality(JobsOf(s)') <= MaxIterations
  <2>1. /\ IsFiniteSet(JobsOf(s)') /\ Cardinality(JobsOf(s)') \in Nat
        /\ Cardinality(JobsOf(s)') <= Cardinality(JobsOf(s))
    BY <1>1, <1>3, FS_Subset, FS_CardinalityType
  <2> QED
    BY <1>1, <2>1, LimitAssumption
<1>4. ASSUME NoInsert
      PROVE  JobsOf(s)' \subseteq JobsOf(s)
  BY <1>2, <1>4 DEF NoInsert, JobsOf
<1>5. ASSUME NEW s2 \in Sessions, NEW new \in SUBSET Jobs, Creates(s2, new)
      PROVE  IsFiniteSet(JobsOf(s)') /\ Cardinality(JobsOf(s)') <= MaxIterations
  <2>1. CASE s2 # s
    <3>1. JobsOf(s)' \subseteq JobsOf(s)
      BY <1>2, <1>5, <2>1 DEF Creates, Insert, JobsOf
    <3> QED
      BY <1>3, <3>1
  <2>2. CASE s2 = s
    <3>1. PICK n : new = {n}
      BY <1>5, <2>2 DEF Creates, Turns
    <3>2. JobsOf(s) = {}
      BY <1>5, <2>2 DEF Creates, SessionStep, SessionInv, Homes, JobsOf, Gone
    <3>3. JobsOf(s)' \subseteq {n}
      BY <1>2, <1>5, <3>1, <3>2 DEF Creates, Insert, JobsOf
    <3>4. IsFiniteSet({n}) /\ Cardinality({n}) = 1
      BY FS_Singleton
    <3>5. IsFiniteSet(JobsOf(s)') /\ Cardinality(JobsOf(s)') <= 1
      BY <3>3, <3>4, FS_Subset
    <3>6. Cardinality(JobsOf(s)') \in Nat
      BY <3>5, FS_CardinalityType
    <3> QED
      BY <3>5, <3>6, LimitAssumption
  <2> QED
    BY <2>1, <2>2
<1>6. ASSUME NEW s2 \in Sessions, NEW n \in Jobs, Posts(s2, n) \/ Promotes(s2, n)
      PROVE  JobsOf(s)' \subseteq JobsOf(s)
  <2>1. s2 # s /\ Insert({n}, s2)
    BY <1>6 DEF Posts, Promotes
  <2> QED
    BY <1>2, <2>1 DEF Insert, JobsOf
<1>7. ASSUME NEW i \in Jobs, NEW n \in Jobs, Iterates(i, n)
      PROVE  IsFiniteSet(JobsOf(s)') /\ Cardinality(JobsOf(s)') <= MaxIterations
  <2>1. Insert({n}, jobs[i].session) /\ jobs[i].status \in Active /\ DoneWith(i) < MaxIterations
    BY <1>7 DEF Iterates
  <2>2. CASE jobs[i].session # s
    <3>1. JobsOf(s)' \subseteq JobsOf(s)
      BY <1>2, <2>1, <2>2 DEF Insert, JobsOf
    <3> QED
      BY <1>3, <3>1
  <2>3. CASE jobs[i].session = s
    <3> DEFINE counted == {k \in JobsOf(jobs[i].session) : k = i \/ jobs[k].status = "completed"}
    <3>1. counted = JobsOf(s)
      BY <2>1, <2>3 DEF LoopInv, OthersCompleted, JobsOf, Gone
    <3>2. Cardinality(JobsOf(s)) < MaxIterations
      BY <2>1, <3>1 DEF DoneWith
    <3>3. JobsOf(s)' \subseteq JobsOf(s) \cup {n}
      BY <1>2, <2>1, <2>3 DEF Insert, JobsOf
    <3>4. n \notin JobsOf(s)
      BY <2>1 DEF Insert, JobsOf
    <3>5. /\ IsFiniteSet(JobsOf(s) \cup {n})
          /\ Cardinality(JobsOf(s) \cup {n}) = Cardinality(JobsOf(s)) + 1
      BY <1>1, <3>4, FS_AddElement
    <3>6. /\ IsFiniteSet(JobsOf(s)') /\ Cardinality(JobsOf(s)') \in Nat
          /\ Cardinality(JobsOf(s)') <= Cardinality(JobsOf(s)) + 1
      BY <3>3, <3>5, FS_Subset, FS_CardinalityType
    <3> QED
      BY <1>1, <3>2, <3>6, LimitAssumption
  <2> QED
    BY <2>2, <2>3
<1> QED
  BY <1>3, <1>4, <1>5, <1>6, <1>7
  DEF SessionStep, Kind, Still, Deletes, Claims, Finishes

\* IterationsBounded of JobQueue: a sentinel loop never has more jobs than
\* loop_until_sentinel_max_iterations, whatever is reclaimed, reported twice or
\* reported late.
THEOREM LoopsAreBounded == Spec => []IterationsBounded
<1>1. Init => LoopInv
  <2> SUFFICES ASSUME Init PROVE LoopInv
    OBVIOUS
  <2>1. \A j \in Jobs : jobs[j].status = "absent"
    BY DEF Init, NoJobRow
  <2>2. \A s \in Sessions : JobsOf(s) = {}
    BY <2>1 DEF JobsOf
  <2>3. OthersCompleted
    BY <2>1 DEF OthersCompleted
  <2>4. FewIterations
    BY <2>2, FS_EmptySet, LimitAssumption DEF FewIterations
  <2> QED
    BY <2>3, <2>4 DEF LoopInv
<1>2. JobInv /\ SessionInv /\ LoopInv /\ [Next]_vars => LoopInv'
  BY EachStep, OthersStep, FewStep DEF LoopInv
<1>3. LoopInv => IterationsBounded
  BY DEF LoopInv, FewIterations, IterationsBounded
<1> QED
  BY <1>1, <1>2, <1>3, JobInvHolds, SessionInvHolds, PTL DEF Spec

(***************************************************************************)
(* 5. Inbox tasks and their jobs.                                          *)
(***************************************************************************)
Promoted == {t \in Tasks : inbox[t].status = "promoted"}
InboxJobs == {j \in Jobs : jobs[j].status # "absent" /\ Workflow[jobs[j].session] = "inbox"}

TaskHasJob ==
    \A t \in Promoted : /\ inbox[t].job \in InboxJobs
                        /\ SessionAgent[jobs[inbox[t].job].session] = inbox[t].agent
JobHasTask == \A j \in InboxJobs : \E t \in Promoted : inbox[t].job = j
OneTaskOfJob == \A t1, t2 \in Promoted : inbox[t1].job = inbox[t2].job => t1 = t2

\* No promotion: what is promoted stays so, and no inbox job comes.
NothingPromoted ==
    /\ \A t \in Tasks : \/ inbox'[t] = inbox[t]
                        \/ inbox[t].status # "promoted" /\ inbox'[t].status # "promoted"
    /\ \A j \in Jobs : jobs[j].status = "absent" /\ jobs'[j].status # "absent" =>
                       Workflow[jobs'[j].session] # "inbox"

\* One task is promoted to one new job.
Promotion(t, j) ==
    /\ inbox[t].status # "promoted" /\ jobs[j].status = "absent"
    /\ inbox'[t].status = "promoted" /\ inbox'[t].job = j
    /\ \A u \in Tasks : u # t => inbox'[u] = inbox[u]
    /\ jobs'[j].status # "absent" /\ Workflow[jobs'[j].session] = "inbox"
    /\ SessionAgent[jobs'[j].session] = inbox'[t].agent
    /\ \A k \in Jobs : k # j /\ jobs[k].status = "absent" => jobs'[k].status = "absent"

LEMMA Inserts ==
    ASSUME NEW s \in Sessions, NEW new \in SUBSET Unused,
           jobs' = [j \in Jobs |-> IF j \in new THEN NewRow(s) ELSE jobs[j]],
           new = {} \/ Workflow[s] # "inbox", UNCHANGED inbox
    PROVE  NothingPromoted
BY NewRowFields DEF NothingPromoted, Unused

LEMMA PromotionOrNot ==
    ASSUME JobInv, JobInv', Rows, [Next]_vars
    PROVE  NothingPromoted \/ \E t \in Tasks, j \in Jobs : Promotion(t, j)
<1>1. TypeOK /\ LockInv
  BY DEF JobInv
<1>2. ASSUME UNCHANGED inbox, NoInsert
      PROVE  NothingPromoted
  BY <1>2 DEF NothingPromoted, NoInsert
<1>3. ASSUME NEW s \in Sessions, CreateSession(s)
      PROVE  NothingPromoted
  <2>1. PICK new \in SUBSET Unused :
            /\ NextIds(new, PlannedJobs(s))
            /\ jobs' = [j \in Jobs |-> IF j \in new THEN NewRow(s) ELSE jobs[j]]
    BY <1>3 DEF CreateSession
  <2>2. Workflow[s] = "inbox" => new = {}
    BY <2>1, FS_EmptySet DEF PlannedJobs, NextIds
  <2> QED
    BY <1>3, <2>1, <2>2, Inserts DEF CreateSession
<1>4. ASSUME NEW s \in Sessions, PostInput(s)
      PROVE  NothingPromoted
  <2>1. PICK new \in SUBSET Unused :
            jobs' = [j \in Jobs |-> IF j \in new THEN NewRow(s) ELSE jobs[j]]
    BY <1>4 DEF PostInput
  <2> QED
    BY <1>4, <2>1, Inserts DEF PostInput, AcceptsInput
<1>5. ASSUME NEW s \in Sessions, DeleteSession(s)
      PROVE  NothingPromoted
  <2>1. \A j \in Jobs : jobs[j].status = "absent" => jobs'[j] = jobs[j]
    BY <1>5 DEF DeleteSession, JobsOf
  <2> QED
    BY <1>2, <1>5, <2>1 DEF NoInsert, DeleteSession
<1>6. ASSUME NEW a \in Agents, NEW t \in Tasks, PostInbox(a, t)
      PROVE  NothingPromoted
  <2>1. inbox[t].status = "absent" /\ UNCHANGED jobs
    BY <1>6 DEF PostInbox
  <2>2. inbox' = [inbox EXCEPT ![t] = [@ EXCEPT !.status = "pending", !.agent = a]]
        /\ inbox \in [Tasks -> InboxRow]
    BY <1>1, <1>6 DEF PostInbox, TypeOK
  <2>3. inbox'[t].status = "pending" /\ \A u \in Tasks : u # t => inbox'[u] = inbox[u]
    BY <2>2 DEF InboxRow
  <2> QED
    BY <2>1, <2>3 DEF NothingPromoted
<1>7. ASSUME NEW p \in Pulls, PullPromote(p)
      PROVE  \E t \in Tasks, j \in Jobs : Promotion(t, j)
  <2> DEFINE w == pulls[p].by
  <2>1. PICK a \in Listening(w) :
            \E s \in RunningInbox(a), t \in PendingTasks(a), j \in Jobs :
                /\ \A s2 \in RunningInbox(a) : s2 <= s
                /\ \A t2 \in PendingTasks(a) : t <= t2
                /\ NextIds({j}, 1)
                /\ jobs' = [Swept(p) EXCEPT ![j] = Assign(NewRow(s), w)]
                /\ inbox' = [inbox EXCEPT ![t] = [@ EXCEPT !.status = "promoted",
                                                           !.job = j]]
                /\ attempts' = [attempts EXCEPT ![j] = @ + 1]
                /\ StartSession(s)
    BY <1>7, Zenon DEF PullPromote
  <2>2. PICK s \in RunningInbox(a), t \in PendingTasks(a), j \in Jobs :
                /\ \A s2 \in RunningInbox(a) : s2 <= s
                /\ \A t2 \in PendingTasks(a) : t <= t2
                /\ NextIds({j}, 1)
                /\ jobs' = [Swept(p) EXCEPT ![j] = Assign(NewRow(s), w)]
                /\ inbox' = [inbox EXCEPT ![t] = [@ EXCEPT !.status = "promoted",
                                                           !.job = j]]
                /\ attempts' = [attempts EXCEPT ![j] = @ + 1]
                /\ StartSession(s)
    BY <2>1, Zenon
  <2>3. /\ s \in Sessions /\ Workflow[s] = "inbox" /\ SessionAgent[s] = a
        /\ t \in Tasks /\ inbox[t].status = "pending" /\ inbox[t].agent = a
    BY DEF RunningInbox, PendingTasks
  <2>4. jobs[j].status = "absent"
    BY <2>2 DEF NextIds, Unused
  <2>5. Swept(p) \in [Jobs -> JobRow] /\ inbox \in [Tasks -> InboxRow]
    BY <1>1, SweptType DEF TypeOK
  <2>6. jobs'[j] = Assign(NewRow(s), w) /\ \A k \in Jobs : k # j => jobs'[k] = Swept(p)[k]
    BY <2>2, <2>5
  <2>7. jobs'[j].session = s /\ jobs'[j].status = "assigned"
    BY <2>3, <2>6, NewRowType, NewRowFields, AssignFields
  <2>8. /\ inbox'[t].status = "promoted" /\ inbox'[t].job = j /\ inbox'[t].agent = a
        /\ \A u \in Tasks : u # t => inbox'[u] = inbox[u]
    BY <2>2, <2>3, <2>5 DEF InboxRow
  <2>9. \A k \in Jobs : k # j /\ jobs[k].status = "absent" => jobs'[k].status = "absent"
    BY <1>1, <2>6, SweptFields
  <2>10. Promotion(t, j)
    BY <2>3, <2>4, <2>7, <2>8, <2>9 DEF Promotion
  <2> QED
    BY <2>3, <2>10
<1>8. ASSUME NEW p \in Pulls, PullSweepOnly(p) \/ PullClaim(p)
      PROVE  NothingPromoted
  <2>1. \A j \in Jobs : jobs[j].status = "absent" => Swept(p)[j].status = "absent"
    BY <1>1, SweptFields
  <2>2. Swept(p) \in [Jobs -> JobRow]
    BY <1>1, SweptType DEF TypeOK
  <2>3. NoInsert
    BY <1>8, <2>1, <2>2 DEF PullSweepOnly, PullClaim, Queued, NoInsert
  <2> QED
    BY <1>2, <1>8, <2>3 DEF PullSweepOnly, PullClaim
<1>9. ASSUME NEW r \in Requests, RequestNext(r)
      PROVE  NothingPromoted
  <2>1. UNCHANGED inbox
    BY <1>9 DEF RequestNext, RequestStep, CompleteCheck, CompleteCount, CompleteLoopN,
       CompleteFailed, CompleteTurn, CompleteIteration, CompleteAbort
  <2>2. CASE CompleteIteration(r)
    <3> DEFINE j == requests[r].job
    <3>1. /\ jobs[j].status = "assigned" /\ Workflow[jobs[j].session] = "loop_until_sentinel"
          /\ j \in Jobs /\ jobs[j] \in JobRow
      BY <1>1, <2>2, RequestRows DEF CompleteIteration, Updatable, WorkflowOf
    <3>2. CASE jobs' = [jobs EXCEPT ![j] = Finish(@, "completed")]
      BY <1>1, <1>2, <2>1, <3>1, <3>2 DEF NoInsert, TypeOK
    <3>3. ASSUME NEW next \in Jobs,
                 jobs' = [[jobs EXCEPT ![j] = Finish(@, "completed")]
                              EXCEPT ![next] = NewRow(jobs[j].session)]
          PROVE  NothingPromoted
      <4>1. jobs'[next].session = jobs[j].session
            /\ \A k \in Jobs \ {next, j} : jobs'[k] = jobs[k]
        BY <1>1, <3>3, NewRowFields DEF TypeOK
      <4> QED
        BY <2>1, <3>1, <4>1 DEF NothingPromoted
    <3> QED
      BY <2>2, <3>2, <3>3 DEF CompleteIteration
  <2>3. CASE ~CompleteIteration(r)
    <3>1. CASE \/ \E k \in Jobs, by \in Workers \cup {NoWorker}, outcome \in Outcomes :
                     CompleteCheck(r, k, by, outcome)
               \/ CompleteCount(r) \/ CompleteAbort(r)
      <4>1. jobs' = jobs
        BY <3>1 DEF CompleteCheck, CompleteCount, CompleteAbort
      <4> QED
        BY <1>2, <2>1, <4>1 DEF NoInsert
    <3>2. CASE CompleteLoopN(r) \/ CompleteTurn(r)
      <4>1. jobs[requests[r].job].status = "assigned"
        <5>1. CASE CompleteLoopN(r)
          BY <1>1, <5>1, RequestRows, TxAssumption
          DEF CompleteLoopN, LockInv, CountedIsLocked, LockedIsAssigned
        <5>2. CASE CompleteTurn(r)
          BY <5>2 DEF CompleteTurn, Updatable
        <5> QED
          BY <3>2, <5>1, <5>2
      <4>2. jobs' = [jobs EXCEPT ![requests[r].job] = Finish(@, "completed")]
        BY <3>2 DEF CompleteLoopN, CompleteTurn
      <4>3. NoInsert
        BY <1>1, <4>1, <4>2 DEF NoInsert, TypeOK
      <4> QED
        BY <1>2, <2>1, <4>3
    <3>3. CASE CompleteFailed(r)
      <4>1. \A k \in Jobs : jobs[k].status = "absent" => jobs'[k] = jobs[k]
        BY <3>3 DEF CompleteFailed, Updatable
      <4> QED
        BY <1>2, <2>1, <4>1 DEF NoInsert
    <3> QED
      BY <1>9, <2>3, <3>1, <3>2, <3>3 DEF RequestNext, RequestStep
  <2> QED
    BY <2>2, <2>3
<1>10. ASSUME NEW w \in Workers, RemoveCommit(w)
       PROVE  NothingPromoted
  <2>1. \A j \in Jobs : jobs[j].status = "absent" => jobs'[j] = jobs[j]
    BY <1>1, <1>10, TxAssumption DEF RemoveCommit, HeldBy, LockInv, LockedIsAssigned
  <2> QED
    BY <1>2, <1>10, <2>1 DEF NoInsert, RemoveCommit
<1>11. ASSUME UNCHANGED <<jobs, inbox>>
       PROVE  NothingPromoted
  BY <1>11 DEF NothingPromoted
<1>12. ASSUME ClientNext
       PROVE  NothingPromoted
  BY <1>3, <1>4, <1>5, <1>6, <1>12 DEF ClientNext
<1>13. ASSUME NEW w \in Workers, WorkerNext(w)
       PROVE  NothingPromoted
  <2>1. CASE RegistryStep(w) /\ UNCHANGED queueVars
    BY <1>11, <2>1 DEF queueVars
  <2>2. CASE RemoveStart(w) \/ RemoveAbort(w)
    BY <1>11, <2>2 DEF RemoveStart, RemoveAbort
  <2> QED
    BY <1>10, <1>13, <2>1, <2>2 DEF WorkerNext
<1>14. ASSUME NEW j \in Jobs, LeaseRunsOut(j)
       PROVE  NothingPromoted
  BY <1>11, <1>14 DEF LeaseRunsOut
<1>15. CASE UNCHANGED vars
  BY <1>11, <1>15 DEF vars, queueVars
<1>16. ASSUME NEW p \in Pulls, PullNext(p)
       PROVE  NothingPromoted \/ \E t \in Tasks, j \in Jobs : Promotion(t, j)
  BY <1>7, <1>8, <1>11, <1>16, PullQuiet DEF PullNext, PullStep, PullCommit
<1> QED
  BY <1>9, <1>12, <1>13, <1>14, <1>15, <1>16 DEF Next

InboxInv == TaskHasJob /\ JobHasTask /\ OneTaskOfJob

LEMMA InboxStep ==
    ASSUME JobInv, InboxInv, [Next]_vars
    PROVE  InboxInv'
<1>1. Rows /\ JobInv'
  BY RowsOfStep, NextType, NextStep, RetryStep DEF JobInv, GoodStep
<1>2. \A j \in Jobs : jobs[j].status # "absent" => jobs'[j].status # "absent"
  <2>1. \A j \in Jobs : RowStep(j)
    BY NextStep DEF JobInv, GoodStep
  <2> QED
    BY <2>1 DEF RowStep, RowMove, Requeued, FailedRow
<1>3. \A j \in InboxJobs : j \in InboxJobs' /\ jobs'[j].session = jobs[j].session
  BY <1>1, <1>2 DEF InboxJobs, Rows
<1>4. CASE NothingPromoted
  <2>1. \A t \in Tasks : /\ t \in Promoted' <=> t \in Promoted
                         /\ t \in Promoted => inbox'[t] = inbox[t]
    BY <1>4 DEF NothingPromoted, Promoted
  <2>2. \A j \in InboxJobs' : j \in InboxJobs
    BY <1>1, <1>4 DEF NothingPromoted, InboxJobs, Rows
  <2>3. Promoted' = Promoted /\ InboxJobs' = InboxJobs
    BY <1>3, <2>1, <2>2 DEF Promoted, InboxJobs
  <2>4. TaskHasJob'
    BY <1>3, <2>1, <2>3 DEF InboxInv, TaskHasJob, Promoted
  <2>5. JobHasTask'
    BY <2>1, <2>3 DEF InboxInv, JobHasTask, Promoted
  <2>6. OneTaskOfJob'
    BY <2>1, <2>3 DEF InboxInv, OneTaskOfJob, Promoted
  <2> QED
    BY <2>4, <2>5, <2>6 DEF InboxInv
<1>5. ASSUME NEW t \in Tasks, NEW j \in Jobs, Promotion(t, j)
      PROVE  InboxInv'
  <2>1. \A u \in Tasks : u # t => /\ inbox'[u] = inbox[u]
                                  /\ u \in Promoted' <=> u \in Promoted
    BY <1>5 DEF Promotion, Promoted
  <2>2. t \in Promoted' /\ t \notin Promoted /\ inbox'[t].job = j
    BY <1>5 DEF Promotion, Promoted
  <2>3. j \in InboxJobs' /\ j \notin InboxJobs
    BY <1>5 DEF Promotion, InboxJobs
  <2>4. \A k \in InboxJobs' : k = j \/ k \in InboxJobs
    BY <1>1, <1>5 DEF Promotion, InboxJobs, Rows
  <2>5. TaskHasJob'
    <3> SUFFICES ASSUME NEW u \in Promoted'
                 PROVE  /\ inbox'[u].job \in InboxJobs'
                        /\ SessionAgent[jobs'[inbox'[u].job].session] = inbox'[u].agent
      BY DEF TaskHasJob
    <3>1. CASE u = t
      BY <1>5, <2>2, <2>3, <3>1 DEF Promotion
    <3>2. CASE u # t
      <4>1. inbox'[u] = inbox[u] /\ u \in Promoted
        BY <2>1, <3>2 DEF Promoted
      <4> QED
        BY <1>3, <4>1 DEF InboxInv, TaskHasJob
    <3> QED
      BY <3>1, <3>2
  <2>6. JobHasTask'
    <3> SUFFICES ASSUME NEW k \in InboxJobs'
                 PROVE  \E u \in Promoted' : inbox'[u].job = k
      BY DEF JobHasTask
    <3>1. CASE k = j
      BY <2>2, <3>1
    <3>2. CASE k \in InboxJobs
      <4>1. PICK u \in Promoted : inbox[u].job = k
        BY <3>2 DEF InboxInv, JobHasTask
      <4>2. u \in Tasks /\ u # t
        BY <2>2 DEF Promoted
      <4> QED
        BY <2>1, <4>1, <4>2
    <3> QED
      BY <2>4, <3>1, <3>2
  <2>7. OneTaskOfJob'
    <3> SUFFICES ASSUME NEW t1 \in Promoted', NEW t2 \in Promoted', t1 # t2,
                        inbox'[t1].job = inbox'[t2].job
                 PROVE  FALSE
      BY DEF OneTaskOfJob
    <3>1. ASSUME NEW u \in Promoted', u # t
          PROVE  u \in Promoted /\ inbox'[u] = inbox[u] /\ inbox[u].job # j
      <4>1. u \in Promoted /\ inbox'[u] = inbox[u]
        BY <2>1, <3>1 DEF Promoted
      <4>2. inbox[u].job \in InboxJobs
        BY <4>1 DEF InboxInv, TaskHasJob
      <4> QED
        BY <2>3, <4>1, <4>2
    <3>2. CASE t1 # t /\ t2 # t
      BY <3>1, <3>2 DEF InboxInv, OneTaskOfJob
    <3>3. CASE t1 = t \/ t2 = t
      BY <2>2, <3>1, <3>3
    <3> QED
      BY <3>2, <3>3
  <2> QED
    BY <2>5, <2>6, <2>7 DEF InboxInv
<1> QED
  BY <1>1, <1>4, <1>5, PromotionOrNot

\* PromotedOnce of JobQueue: pulls of any number of listeners promote each task
\* at most once, to a job in a session of the agent it was posted to.
THEOREM TasksArePromotedOnce == Spec => []PromotedOnce
<1>1. Init => InboxInv
  BY DEF Init, InboxInv, TaskHasJob, JobHasTask, OneTaskOfJob, Promoted, InboxJobs,
     NoJobRow, NoInboxRow
<1>2. InboxInv => PromotedOnce
  BY DEF InboxInv, TaskHasJob, JobHasTask, OneTaskOfJob, Promoted, InboxJobs, PromotedOnce
<1> QED
  BY <1>1, <1>2, InboxStep, JobInvHolds, PTL DEF Spec

(***************************************************************************)
(* 6. The jobs of workers that are heard from.                             *)
(***************************************************************************)
\* What FreshWorkerKeepsJob says of one job in one step.
Kept(j) ==
    /\ jobs[j].status = "assigned"
    /\ jobs[j].worker \in fresh \cap registered'
    /\ jobs'[j].worker # jobs[j].worker
    => \/ jobs'[j].status \in Terminal \cup {"deleted"}
       \/ \E p \in Pulls : /\ rowLock[j] = p
                           /\ pulls[p] # NoPull
                           /\ jobs[j].worker \in pulls[p].stale

LEMMA KeptByPull ==
    ASSUME TypeOK, LockInv, NEW p \in Pulls, PullCommit(p), NEW j \in Jobs
    PROVE  Kept(j)
<1> DEFINE found == /\ rowLock[j] = p
                    /\ pulls[p] # NoPull
                    /\ jobs[j].worker \in pulls[p].stale
<1> SUFFICES ASSUME jobs[j].status = "assigned", ~found,
                    jobs'[j].worker # jobs[j].worker
             PROVE  jobs'[j].status \in Terminal \cup {"deleted"}
  BY DEF Kept
\* A row that the sweep locked without finding the worker stale was past its
\* lease, and fails.
<1>1. rowLock[j] = p => j \in pulls[p].over
  BY DEF LockInv, LockedBySweep
<1>2. Swept(p)[j] = jobs[j] \/ Swept(p)[j].status = "failed"
  BY <1>1, FinishFields DEF Swept, TypeOK
<1>3. Swept(p) \in [Jobs -> JobRow]
  BY SweptType DEF TypeOK
<1>4. \A k \in Unused \cup Queued(p) : k # j
  BY <1>2 DEF Unused, Queued
<1>5. CASE PullSweepOnly(p)
  BY <1>2, <1>5 DEF PullSweepOnly
<1>6. CASE PullPromote(p)
  <2>1. PICK s \in Sessions, k \in Jobs :
            NextIds({k}, 1) /\ jobs' = [Swept(p) EXCEPT ![k] = Assign(NewRow(s), pulls[p].by)]
    BY <1>6 DEF PullPromote, RunningInbox
  <2>2. k # j
    BY <1>4, <2>1 DEF NextIds
  <2> QED
    BY <1>2, <1>3, <2>1, <2>2
<1>7. CASE PullClaim(p)
  <2>1. PICK k \in Queued(p) : jobs' = [Swept(p) EXCEPT ![k] = Assign(@, pulls[p].by)]
    BY <1>7 DEF PullClaim
  <2>2. k # j
    BY <1>4
  <2> QED
    BY <1>2, <1>3, <2>1, <2>2
<1> QED
  BY <1>5, <1>6, <1>7 DEF PullCommit

LEMMA KeptByAll ==
    ASSUME TypeOK, LockInv, [Next]_vars, NEW j \in Jobs
    PROVE  Kept(j)
<1>1. ASSUME jobs'[j] = jobs[j]
      PROVE  Kept(j)
  BY <1>1 DEF Kept
<1>2. ASSUME NEW status \in Terminal \cup {"deleted"}, jobs'[j] = Finish(jobs[j], status)
      PROVE  Kept(j)
  BY <1>2, FinishFields DEF Kept, TypeOK
<1>3. ASSUME jobs[j].status = "absent"
      PROVE  Kept(j)
  BY <1>3 DEF Kept
<1>4. ASSUME NEW s \in Sessions, CreateSession(s) \/ PostInput(s)
      PROVE  Kept(j)
  <2>1. PICK new \in SUBSET Unused :
            jobs' = [k \in Jobs |-> IF k \in new THEN NewRow(s) ELSE jobs[k]]
    BY <1>4 DEF CreateSession, PostInput
  <2> QED
    BY <1>1, <1>3, <2>1 DEF Unused
<1>5. ASSUME NEW s \in Sessions, DeleteSession(s)
      PROVE  Kept(j)
  BY <1>1, <1>2, <1>5 DEF DeleteSession
<1>6. ASSUME ClientNext
      PROVE  Kept(j)
  BY <1>1, <1>4, <1>5, <1>6 DEF ClientNext, PostInbox
<1>7. ASSUME NEW r \in Requests, RequestNext(r)
      PROVE  Kept(j)
  <2>1. CASE \/ \E k \in Jobs, by \in Workers \cup {NoWorker}, outcome \in Outcomes :
                   CompleteCheck(r, k, by, outcome)
             \/ CompleteCount(r) \/ CompleteAbort(r)
    BY <1>1, <2>1 DEF CompleteCheck, CompleteCount, CompleteAbort
  <2>2. CASE CompleteLoopN(r) \/ CompleteTurn(r)
    <3>1. jobs' = [jobs EXCEPT ![requests[r].job] = Finish(@, "completed")]
      BY <2>2 DEF CompleteLoopN, CompleteTurn
    <3>2. jobs'[j] = jobs[j] \/ jobs'[j] = Finish(jobs[j], "completed")
      BY <3>1 DEF TypeOK
    <3> QED
      BY <1>1, <1>2, <3>2
  <2>3. CASE CompleteFailed(r)
    <3>1. jobs'[j] = jobs[j] \/ jobs'[j] = Finish(jobs[j], "failed")
      BY <2>3 DEF CompleteFailed
    <3> QED
      BY <1>1, <1>2, <3>1
  <2>4. CASE CompleteIteration(r)
    <3> DEFINE done == [jobs EXCEPT ![requests[r].job] = Finish(@, "completed")]
    <3>1. done[j] = jobs[j] \/ done[j] = Finish(jobs[j], "completed")
      BY DEF TypeOK
    <3>2. done \in [Jobs -> JobRow]
      BY FinishType, RequestRows, <2>4 DEF TypeOK, CompleteIteration
    <3>3. CASE jobs' = done
      BY <1>1, <1>2, <3>1, <3>3
    <3>4. ASSUME NEW next \in Unused,
                 jobs' = [done EXCEPT ![next] = NewRow(jobs[requests[r].job].session)]
          PROVE  Kept(j)
      <4>1. CASE next = j
        BY <1>3, <4>1 DEF Unused
      <4>2. CASE next # j
        <5>1. jobs'[j] = done[j]
          BY <3>2, <3>4, <4>2
        <5> QED
          BY <1>1, <1>2, <3>1, <5>1
      <4> QED
        BY <4>1, <4>2
    <3> QED
      BY <2>4, <3>3, <3>4 DEF CompleteIteration, NextIds
  <2> QED
    BY <1>7, <2>1, <2>2, <2>3, <2>4 DEF RequestNext, RequestStep
<1>8. ASSUME NEW w \in Workers, WorkerNext(w)
      PROVE  Kept(j)
  <2>1. CASE RegistryStep(w) /\ UNCHANGED queueVars
    BY <1>1, <2>1 DEF queueVars
  <2>2. CASE RemoveStart(w) \/ RemoveAbort(w)
    BY <1>1, <2>2 DEF RemoveStart, RemoveAbort
  <2>3. CASE RemoveCommit(w)
    <3>1. w \notin registered'
      BY <2>3 DEF RemoveCommit, Unregister
    <3>2. jobs[j].worker = w \/ jobs'[j] = jobs[j]
      BY <2>3 DEF RemoveCommit, HeldBy, LockInv, LockedByRemoval
    <3> QED
      BY <1>1, <3>1, <3>2 DEF Kept
  <2> QED
    BY <1>8, <2>1, <2>2, <2>3 DEF WorkerNext
<1>9. ASSUME NEW k \in Jobs, LeaseRunsOut(k)
      PROVE  Kept(j)
  BY <1>1, <1>9 DEF LeaseRunsOut
<1>10. CASE UNCHANGED vars
  BY <1>1, <1>10 DEF vars, queueVars
<1>11. ASSUME NEW p \in Pulls, PullNext(p)
       PROVE  Kept(j)
  BY <1>1, <1>11, KeptByPull, PullQuiet DEF PullNext, PullStep
<1> QED
  BY <1>6, <1>7, <1>8, <1>9, <1>10, <1>11 DEF Next

\* FreshWorkerKeepsJob of JobQueue: no sweep, pull, completion or deletion
\* takes a job from a worker that is heard from and stays registered, unless
\* the job ends, or a pull had found that worker stale when it locked the row.
THEOREM HeardWorkersKeepJobs == Spec => FreshWorkerKeepsJob
<1>1. JobInv /\ [Next]_vars =>
        [\A j \in Jobs :
            /\ jobs[j].status = "assigned"
            /\ jobs[j].worker \in fresh \cap registered'
            /\ jobs'[j].worker # jobs[j].worker
            => \/ jobs'[j].status \in Terminal \cup {"deleted"}
               \/ \E p \in Pulls : /\ rowLock[j] = p
                                   /\ pulls[p] # NoPull
                                   /\ jobs[j].worker \in pulls[p].stale]_vars
  BY KeptByAll DEF Kept, JobInv
<1> QED
  BY <1>1, JobInvHolds, PTL DEF Spec, FreshWorkerKeepsJob

(***************************************************************************)
(* 7. Chats and sentinel loops take turns (TurnTaking).                    *)
(***************************************************************************)
\* The turn under way belongs to a session that is not over, and that shows
\* as running if a worker has the turn.
TurnInv ==
    \A j \in Jobs :
        /\ jobs[j].status \in Active /\ Workflow[jobs[j].session] \in Turns
        => /\ sessions[jobs[j].session] \in {"pending", "running"}
           /\ jobs[j].status = "assigned" => sessions[jobs[j].session] = "running"

\* A row that was not handed out in a step is with a worker only if it was.
LEMMA HandedOutOrNot ==
    ASSUME JobInv, [Next]_vars, NEW j \in Jobs,
           attempts'[j] = attempts[j], jobs'[j].status = "assigned"
    PROVE  jobs[j].status = "assigned"
<1>1. RowStep(j) /\ attempts[j] \in Nat
  BY NextStep DEF JobInv, GoodStep, TypeOK
<1> QED
  BY <1>1 DEF RowStep, RowMove, Requeued, FailedRow

LEMMA TurnInvStep == JobInv /\ SessionStep /\ [Next]_vars /\ TurnInv => TurnInv'
<1> SUFFICES ASSUME JobInv, SessionStep, [Next]_vars, TurnInv, NEW j \in Jobs,
                    jobs'[j].status \in Active, Workflow[jobs'[j].session] \in Turns
             PROVE  /\ sessions'[jobs'[j].session] \in {"pending", "running"}
                    /\ jobs'[j].status = "assigned" =>
                          sessions'[jobs'[j].session] = "running"
  BY DEF TurnInv
<1> DEFINE Goal == /\ sessions'[jobs'[j].session] \in {"pending", "running"}
                   /\ jobs'[j].status = "assigned" => sessions'[jobs'[j].session] = "running"
<1>1. /\ jobs[j].status \in Active \cup {"absent"}
      /\ jobs[j].session \in Sessions /\ jobs'[j].session \in Sessions
      /\ sessions \in [Sessions -> SessionStatus]
      /\ jobs[j].status \in Active => /\ jobs'[j].session = jobs[j].session
                                      /\ sessions[jobs[j].session] \in {"pending", "running"}
      /\ jobs[j].status = "assigned" => sessions[jobs[j].session] = "running"
  BY DEF SessionStep, Rows, TurnInv
<1>2. attempts'[j] = attempts[j] /\ jobs'[j].status = "assigned" => jobs[j].status = "assigned"
  BY HandedOutOrNot
<1>3. CASE Still
  BY <1>1, <1>2, <1>3 DEF Still, NoInsert
<1>4. ASSUME NEW s \in Sessions, NEW new \in SUBSET Jobs, Creates(s, new)
      PROVE  Goal
  <2>1. jobs[j].status \in Active => jobs[j].session # s
    BY <1>1, <1>4 DEF Creates
  <2> QED
    BY <1>1, <1>2, <1>4, <2>1 DEF Creates, Insert
<1>5. ASSUME NEW s \in Sessions, NEW n \in Jobs, Posts(s, n)
      PROVE  Goal
  BY <1>1, <1>2, <1>5 DEF Posts, Insert
<1>6. ASSUME NEW s \in Sessions, NEW n \in Jobs, Promotes(s, n)
      PROVE  Goal
  BY <1>1, <1>2, <1>6 DEF Promotes, Insert
<1>7. ASSUME NEW s \in Sessions, Deletes(s)
      PROVE  Goal
  <2>1. jobs[j].status \in Active /\ jobs[j].session # s
    BY <1>1, <1>7 DEF Deletes, NoInsert, Gone
  <2> QED
    BY <1>1, <1>2, <1>7, <2>1 DEF Deletes
<1>8. ASSUME NEW k \in Jobs, Claims(k)
      PROVE  Goal
  <2>1. jobs[j].status \in Active
    BY <1>1, <1>8 DEF Claims, NoInsert
  <2>2. jobs[k].session \in Sessions
    BY DEF SessionStep, Rows
  <2>3. CASE j = k
    BY <1>1, <1>8, <2>1, <2>3 DEF Claims
  <2>4. CASE j # k
    BY <1>1, <1>2, <1>8, <2>1, <2>2, <2>4 DEF Claims
  <2> QED
    BY <2>3, <2>4
<1>9. ASSUME NEW k \in Jobs, NEW status \in {"running", "completed", "failed"},
             Finishes(k, status)
      PROVE  Goal
  <2>1. jobs[j].status \in Active /\ j # k
    BY <1>1, <1>9 DEF Finishes, NoInsert
  <2>2. jobs[j].session # jobs[k].session
    BY <1>1, <1>9, <2>1 DEF Finishes, SessionStep, SessionInv, Single
  <2> QED
    BY <1>1, <1>2, <1>9, <2>1, <2>2 DEF Finishes
<1>10. ASSUME NEW k \in Jobs, NEW n \in Jobs, Iterates(k, n)
       PROVE  Goal
  <2>1. jobs[k].session \in Sessions
    BY DEF SessionStep, Rows
  <2> QED
    BY <1>1, <1>2, <1>10, <2>1 DEF Iterates, Insert
<1> QED
  BY <1>3, <1>4, <1>5, <1>6, <1>7, <1>8, <1>9, <1>10 DEF SessionStep, Kind

\* The state of one session of turns, before a step and after it.
After(s, statuses) == {j \in Jobs : jobs'[j].status \in statuses /\ jobs'[j].session = s}

LEMMA SameJobs ==
    ASSUME NEW s, NEW statuses,
           \A k \in Jobs : (jobs'[k].status \in statuses /\ jobs'[k].session = s)
                              <=> (jobs[k].status \in statuses /\ jobs[k].session = s)
    PROVE  After(s, statuses) = JobsIn(s, statuses)
BY DEF After, JobsIn

LEMMA OnlyTurnOf ==
    ASSUME Single, NEW s \in TurnSessions, NEW t \in Jobs,
           jobs[t].status \in Active, jobs[t].session = s
    PROVE  JobsIn(s, Active) = {t}
BY DEF Single, TurnSessions, Turns, JobsIn

\* A session whose jobs are where they were, but that its turn may have gone
\* to a worker for the first time, or have been given up with its worker.
LEMMA TurnsSurvive ==
    ASSUME Single, TurnInv, NEW s \in TurnSessions,
           \A k \in Jobs : jobs[k].session = s /\ jobs[k].status \notin Gone =>
               /\ jobs'[k].session = s
               /\ \/ jobs'[k].status = jobs[k].status
                  \/ jobs[k].status \in Active /\ jobs'[k].status \in Active
                  \/ jobs[k].status = "assigned" /\ jobs'[k].status = "failed",
           \A k \in Jobs : jobs[k].session # s \/ jobs[k].status \in Gone =>
               jobs'[k].session # s \/ jobs'[k].status \in Gone,
           \/ sessions'[s] = sessions[s]
           \/ /\ sessions[s] = "pending" /\ sessions'[s] = "running"
              /\ \E t \in Jobs : /\ jobs[t].session = s /\ jobs[t].status \in Active
                                 /\ jobs'[t].status \in Active
    PROVE  OneAtATime!SessionStep(s)
<1>1. JobsIn(s, {"completed"})' = JobsIn(s, {"completed"})
  BY DEF JobsIn, Gone
<1>2. CASE \E t \in Jobs : /\ jobs[t].session = s /\ jobs[t].status = "assigned"
                           /\ jobs'[t].status = "failed"
  <2>1. PICK t \in Jobs : /\ jobs[t].session = s /\ jobs[t].status = "assigned"
                          /\ jobs'[t].status = "failed" /\ jobs'[t].session = s
    BY <1>2 DEF Gone
  <2>2. \A k \in Jobs : jobs[k].session = s /\ jobs[k].status \in Active => k = t
    BY <2>1 DEF Single, TurnSessions, Turns
  <2>3. JobsIn(s, Active) = {t}
    BY <2>1, <2>2 DEF JobsIn
  <2>4. JobsIn(s, Active)' = {}
    BY <2>1, <2>2 DEF JobsIn, Gone
  <2>5. JobsIn(s, {"failed"})' = JobsIn(s, {"failed"}) \cup {t}
    BY <2>1, <2>2 DEF JobsIn, Gone
  <2>6. sessions[s] = "running" /\ sessions'[s] = sessions[s]
    BY <2>1, <2>2 DEF TurnInv, TurnSessions, Turns
  <2>7. OneAtATime!GiveUp(s)
    BY <1>1, <2>3, <2>4, <2>5, <2>6
       DEF OneAtATime!GiveUp, OneAtATime!UnderWay, OneAtATime!Lost, OneAtATime!SamePhase
  <2> QED
    BY <2>7 DEF OneAtATime!SessionStep
<1>3. CASE ~\E t \in Jobs : /\ jobs[t].session = s /\ jobs[t].status = "assigned"
                            /\ jobs'[t].status = "failed"
  <2>1. JobsIn(s, Active)' = JobsIn(s, Active)
    BY <1>3 DEF JobsIn, Gone
  <2>2. JobsIn(s, {"failed"})' = JobsIn(s, {"failed"})
    BY <1>3 DEF JobsIn, Gone
  <2>3. CASE sessions'[s] = sessions[s]
    <3>1. OneAtATime!Stay(s)
      BY <1>1, <2>1, <2>2, <2>3
         DEF OneAtATime!Stay, OneAtATime!SameEnded, OneAtATime!SamePhase
    <3> QED
      BY <3>1 DEF OneAtATime!SessionStep
  <2>4. CASE sessions[s] = "pending" /\ sessions'[s] = "running" /\ JobsIn(s, Active) # {}
    <3>1. OneAtATime!Start(s)
      BY <1>1, <2>1, <2>2, <2>4 DEF OneAtATime!Start, OneAtATime!SameEnded
    <3> QED
      BY <3>1 DEF OneAtATime!SessionStep
  <2>5. CASE \E t \in Jobs : jobs[t].session = s /\ jobs[t].status \in Active
    BY <2>3, <2>4, <2>5 DEF JobsIn
  <2> QED
    BY <2>3, <2>5
<1> QED
  BY <1>2, <1>3

\* A turn that ends: it was the only one, and its session was running.
LEMMA TheTurn ==
    ASSUME Single, TurnInv, NEW s \in TurnSessions, NEW j \in Jobs,
           jobs[j].session = s, jobs[j].status = "assigned"
    PROVE  /\ sessions[s] = "running"
           /\ JobsIn(s, Active) = {j}
           /\ \A k \in Jobs : jobs[k].session = s /\ jobs[k].status \in Active => k = j
<1>1. \A k \in Jobs : jobs[k].session = s /\ jobs[k].status \in Active => k = j
  BY DEF Single, TurnSessions, Turns
<1>2. JobsIn(s, Active) = {j}
  BY <1>1 DEF JobsIn
<1> QED
  BY <1>1, <1>2 DEF TurnInv, TurnSessions, Turns

\* A row that was not inserted yet is no session's turn.
LEMMA NewTurn ==
    ASSUME NEW n \in Jobs, jobs[n].status = "absent"
    PROVE  OneAtATime!New(n)
BY DEF OneAtATime!New, JobsIn

LEMMA ClientTurns ==
    ASSUME TypeOK, Homes, Single, TurnInv, ClientNext, NEW s \in TurnSessions
    PROVE  OneAtATime!SessionStep(s)
<1>1. s \in Sessions /\ Workflow[s] \in Turns /\ sessions \in [Sessions -> SessionStatus]
  BY DEF TurnSessions, Turns, TypeOK
<1>2. ASSUME NEW s0 \in Sessions, s0 # s, NEW new \in SUBSET Unused,
             jobs' = [j \in Jobs |-> IF j \in new THEN NewRow(s0) ELSE jobs[j]],
             sessions'[s] = sessions[s]
      PROVE  OneAtATime!SessionStep(s)
  <2>1. \A k \in Jobs : \/ jobs'[k] = jobs[k]
                        \/ jobs[k].status = "absent" /\ jobs'[k].session = s0
    BY <1>2, NewRowFields DEF Unused
  <2> QED
    BY <1>2, <2>1, TurnsSurvive DEF Gone
<1>3. ASSUME NEW new \in SUBSET Unused, NextIds(new, 1),
             jobs' = [j \in Jobs |-> IF j \in new THEN NewRow(s) ELSE jobs[j]],
             JobsIn(s, Active) = {}
      PROVE  \E n \in Jobs : /\ OneAtATime!New(n) /\ JobsIn(s, Active)' = {n}
                             /\ OneAtATime!SameEnded(s)
  <2>1. PICK n : new = {n}
    BY <1>3, OneId
  <2>2. n \in Jobs /\ jobs[n].status = "absent"
    BY <2>1 DEF Unused
  <2>3. /\ jobs'[n].status = "pending" /\ jobs'[n].session = s
        /\ \A k \in Jobs : k # n => jobs'[k] = jobs[k]
    BY <1>3, <2>1, <2>2, NewRowFields
  <2>4. JobsIn(s, Active)' = {n}
    <3>1. \A k \in Jobs : k # n => ~(jobs[k].status \in Active /\ jobs[k].session = s)
      BY <1>3 DEF JobsIn
    <3> QED
      BY <2>2, <2>3, <3>1 DEF JobsIn
  <2>5. /\ JobsIn(s, {"completed"})' = JobsIn(s, {"completed"})
        /\ JobsIn(s, {"failed"})' = JobsIn(s, {"failed"})
    BY <2>2, <2>3 DEF JobsIn
  <2> QED
    BY <2>2, <2>4, <2>5, NewTurn DEF OneAtATime!SameEnded
<1>4. ASSUME CreateSession(s)
      PROVE  OneAtATime!SessionStep(s)
  <2>1. PICK new \in SUBSET Unused :
            /\ NextIds(new, 1)
            /\ jobs' = [j \in Jobs |-> IF j \in new THEN NewRow(s) ELSE jobs[j]]
    BY <1>1, <1>4 DEF CreateSession, PlannedJobs, Turns
  <2>2. sessions[s] = "absent" /\ sessions'[s] = "pending"
    BY <1>1, <1>4 DEF CreateSession, Turns
  <2>3. JobsIn(s, Active) = {}
    BY <2>2 DEF JobsIn, Homes, Gone
  <2>4. \E n \in Jobs : OneAtATime!Open(s, n)
    BY <1>3, <2>1, <2>2, <2>3 DEF OneAtATime!Open
  <2> QED
    BY <2>4 DEF OneAtATime!SessionStep
<1>5. ASSUME PostInput(s)
      PROVE  OneAtATime!SessionStep(s)
  <2>1. PICK new \in SUBSET Unused :
            /\ NextIds(new, 1)
            /\ jobs' = [j \in Jobs |-> IF j \in new THEN NewRow(s) ELSE jobs[j]]
    BY <1>5 DEF PostInput
  <2>2. Workflow[s] = "chat" /\ sessions[s] = "running" /\ sessions'[s] = "running"
    BY <1>5 DEF PostInput, AcceptsInput
  <2>3. JobsIn(s, Active) = {}
    BY <1>5 DEF PostInput, AcceptsInput, ActiveJobs, JobsOf, JobsIn
  <2>4. \E n \in Jobs : OneAtATime!Post(s, n)
    BY <1>3, <2>1, <2>2, <2>3 DEF OneAtATime!Post, OneAtATime!SamePhase
  <2> QED
    BY <2>4 DEF OneAtATime!SessionStep
<1>6. ASSUME NEW s0 \in Sessions, DeleteSession(s0)
      PROVE  OneAtATime!SessionStep(s)
  <2>1. \A k \in Jobs : /\ jobs[k] \in JobRow
                        /\ jobs'[k] = IF k \in JobsOf(s0) THEN Finish(jobs[k], "deleted")
                                      ELSE jobs[k]
    BY <1>6 DEF DeleteSession, TypeOK
  <2>2. \A k \in Jobs : /\ jobs[k].session = s0 => jobs'[k].status \in Gone
                        /\ jobs'[k].session = jobs[k].session
                        /\ jobs[k].session # s0 => jobs'[k] = jobs[k]
    BY <2>1, FinishFields DEF JobsOf, Gone
  <2>3. CASE s0 = s
    <3>1. /\ JobsIn(s, Active)' = {} /\ JobsIn(s, {"completed"})' = {}
          /\ JobsIn(s, {"failed"})' = {}
      BY <2>2, <2>3 DEF JobsIn, Gone
    <3>2. sessions[s] # "absent" /\ sessions'[s] = "deleted"
      BY <1>1, <1>6, <2>3 DEF DeleteSession
    <3>3. OneAtATime!Discard(s)
      BY <3>1, <3>2 DEF OneAtATime!Discard
    <3> QED
      BY <3>3 DEF OneAtATime!SessionStep
  <2>4. CASE s0 # s
    <3>1. sessions'[s] = sessions[s]
      BY <1>1, <1>6, <2>4 DEF DeleteSession
    <3> QED
      BY <2>2, <2>4, <3>1, TurnsSurvive DEF Gone
  <2> QED
    BY <2>3, <2>4
<1>7. ASSUME NEW s0 \in Sessions, s0 # s, CreateSession(s0) \/ PostInput(s0)
      PROVE  OneAtATime!SessionStep(s)
  <2>1. PICK new \in SUBSET Unused :
            jobs' = [j \in Jobs |-> IF j \in new THEN NewRow(s0) ELSE jobs[j]]
    BY <1>7 DEF CreateSession, PostInput
  <2>2. sessions'[s] = sessions[s]
    BY <1>1, <1>7 DEF CreateSession, PostInput
  <2> QED
    BY <1>2, <1>7, <2>1, <2>2
<1>8. ASSUME NEW a \in Agents, NEW t \in Tasks, PostInbox(a, t)
      PROVE  OneAtATime!SessionStep(s)
  BY <1>8, TurnsSurvive DEF PostInbox
<1> QED
  BY <1>4, <1>5, <1>6, <1>7, <1>8 DEF ClientNext

LEMMA PullTurns ==
    ASSUME TypeOK, LockInv, Single, TurnInv, NEW p \in Pulls, PullCommit(p),
           NEW s \in TurnSessions
    PROVE  OneAtATime!SessionStep(s)
<1> DEFINE w == pulls[p].by
<1>1. s \in Sessions /\ Workflow[s] \in Turns /\ sessions \in [Sessions -> SessionStatus]
  BY DEF TurnSessions, Turns, TypeOK
<1>2. Swept(p) \in [Jobs -> JobRow]
  BY SweptType DEF TypeOK
<1>3. \A k \in Jobs : /\ Swept(p)[k].session = jobs[k].session
                      /\ \/ Swept(p)[k] = jobs[k]
                         \/ /\ jobs[k].status = "assigned"
                            /\ Swept(p)[k].status \in {"pending", "failed"}
  BY SweptFields DEF Requeued, FailedRow
<1>4. CASE PullSweepOnly(p)
  BY <1>3, <1>4, TurnsSurvive DEF PullSweepOnly, Gone
<1>5. CASE PullPromote(p)
  <2>1. PICK a \in Listening(w), s0 \in Sessions, j \in Jobs :
            /\ s0 \in RunningInbox(a)
            /\ NextIds({j}, 1)
            /\ jobs' = [Swept(p) EXCEPT ![j] = Assign(NewRow(s0), w)]
            /\ StartSession(s0)
    BY <1>5 DEF PullPromote, RunningInbox
  <2>2. s0 # s /\ sessions' = sessions /\ jobs[j].status = "absent"
    BY <1>1, <2>1 DEF RunningInbox, Turns, StartSession, NextIds, Unused
  <2>3. jobs'[j].session = s0
    BY <1>2, <2>1, NewRowType, NewRowFields, AssignFields
  <2>4. \A k \in Jobs : k # j => jobs'[k] = Swept(p)[k]
    BY <1>2, <2>1
  <2>5. \A k \in Jobs : jobs[k].session = s /\ jobs[k].status \notin Gone =>
            /\ jobs'[k].session = s
            /\ \/ jobs'[k].status = jobs[k].status
               \/ jobs[k].status \in Active /\ jobs'[k].status \in Active
               \/ jobs[k].status = "assigned" /\ jobs'[k].status = "failed"
    BY <1>3, <2>2, <2>4 DEF Gone
  <2>6. \A k \in Jobs : jobs[k].session # s \/ jobs[k].status \in Gone =>
            jobs'[k].session # s \/ jobs'[k].status \in Gone
    BY <1>3, <2>2, <2>3, <2>4 DEF Gone
  <2> QED
    BY <2>2, <2>5, <2>6, TurnsSurvive
<1>6. CASE PullClaim(p)
  <2>1. PICK j \in Queued(p) : /\ jobs' = [Swept(p) EXCEPT ![j] = Assign(@, w)]
                            /\ StartSession(jobs[j].session)
    BY <1>6 DEF PullClaim
  <2>2. j \in Jobs /\ Swept(p)[j].status = "pending" /\ jobs[j].status \in Active
    BY <1>3, <2>1 DEF Queued
  <2>3. jobs'[j].session = jobs[j].session /\ jobs'[j].status = "assigned"
    BY <1>2, <1>3, <2>1, <2>2, AssignFields
  <2>4. \A k \in Jobs : k # j => jobs'[k] = Swept(p)[k]
    BY <1>2, <2>1
  <2>5. \/ sessions'[s] = sessions[s]
        \/ jobs[j].session = s /\ sessions[s] = "pending" /\ sessions'[s] = "running"
    BY <1>1, <2>1 DEF StartSession
  <2> QED
    BY <1>3, <2>2, <2>3, <2>4, <2>5, TurnsSurvive DEF Gone
<1> QED
  BY <1>4, <1>5, <1>6 DEF PullCommit

LEMMA RemoveTurns ==
    ASSUME TypeOK, LockInv, Single, TurnInv, NEW w \in Workers, RemoveCommit(w),
           NEW s \in TurnSessions
    PROVE  OneAtATime!SessionStep(s)
<1>1. \A k \in Jobs : /\ jobs'[k].session = jobs[k].session
                      /\ \/ jobs'[k].status = jobs[k].status
                         \/ /\ jobs[k].status = "assigned"
                            /\ jobs'[k].status \in {"pending", "failed"}
  <2> SUFFICES ASSUME NEW k \in Jobs
               PROVE  /\ jobs'[k].session = jobs[k].session
                      /\ \/ jobs'[k].status = jobs[k].status
                         \/ /\ jobs[k].status = "assigned"
                            /\ jobs'[k].status \in {"pending", "failed"}
    OBVIOUS
  <2>1. /\ jobs[k] \in JobRow
        /\ rowLock[k] = w => jobs[k].status = "assigned"
    BY TxAssumption DEF TypeOK, LockInv, LockedIsAssigned
  <2>2. \/ jobs'[k] = Reclaim(jobs[k]) /\ rowLock[k] = w
        \/ jobs'[k] \in {[jobs[k] EXCEPT !.worker = NoWorker], jobs[k]}
    BY DEF RemoveCommit
  <2>3. [jobs[k] EXCEPT !.worker = NoWorker].session = jobs[k].session
        /\ [jobs[k] EXCEPT !.worker = NoWorker].status = jobs[k].status
    BY <2>1 DEF JobRow
  <2>4. CASE jobs'[k] = Reclaim(jobs[k]) /\ rowLock[k] = w
    BY <2>1, <2>4, ReclaimFields DEF Requeued, FailedRow
  <2>5. CASE jobs'[k] \in {[jobs[k] EXCEPT !.worker = NoWorker], jobs[k]}
    BY <2>3, <2>5
  <2> QED
    BY <2>2, <2>4, <2>5
<1>2. sessions' = sessions
  BY DEF RemoveCommit
<1> QED
  BY <1>1, <1>2, TurnsSurvive DEF Gone

\* A completion that ends the turn of s with a status of its own.
LEMMA EndedTurn ==
    ASSUME TypeOK, Single, TurnInv, NEW s \in TurnSessions, NEW j \in Jobs,
           jobs[j].session = s, jobs[j].status = "assigned",
           NEW status \in Terminal,
           jobs' = [jobs EXCEPT ![j] = Finish(@, status)]
    PROVE  /\ JobsIn(s, Active)' = {}
           /\ JobsIn(s, {status})' = JobsIn(s, {status}) \cup {j}
           /\ \A other \in Terminal \ {status} : JobsIn(s, {other})' = JobsIn(s, {other})
<1>1. /\ jobs'[j].status = status /\ jobs'[j].session = s
      /\ \A k \in Jobs : k # j => jobs'[k] = jobs[k]
  BY FinishFields DEF TypeOK
<1>2. \A k \in Jobs : jobs[k].session = s /\ jobs[k].status \in Active => k = j
  BY TheTurn
<1>3. JobsIn(s, Active)' = {}
  BY <1>1, <1>2 DEF JobsIn
<1>4. JobsIn(s, {status})' = JobsIn(s, {status}) \cup {j}
  BY <1>1 DEF JobsIn
<1>5. \A other \in Terminal \ {status} : JobsIn(s, {other})' = JobsIn(s, {other})
  BY <1>1 DEF JobsIn
<1> QED
  BY <1>3, <1>4, <1>5

LEMMA CompleteTurns ==
    ASSUME JobInv, Single, TurnInv, NEW r \in Requests, RequestNext(r), NEW s \in TurnSessions
    PROVE  OneAtATime!SessionStep(s)
<1> DEFINE j == requests[r].job
<1>1. /\ s \in Sessions /\ Workflow[s] \in Turns /\ sessions \in [Sessions -> SessionStatus]
      /\ TypeOK /\ LockInv
      /\ \A k \in Jobs : jobs[k] \in JobRow /\ jobs[k].session \in Sessions
  BY DEF TurnSessions, Turns, JobInv, TypeOK, JobRow
<1>2. ASSUME jobs' = jobs, sessions' = sessions
      PROVE  OneAtATime!SessionStep(s)
  BY <1>2, TurnsSurvive
<1>3. ASSUME requests[r] # NoRequest
      PROVE  j \in Jobs
  BY <1>1, <1>3, RequestRows
<1>4. CASE CompleteLoopN(r)
  <2>1. j \in Jobs /\ Workflow[jobs[j].session] = "loop_n"
    BY <1>1, <1>3, <1>4 DEF CompleteLoopN, LockInv, CountedIsLocked
  <2>2. jobs[j].session # s /\ jobs[j].session \in Sessions
    BY <1>1, <2>1 DEF Turns
  <2>3. sessions'[s] = sessions[s]
    BY <1>1, <1>4, <2>2 DEF CompleteLoopN
  <2>4. jobs'[j].session # s /\ \A k \in Jobs : k # j => jobs'[k] = jobs[k]
    BY <1>1, <1>4, <2>1, <2>2, FinishFields DEF CompleteLoopN, TypeOK
  <2> QED
    BY <2>1, <2>2, <2>3, <2>4, TurnsSurvive DEF Gone
<1>5. CASE CompleteFailed(r)
  <2>1. j \in Jobs /\ jobs[j].status = "assigned"
    BY <1>3, <1>5 DEF CompleteFailed, Updatable
  <2>2. PICK cancelled \in SUBSET Jobs :
            /\ \A k \in cancelled : jobs[k].status = "pending"
                                    /\ jobs[k].session = jobs[j].session
            /\ jobs' = [k \in Jobs |-> IF k \in cancelled \cup {j} THEN Finish(jobs[k], "failed")
                                       ELSE jobs[k]]
    <3> DEFINE cancelled == IF WorkflowOf(j) \in Loops
                     THEN {k \in JobsOf(jobs[j].session) : jobs[k].status = "pending"}
                     ELSE {}
    <3>1. /\ cancelled \in SUBSET Jobs
          /\ \A k \in cancelled : jobs[k].status = "pending"
                                  /\ jobs[k].session = jobs[j].session
      BY DEF JobsOf
    <3>2. jobs' = [k \in Jobs |-> IF k \in cancelled \cup {j} THEN Finish(jobs[k], "failed")
                                 ELSE jobs[k]]
      BY <1>5 DEF CompleteFailed
    <3> QED
      BY <3>1, <3>2
  <2>3. CASE jobs[j].session = s
    <3>1. cancelled = {}
      BY <2>1, <2>2, <2>3, TheTurn
    <3>2. jobs' = [jobs EXCEPT ![j] = Finish(@, "failed")]
      BY <1>1, <2>1, <2>2, <3>1 DEF TypeOK
    <3>3. sessions'[s] = "failed"
      BY <1>1, <1>5, <2>3 DEF CompleteFailed
    <3>4. /\ JobsIn(s, Active)' = {}
          /\ JobsIn(s, {"failed"})' = JobsIn(s, {"failed"}) \cup {j}
          /\ JobsIn(s, {"completed"})' = JobsIn(s, {"completed"})
      BY <1>1, <2>1, <2>3, <3>2, EndedTurn
    <3>5. sessions[s] = "running" /\ JobsIn(s, Active) = {j}
      BY <2>1, <2>3, TheTurn
    <3>6. OneAtATime!Fail(s)
      BY <3>3, <3>4, <3>5 DEF OneAtATime!Fail, OneAtATime!UnderWay, OneAtATime!Lost
    <3> QED
      BY <3>6 DEF OneAtATime!SessionStep
  <2>4. CASE jobs[j].session # s
    <3>1. sessions'[s] = sessions[s]
      BY <1>1, <1>5, <2>1, <2>4 DEF CompleteFailed
    <3>2. \A k \in Jobs : \/ jobs'[k] = jobs[k]
                          \/ jobs[k].session # s /\ jobs'[k].session # s
      BY <1>1, <2>2, <2>4, FinishFields
    <3> QED
      BY <3>1, <3>2, TurnsSurvive
  <2> QED
    BY <2>3, <2>4
<1>6. CASE CompleteTurn(r)
  <2>1. /\ j \in Jobs /\ jobs[j].status = "assigned"
        /\ Workflow[jobs[j].session] \in {"chat", "inbox"}
        /\ jobs' = [jobs EXCEPT ![j] = Finish(@, "completed")]
        /\ sessions' = [sessions EXCEPT ![jobs[j].session] = "running"]
    BY <1>3, <1>6 DEF CompleteTurn, Updatable, WorkflowOf
  <2>2. CASE jobs[j].session = s
    <3>1. /\ JobsIn(s, Active)' = {}
          /\ JobsIn(s, {"completed"})' = JobsIn(s, {"completed"}) \cup {j}
          /\ JobsIn(s, {"failed"})' = JobsIn(s, {"failed"})
      BY <1>1, <2>1, <2>2, EndedTurn
    <3>2. sessions[s] = "running" /\ JobsIn(s, Active) = {j}
      BY <2>1, <2>2, TheTurn
    <3>3. sessions'[s] = "running" /\ Workflow[s] = "chat"
      BY <1>1, <2>1, <2>2 DEF Turns
    <3>4. OneAtATime!Answer(s)
      BY <3>1, <3>2, <3>3 DEF OneAtATime!Answer, OneAtATime!UnderWay, OneAtATime!Answered,
         OneAtATime!SamePhase
    <3> QED
      BY <3>4 DEF OneAtATime!SessionStep
  <2>3. CASE jobs[j].session # s
    <3>1. sessions'[s] = sessions[s]
      BY <1>1, <2>1, <2>3
    <3>2. jobs'[j].session # s /\ \A k \in Jobs : k # j => jobs'[k] = jobs[k]
      BY <1>1, <2>1, <2>3, FinishFields DEF TypeOK
    <3> QED
      BY <2>1, <2>3, <3>1, <3>2, TurnsSurvive
  <2> QED
    BY <2>2, <2>3
<1>7. CASE CompleteIteration(r)
  <2> DEFINE done == [jobs EXCEPT ![j] = Finish(@, "completed")]
  <2>1. /\ j \in Jobs /\ jobs[j].status = "assigned"
        /\ Workflow[jobs[j].session] = "loop_until_sentinel"
        /\ sessions' = [sessions EXCEPT ![jobs[j].session] =
                            IF IteratesAfter(r, j) THEN "running" ELSE "completed"]
    BY <1>3, <1>7 DEF CompleteIteration, Updatable, WorkflowOf
  <2>2. /\ done[j].status = "completed" /\ done[j].session = jobs[j].session
        /\ \A k \in Jobs : k # j => done[k] = jobs[k]
    BY <1>1, <2>1, FinishFields DEF TypeOK
  <2>3. CASE ~IteratesAfter(r, j)
    <3>1. jobs' = done
      BY <1>7, <2>3 DEF CompleteIteration
    <3>2. CASE jobs[j].session = s
      <4>1. /\ JobsIn(s, Active)' = {}
            /\ JobsIn(s, {"completed"})' = JobsIn(s, {"completed"}) \cup {j}
            /\ JobsIn(s, {"failed"})' = JobsIn(s, {"failed"})
        BY <1>1, <2>1, <3>1, <3>2, EndedTurn
      <4>2. sessions[s] = "running" /\ JobsIn(s, Active) = {j}
        BY <2>1, <3>2, TheTurn
      <4>3. sessions'[s] = "completed" /\ Workflow[s] = "loop_until_sentinel"
        BY <1>1, <2>1, <2>3, <3>2
      <4>4. OneAtATime!Finish(s)
        BY <1>1, <4>1, <4>2, <4>3
           DEF OneAtATime!Finish, OneAtATime!UnderWay, OneAtATime!Answered
      <4> QED
        BY <4>4 DEF OneAtATime!SessionStep
    <3>3. CASE jobs[j].session # s
      <4>1. sessions'[s] = sessions[s]
        BY <1>1, <2>1, <3>3
      <4> HIDE DEF done
      <4> QED
        BY <2>1, <2>2, <3>1, <3>3, <4>1, TurnsSurvive
    <3> QED
      BY <3>2, <3>3
  <2>4. CASE IteratesAfter(r, j)
    <3>1. PICK n \in Jobs : NextIds({n}, 1) /\ jobs' = [done EXCEPT ![n] = NewRow(jobs[j].session)]
      BY <1>7, <2>4 DEF CompleteIteration
    <3>2. jobs[n].status = "absent"
      BY <3>1 DEF NextIds, Unused
    <3>3. /\ jobs'[n].status = "pending" /\ jobs'[n].session = jobs[j].session
          /\ jobs'[j].status = "completed" /\ jobs'[j].session = jobs[j].session
          /\ \A k \in Jobs : k \notin {n, j} => jobs'[k] = jobs[k]
      <4>1. done \in [Jobs -> JobRow] /\ n # j
        BY <1>1, <2>1, <3>2, FinishType DEF TypeOK
      <4> HIDE DEF done
      <4> QED
        BY <2>1, <2>2, <3>1, <4>1, NewRowFields
    <3>4. CASE jobs[j].session = s
      <4>1. \A k \in Jobs : jobs[k].session = s /\ jobs[k].status \in Active => k = j
        BY <2>1, <3>4, TheTurn
      <4>2. JobsIn(s, Active)' = {n}
        BY <2>1, <3>2, <3>3, <3>4, <4>1 DEF JobsIn
      <4>3. JobsIn(s, {"completed"})' = JobsIn(s, {"completed"}) \cup {j}
        BY <2>1, <3>2, <3>3, <3>4 DEF JobsIn
      <4>4. JobsIn(s, {"failed"})' = JobsIn(s, {"failed"})
        BY <2>1, <3>2, <3>3, <3>4 DEF JobsIn
      <4>5. sessions[s] = "running" /\ JobsIn(s, Active) = {j}
        BY <2>1, <3>4, TheTurn
      <4>6. sessions'[s] = "running" /\ Workflow[s] = "loop_until_sentinel"
        BY <1>1, <2>1, <2>4, <3>4
      <4>7. {k \in JobsOf(jobs[j].session) : k = j \/ jobs[k].status = "completed"}
                = JobsIn(s, {"completed"}) \cup {j}
        BY <2>1, <3>4 DEF JobsOf, JobsIn
      <4>8. Cardinality(JobsIn(s, {"completed"}) \cup JobsIn(s, Active)) < MaxIterations
        BY <2>4, <4>5, <4>7 DEF IteratesAfter, DoneWith
      <4>9. OneAtATime!New(n)
        BY <3>2, NewTurn
      <4>10. OneAtATime!UnderWay(s) /\ OneAtATime!SamePhase(s)
        BY <4>5, <4>6 DEF OneAtATime!UnderWay, OneAtATime!SamePhase
      <4>11. OneAtATime!Answered(s)
        BY <4>3, <4>4, <4>5 DEF OneAtATime!Answered
      <4>12. OneAtATime!RoundsLeft(s)
        <5>1. /\ [x \in TurnSessions |-> JobsIn(x, {"completed"})][s] = JobsIn(s, {"completed"})
              /\ [x \in TurnSessions |-> JobsIn(x, Active)][s] = JobsIn(s, Active)
          OBVIOUS
        <5>2. ASSUME NEW S PROVE OneAtATime!Cardinality(S) = Cardinality(S)
          BY DEF OneAtATime!Cardinality, Cardinality
        <5> QED
          BY <4>8, <5>1, <5>2, Zenon DEF OneAtATime!RoundsLeft
      <4>13. OneAtATime!Iterate(s, n)
        BY <1>1, <4>2, <4>6, <4>9, <4>10, <4>11, <4>12 DEF OneAtATime!Iterate
      <4> QED
        BY <4>13 DEF OneAtATime!SessionStep
    <3>5. CASE jobs[j].session # s
      <4>1. sessions'[s] = sessions[s]
        BY <1>1, <2>1, <3>5
      <4> QED
        BY <2>1, <3>2, <3>3, <3>5, <4>1, TurnsSurvive DEF Gone
    <3> QED
      BY <3>4, <3>5
  <2> QED
    BY <2>3, <2>4
<1>8. CASE (\E k \in Jobs, by \in Workers \cup {NoWorker}, outcome \in Outcomes :
                CompleteCheck(r, k, by, outcome))
           \/ CompleteCount(r) \/ CompleteAbort(r)
  BY <1>2, <1>8 DEF CompleteCheck, CompleteCount, CompleteAbort
<1> QED
  BY <1>4, <1>5, <1>6, <1>7, <1>8 DEF RequestNext, RequestStep

LEMMA EverySessionSteps ==
    ASSUME JobInv, SessionInv, TurnInv, [Next]_vars, NEW s \in TurnSessions
    PROVE  OneAtATime!SessionStep(s)
<1>1. TypeOK /\ LockInv /\ Homes /\ Single
  BY DEF JobInv, SessionInv
<1>2. ASSUME jobs' = jobs, sessions' = sessions
      PROVE  OneAtATime!SessionStep(s)
  BY <1>1, <1>2, TurnsSurvive
<1>3. ASSUME NEW w \in Workers, WorkerNext(w)
      PROVE  OneAtATime!SessionStep(s)
  <2>1. CASE RemoveCommit(w)
    BY <1>1, <2>1, RemoveTurns
  <2>2. CASE (RegistryStep(w) /\ UNCHANGED queueVars) \/ RemoveStart(w) \/ RemoveAbort(w)
    BY <1>2, <2>2 DEF RemoveStart, RemoveAbort, queueVars
  <2> QED
    BY <1>3, <2>1, <2>2 DEF WorkerNext
<1>4. ASSUME NEW r \in Requests, RequestNext(r)
      PROVE  OneAtATime!SessionStep(s)
  BY <1>1, <1>4, CompleteTurns
<1>5. CASE ClientNext
  BY <1>1, <1>5, ClientTurns
<1>6. CASE UNCHANGED vars \/ \E j \in Jobs : LeaseRunsOut(j)
  BY <1>2, <1>6 DEF LeaseRunsOut, vars, queueVars
<1>7. ASSUME NEW p \in Pulls, PullNext(p)
      PROVE  OneAtATime!SessionStep(s)
  BY <1>1, <1>2, <1>7, PullTurns, PullQuiet DEF PullNext, PullStep
<1> QED
  BY <1>3, <1>4, <1>5, <1>6, <1>7 DEF Next

\* ImplementsTurnTaking of JobQueue: whatever pulls, lost workers, expired
\* leases, deletions and completions sent twice do, each chat and each
\* sentinel loop goes through its turns as TurnTaking describes.
THEOREM SessionsTakeTurns == Spec => ImplementsTurnTaking
<1>1. Init => TurnInv /\ OneAtATime!Init
  <2> SUFFICES ASSUME Init PROVE TurnInv /\ OneAtATime!Init
    OBVIOUS
  <2>1. /\ \A j \in Jobs : jobs[j].status = "absent"
        /\ \A s \in Sessions : sessions[s] = "absent"
    BY DEF Init, NoJobRow
  <2>2. \A s \in TurnSessions : /\ sessions[s] = "absent" /\ JobsIn(s, Active) = {}
                                /\ JobsIn(s, {"completed"}) = {}
                                /\ JobsIn(s, {"failed"}) = {}
    BY <2>1 DEF JobsIn, TurnSessions
  <2> QED
    BY <2>1, <2>2 DEF TurnInv, OneAtATime!Init
<1>2. JobInv /\ SessionInv /\ TurnInv /\ [Next]_vars => TurnInv'
  BY EachStep, TurnInvStep
<1>3. JobInv /\ SessionInv /\ TurnInv /\ [Next]_vars
          => [OneAtATime!Next]_(OneAtATime!turnVars)
  BY EverySessionSteps DEF OneAtATime!Next
<1> QED
  BY <1>1, <1>2, <1>3, JobInvHolds, SessionInvHolds, PTL
     DEF Spec, ImplementsTurnTaking, OneAtATime!Spec
===============================================================================
