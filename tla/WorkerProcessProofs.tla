-------------------------- MODULE WorkerProcessProofs --------------------------
(***************************************************************************)
(* What holds of the worker processes and the queue together, for any      *)
(* number of workers and jobs, whatever calls are lost or come late.       *)
(*                                                                         *)
(* 1. Where processes go, and their types.                                 *)
(* 2. The processes use the queue as JobQueue describes it, so that what   *)
(*    JobQueueProofs proves holds of the whole system.                     *)
(* 3. How many processes can be at work on one job.                        *)
(***************************************************************************)
EXTENDS WorkerProcess, SessionProofs, FiniteSetTheorems

USE DEF Serving, Starting, Place

(***************************************************************************)
(* 1. Where a process goes in one step, and the type invariant.            *)
(***************************************************************************)
PlaceMove(w) ==
    \/ UNCHANGED <<at, doing>>
    \/ \E place \in Place \ {"await", "run", "answer"} : Goto(w, place)
    \/ \E p \in Pulls : at' = [at EXCEPT ![w] = "await"] /\ doing' = [doing EXCEPT ![w] = p]
    \/ \E j \in Jobs : jobs'[j].worker = w /\ Execute(w, j)
    \/ at[w] = "run" /\ at' = [at EXCEPT ![w] = "answer"] /\ UNCHANGED doing

LEMMA PlaceStep ==
    ASSUME NEW w \in Workers, ProcessStep(w)
    PROVE  PlaceMove(w)
<1>1. CASE StartUp(w)
  BY <1>1 DEF StartUp, AfterRegister, PlaceMove
<1>2. CASE RegisterUnanswered(w) \/ HeartbeatTask(w) \/ MissHeartbeats(w)
           \/ PullAbandoned(w) \/ LatePull(w)
  BY <1>2 DEF RegisterUnanswered, HeartbeatTask, MissHeartbeats, PullAbandoned, LatePull,
              processVars, PlaceMove
<1>3. CASE ClaimTaken(w) \/ ClaimRefused(w) \/ ClaimDone(w) \/ ClaimFails(w)
  BY <1>3 DEF ClaimTaken, ClaimRefused, ClaimDone, ClaimFails, PlaceMove
<1>4. CASE FirstHeartbeat(w) \/ HeartbeatRefused(w) \/ GiveUp(w) \/ ReportAnswered(w)
           \/ Crash(w)
  BY <1>4 DEF FirstHeartbeat, HeartbeatRefused, GiveUp, ReportAnswered, Crash, PlaceMove
<1>5. CASE PullAnswered(w)
  BY <1>5 DEF PullAnswered, Handed, HeldBy, PlaceMove
<1>6. CASE RunEnds(w)
  BY <1>6 DEF RunEnds, Report, ReportRefused, ReportLost, ReportAbandoned, PlaceMove
<1>7. CASE PullSent(w)
  BY <1>7 DEF PullSent, PlaceMove
<1>8. CASE PullUnanswered(w) \/ PullFails(w) \/ PullGivenUp(w)
  BY <1>8 DEF PullUnanswered, PullFails, PullGivenUp, PlaceMove
<1> QED BY <1>1, <1>2, <1>3, <1>4, <1>5, <1>6, <1>7, <1>8 DEF ProcessStep, PullMade

LEMMA PlaceMoveType ==
    ASSUME ProcessTypeOK, NEW w \in Workers, PlaceMove(w), late' \subseteq LateCall
    PROVE  ProcessTypeOK'
<1>1. CASE UNCHANGED <<at, doing>>
  BY <1>1 DEF ProcessTypeOK
<1>2. ASSUME NEW place \in Place \ {"await", "run", "answer"}, Goto(w, place)
      PROVE  ProcessTypeOK'
  BY <1>2, NoJobAssumption DEF Goto, ProcessTypeOK
<1>3. ASSUME NEW j \in Jobs, Execute(w, j) PROVE ProcessTypeOK'
  BY <1>3, NoJobAssumption DEF Execute, ProcessTypeOK
<1>4. CASE at[w] = "run" /\ at' = [at EXCEPT ![w] = "answer"] /\ UNCHANGED doing
  BY <1>4, NoJobAssumption DEF ProcessTypeOK
<1>5. ASSUME NEW p \in Pulls, at' = [at EXCEPT ![w] = "await"],
             doing' = [doing EXCEPT ![w] = p]
      PROVE  ProcessTypeOK'
  BY <1>5, NoJobAssumption DEF ProcessTypeOK
<1> QED BY <1>1, <1>2, <1>3, <1>4, <1>5 DEF PlaceMove

LEMMA LateType ==
    ASSUME ProcessTypeOK, NEW w \in Workers, ProcessStep(w)
    PROVE  late' \subseteq LateCall
<1>1. late \subseteq LateCall
  BY DEF ProcessTypeOK
<1>2. CASE PullAbandoned(w)
  BY <1>1, <1>2 DEF PullAbandoned, Abandon, LateCall
<1>3. ASSUME NEW outcome \in Outcomes, ReportAbandoned(w, outcome)
      PROVE  late' \subseteq LateCall
  <2>1. doing[w] \in Jobs
    BY <1>3 DEF ReportAbandoned, ProcessTypeOK
  <2> QED BY <1>1, <1>3, <2>1 DEF ReportAbandoned, Abandon, LateCall
<1>4. CASE late' \subseteq late
  BY <1>1, <1>4
<1>5. CASE StartUp(w) \/ RegisterUnanswered(w) \/ ClaimTaken(w) \/ ClaimRefused(w)
           \/ ClaimDone(w) \/ ClaimFails(w) \/ FirstHeartbeat(w) \/ HeartbeatRefused(w)
           \/ GiveUp(w) \/ HeartbeatTask(w) \/ MissHeartbeats(w)
  BY <1>4, <1>5 DEF StartUp, RegisterUnanswered, ClaimTaken, ClaimRefused, ClaimDone,
                    ClaimFails, FirstHeartbeat, HeartbeatRefused, GiveUp, HeartbeatTask,
                    MissHeartbeats, processVars
<1>6. CASE PullSent(w) \/ PullMade(w) \/ PullFails(w) \/ PullGivenUp(w) \/ LatePull(w)
           \/ ReportAnswered(w) \/ Crash(w)
  BY <1>4, <1>6 DEF PullSent, PullMade, PullAnswered, PullUnanswered, PullFails,
                    PullGivenUp, LatePull, ReportAnswered, Crash, processVars
<1>7. CASE RunEnds(w)
  BY <1>3, <1>4, <1>7 DEF RunEnds, Report, ReportRefused, ReportLost
<1> QED BY <1>2, <1>5, <1>6, <1>7 DEF ProcessStep

\* What a step of the whole system makes of the processes.
LEMMA ProcessMove ==
    ASSUME ProcessTypeOK, [ProcessNext]_allVars
    PROVE  /\ ProcessTypeOK'
           /\ UNCHANGED doing \/ \E w \in Workers : PlaceMove(w)
<1>1. CASE UNCHANGED processVars
  BY <1>1 DEF processVars, ProcessTypeOK
<1>2. ASSUME NEW w \in Workers, ProcessStep(w)
      PROVE  ProcessTypeOK' /\ PlaceMove(w)
  BY <1>2, PlaceStep, LateType, PlaceMoveType
<1>3. ASSUME NEW r \in Requests, NEW c \in late, LateReport(r, c)
      PROVE  ProcessTypeOK' /\ UNCHANGED doing
  BY <1>3 DEF LateReport, ProcessTypeOK
<1> QED BY <1>1, <1>2, <1>3 DEF ProcessNext, Removal, ServerStep, allVars, processVars

(***************************************************************************)
(* 2. Every step is a step of the queue, or leaves it alone.               *)
(***************************************************************************)
LEMMA ProcessQueueStep ==
    ASSUME TypeOK, ProcessTypeOK, NEW w \in Workers, ProcessStep(w)
    PROVE  [Next]_vars
<1>1. ASSUME RegistryStep(w), UNCHANGED queueVars PROVE [Next]_vars
  BY <1>1 DEF Next, WorkerNext
<1>2. ASSUME UNCHANGED registryVars, UNCHANGED queueVars PROVE [Next]_vars
  BY <1>2 DEF vars
<1>3. CASE StartUp(w) \/ RegisterUnanswered(w)
  BY <1>1, <1>2, <1>3 DEF StartUp, RegisterUnanswered, AlreadyRegistered, RegistryStep
<1>4. CASE ClaimTaken(w)
  <2>1. InboxAgent[w] \in Agents
    BY <1>4 DEF ClaimTaken, ClaimCheck, TypeOK, RegistryTypeOK
  <2> QED BY <1>1, <1>4, <2>1 DEF ClaimTaken, RegistryStep
<1>5. CASE ClaimDone(w) \/ ClaimFails(w) \/ FirstHeartbeat(w) \/ HeartbeatTask(w)
           \/ MissHeartbeats(w)
  BY <1>1, <1>5 DEF ClaimDone, ClaimFails, FirstHeartbeat, HeartbeatTask,
                    MissHeartbeats, RegistryStep
<1>6. CASE ClaimRefused(w) \/ HeartbeatRefused(w) \/ GiveUp(w) \/ PullAbandoned(w)
           \/ PullGivenUp(w) \/ ReportAnswered(w) \/ Crash(w)
  BY <1>6 DEF ClaimRefused, HeartbeatRefused, GiveUp, PullAbandoned, PullGivenUp,
              ReportAnswered, Crash
<1>7. CASE PullSent(w) \/ LatePull(w)
  BY <1>7 DEF PullSent, LatePull, Next, PullNext
<1>8. CASE RunEnds(w)
  <2>1. ASSUME NEW r \in Requests, NEW outcome \in Outcomes, Report(w, r, outcome)
        PROVE  [Next]_vars
    <3>1. doing[w] \in Jobs
      BY <2>1 DEF Report, ProcessTypeOK
    <3> QED BY <2>1, <3>1 DEF Report, Next, RequestNext
  <2>2. CASE ReportRefused(w) \/ ReportLost(w)
             \/ \E outcome \in Outcomes : ReportAbandoned(w, outcome)
    BY <2>2 DEF ReportRefused, ReportLost, ReportAbandoned
  <2> QED BY <1>8, <2>1, <2>2 DEF RunEnds
<1>9. CASE PullMade(w) \/ PullFails(w)
  <2>1. PullStep(doing[w]) /\ doing[w] \in Pulls
    BY <1>9 DEF PullMade, PullAnswered, PullUnanswered, PullFails, PullStep, ProcessTypeOK
  <2> QED BY <2>1 DEF Next, PullNext
<1> QED BY <1>3, <1>4, <1>5, <1>6, <1>7, <1>8, <1>9 DEF ProcessStep

LEMMA QueueStep == TypeOK /\ ProcessTypeOK /\ [ProcessNext]_allVars => [Next]_vars
<1> SUFFICES ASSUME TypeOK, ProcessTypeOK, [ProcessNext]_allVars PROVE [Next]_vars
  OBVIOUS
<1>1. CASE UNCHANGED allVars
  BY <1>1 DEF allVars
<1>2. ASSUME NEW w \in Workers, Removal(w) PROVE [Next]_vars
  BY <1>2 DEF Removal, Next, WorkerNext
<1>3. ASSUME NEW r \in Requests, NEW c \in late, LateReport(r, c) PROVE [Next]_vars
  <2>1. /\ CompleteCheck(r, c.job, c.by, c.outcome)
        /\ c.job \in Jobs /\ c.by \in Workers /\ c.outcome \in Outcomes
    BY <1>3 DEF LateReport, ProcessTypeOK, LateCall
  <2> QED BY <2>1 DEF Next, RequestNext
<1>4. CASE ServerStep
  BY <1>4 DEF ServerStep, Next, RequestNext, PullNext
<1> QED BY <1>1, <1>2, <1>3, <1>4, ProcessQueueStep DEF ProcessNext

LEMMA ProcessInitType == ProcessInit => ProcessTypeOK
BY NoJobAssumption DEF ProcessInit, ProcessTypeOK

LEMMA ProcessTypes == ProcessSpec => [](TypeOK /\ ProcessTypeOK)
<1>1. ProcessInit => TypeOK /\ ProcessTypeOK
  BY InitType, ProcessInitType DEF ProcessInit
<1>2. TypeOK /\ ProcessTypeOK /\ [ProcessNext]_allVars => (TypeOK /\ ProcessTypeOK)'
  BY QueueStep, NextType, ProcessMove
<1> QED BY <1>1, <1>2, PTL DEF ProcessSpec

\* A process knows which job it executes exactly while it executes or reports
\* one, and the calls it has given up are calls about known jobs.
THEOREM ProcessTypeCorrect == ProcessSpec => []ProcessTypeOK
BY ProcessTypes, PTL

\* Worker processes, with their crashes and late calls, drive the queue only
\* as JobQueue allows: every theorem about Spec holds of the whole system.
THEOREM ProcessesUseTheQueue == ProcessSpec => Spec
<1>1. ProcessInit => Init
  BY DEF ProcessInit
<1> QED BY <1>1, QueueStep, ProcessTypes, PTL DEF ProcessSpec, Spec

\* Processes that crash, restart and report late under their worker ids break
\* none of the queue's promises: a job's life, a session's turns, the outcome
\* that stays, the bound on retries.
COROLLARY ProcessesKeepThePromises ==
    ProcessSpec => /\ ImplementsLifecycle /\ ImplementsTurnTaking
                   /\ OutcomeIsFinal /\ []RetriesBounded
BY ProcessesUseTheQueue, ImplementsJobLifecycle, SessionsTakeTurns, OutcomesAreFinal,
   RetriesAreBounded, PTL

(***************************************************************************)
(* 3. The processes at work on a job, and the worker it is assigned to if  *)
(* that has not begun, are no more than the times it was handed out.       *)
(***************************************************************************)
Involved(j) == Runners(j) \cup ({jobs[j].worker} \ {NoWorker})

RunnersInv ==
    \A j \in Jobs : IsFiniteSet(Involved(j)) /\ Cardinality(Involved(j)) <= attempts[j]

LEMMA RunnersStep ==
    ASSUME TypeOK, ProcessTypeOK, RunnersInv, TypeOK', NEW j \in Jobs, RowStep(j),
           UNCHANGED doing \/ \E w \in Workers : PlaceMove(w)
    PROVE  /\ IsFiniteSet(Involved(j)')
           /\ Cardinality(Involved(j)') <= attempts'[j]
<1>1. /\ IsFiniteSet(Involved(j)) /\ Cardinality(Involved(j)) <= attempts[j]
      /\ Cardinality(Involved(j)) \in Nat
      /\ attempts[j] \in Nat /\ attempts'[j] \in Nat
  BY FS_CardinalityType DEF RunnersInv, TypeOK
<1>2. attempts'[j] = attempts[j] \/ attempts'[j] = attempts[j] + 1
  BY DEF RowStep, RowMove
<1>3. Runners(j)' \subseteq Runners(j) \cup ({jobs'[j].worker} \ {NoWorker})
  <2>1. CASE UNCHANGED doing
    BY <2>1 DEF Runners
  <2>2. ASSUME NEW w \in Workers, NEW place, Goto(w, place)
        PROVE  Runners(j)' \subseteq Runners(j)
    BY <2>2, NoJobAssumption DEF Goto, Runners, ProcessTypeOK
  <2>3. ASSUME NEW w \in Workers, NEW k \in Jobs, jobs'[k].worker = w, Execute(w, k)
        PROVE  Runners(j)' \subseteq Runners(j) \cup ({jobs'[j].worker} \ {NoWorker})
    BY <2>3, NoWorkerAssumption DEF Execute, Runners, ProcessTypeOK
  <2>4. ASSUME NEW w \in Workers, NEW p \in Pulls, doing' = [doing EXCEPT ![w] = p]
        PROVE  Runners(j)' \subseteq Runners(j)
    BY <2>4, NoJobAssumption DEF Runners, ProcessTypeOK
  <2> QED BY <2>1, <2>2, <2>3, <2>4 DEF PlaceMove
<1>4. CASE jobs'[j].worker \in {jobs[j].worker, NoWorker}
  <2>1. Involved(j)' \in SUBSET Involved(j)
    BY <1>3, <1>4 DEF Involved
  <2>2. IsFiniteSet(Involved(j)') /\ Cardinality(Involved(j)') <= Cardinality(Involved(j))
    BY <1>1, <2>1, FS_Subset
  <2> QED BY <1>1, <1>2, <2>2, FS_CardinalityType
<1>5. CASE jobs'[j].worker \notin {jobs[j].worker, NoWorker}
  <2> DEFINE more == Involved(j) \cup {jobs'[j].worker}
  <2>1. Involved(j)' \in SUBSET more
    BY <1>3 DEF Involved
  <2>2. IsFiniteSet(more) /\ Cardinality(more) <= Cardinality(Involved(j)) + 1
    BY <1>1, FS_AddElement
  <2>3. IsFiniteSet(Involved(j)') /\ Cardinality(Involved(j)') <= Cardinality(more)
    BY <2>1, <2>2, FS_Subset
  <2>4. attempts'[j] = attempts[j] + 1
    BY <1>5 DEF RowStep
  <2> QED BY <1>1, <2>2, <2>3, <2>4, FS_CardinalityType
<1> QED BY <1>4, <1>5

ProcessInv == JobInv /\ ProcessTypeOK /\ RunnersInv

LEMMA ProcessInvHolds == ProcessSpec => []ProcessInv
<1>1. ASSUME ProcessInit PROVE ProcessInv
  <2>1. JobInv /\ ProcessTypeOK
    BY <1>1, InitInv, ProcessInitType DEF ProcessInit
  <2>2. ASSUME NEW j \in Jobs PROVE Involved(j) = {} /\ attempts[j] = 0
    BY <1>1, NoJobAssumption DEF ProcessInit, Init, NoJobRow, Involved, Runners
  <2> QED BY <2>1, <2>2, FS_EmptySet DEF ProcessInv, RunnersInv
<1>2. ASSUME ProcessInv, [ProcessNext]_allVars PROVE ProcessInv'
  <2>1. [Next]_vars
    BY <1>2, QueueStep DEF ProcessInv, JobInv
  <2>2. JobInv' /\ \A j \in Jobs : RowStep(j)
    BY <1>2, <2>1, NextType, NextStep, RetryStep DEF ProcessInv, JobInv, GoodStep
  <2>3. /\ ProcessTypeOK'
        /\ UNCHANGED doing \/ \E w \in Workers : PlaceMove(w)
    BY <1>2, ProcessMove DEF ProcessInv
  <2>4. RunnersInv'
    BY <1>2, <2>2, <2>3, RunnersStep DEF ProcessInv, JobInv, RunnersInv
  <2> QED BY <2>2, <2>3, <2>4 DEF ProcessInv
<1> QED BY <1>1, <1>2, PTL DEF ProcessSpec

\* However many workers are lost in the middle of a job and go on with it, no
\* more processes work on the job at once than its reclaims allow.
THEOREM RunnersAreBounded == ProcessSpec => []RunnersBounded
<1>1. ASSUME ProcessInv, NEW j \in Jobs
      PROVE  Cardinality(Runners(j)) <= jobs[j].reclaims + 1
  <2>1. IsFiniteSet(Involved(j)) /\ Cardinality(Involved(j)) <= attempts[j]
    BY <1>1 DEF ProcessInv, RunnersInv
  <2>2. Runners(j) \in SUBSET Involved(j)
    BY DEF Involved
  <2>3. /\ IsFiniteSet(Runners(j))
        /\ Cardinality(Runners(j)) <= Cardinality(Involved(j))
    BY <2>1, <2>2, FS_Subset
  <2>4. Cardinality(Runners(j)) \in Nat /\ Cardinality(Involved(j)) \in Nat
    BY <2>1, <2>3, FS_CardinalityType
  <2>5. /\ attempts[j] \in Nat /\ jobs[j].reclaims \in Nat
        /\ attempts[j] <= jobs[j].reclaims + 1
    BY <1>1 DEF ProcessInv, JobInv, TypeOK, RetryInv, JobRow
  <2> QED BY <2>1, <2>3, <2>4, <2>5
<1>2. ProcessInv => RunnersBounded
  BY <1>1 DEF RunnersBounded
<1> QED BY <1>2, ProcessInvHolds, PTL
===============================================================================
