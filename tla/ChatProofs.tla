------------------------------ MODULE ChatProofs ------------------------------
(***************************************************************************)
(* What holds of conversations for every set of sessions, jobs, workers    *)
(* and requests, and every cap on the history.                             *)
(*                                                                         *)
(* 1. Lists in the order of their elements (InOrder), and lists put        *)
(*    together (FlattenSeq).  Both are defined by what they satisfy, so    *)
(*    that there are such lists is proved first.                           *)
(* 2. What a chat's turns know of it (TurnsKnowTheConversation).           *)
(* 3. The rows of a chat in the order they came (ConversationTypeCorrect). *)
(* 4. The transcript an agent reads (RepliesComeAfterMessages).            *)
(***************************************************************************)
EXTENDS ChatHistory, SessionProofs

USE DEF Workflows, Loops, SessionStatus, Active, Terminal, JobStatus, Outcomes

(***************************************************************************)
(* 1. Lists.                                                               *)
(***************************************************************************)
LEMMA LessIsWellFounded ==
    ASSUME NEW S \in SUBSET Nat, S # {}
    PROVE  \E n \in S : \A m \in S : n <= m
<1> DEFINE R == {ss \in Nat \X Nat : ss[1] < ss[2]}
<1>1. R = OpToRel(<, Nat)
  BY Zenon DEF OpToRel
<1>2. IsWellFoundedOn(R, Nat)
  BY <1>1, NatLessThanWellFounded, Zenon
<1> HIDE DEF R
<1>3. PICK n \in S : \A m \in S : ~(<<m, n>> \in R)
  BY <1>2, WFMin
<1>4. \A m \in S : m \in Nat /\ n \in Nat /\ ~(m < n)
  BY <1>3 DEF R
<1> QED
  BY <1>4

\* A set of numbers that has 0 and, with a number, the next one has them all.
LEMMA AllNumbers ==
    ASSUME NEW T \in SUBSET Nat, 0 \in T, \A n \in T : n + 1 \in T
    PROVE  T = Nat
<1> SUFFICES ASSUME T # Nat PROVE FALSE
  OBVIOUS
<1>1. PICK n \in Nat \ T : \A m \in Nat \ T : n <= m
  <2>1. Nat \ T \in SUBSET Nat /\ Nat \ T # {}
    OBVIOUS
  <2> QED
    BY <2>1, LessIsWellFounded
<1>2. n - 1 \in Nat /\ n = (n - 1) + 1
  BY <1>1
<1>3. n - 1 \in T
  BY <1>1, <1>2
<1> QED
  BY <1>1, <1>2, <1>3

\* The members of T up to x.
UpTo(T, x) == {y \in T : y <= x}

\* list holds the members of T, each once, in their order.
Sorts(list, T) ==
    /\ list \in [1 .. Cardinality(T) -> T]
    /\ \A i, k \in 1 .. Cardinality(T) : i < k => list[i] < list[k]

LEMMA UpToFacts ==
    ASSUME NEW T \in SUBSET Nat, IsFiniteSet(T), NEW x \in T
    PROVE  /\ IsFiniteSet(UpTo(T, x)) /\ x \in UpTo(T, x)
           /\ Cardinality(UpTo(T, x)) \in 1 .. Cardinality(T)
           /\ \A y \in T : x < y => Cardinality(UpTo(T, x)) < Cardinality(UpTo(T, y))
<1>1. \A y \in T : UpTo(T, y) \in SUBSET T /\ y \in UpTo(T, y)
  BY DEF UpTo
<1>2. \A y \in T : /\ IsFiniteSet(UpTo(T, y)) /\ Cardinality(UpTo(T, y)) \in Nat
                   /\ Cardinality(UpTo(T, y)) <= Cardinality(T)
  BY <1>1, FS_Subset, FS_CardinalityType
<1>3. Cardinality(UpTo(T, x)) # 0 /\ Cardinality(T) \in Nat
  BY <1>1, <1>2, FS_EmptySet, FS_CardinalityType
<1>4. ASSUME NEW y \in T, x < y
      PROVE  Cardinality(UpTo(T, x)) < Cardinality(UpTo(T, y))
  <2>0. x \in Nat /\ y \in Nat /\ (\A z \in T : z \in Nat /\ (z <= x => z <= y)) /\ ~(y <= x)
    BY <1>4
  <2>1. UpTo(T, x) \subseteq UpTo(T, y) /\ y \in UpTo(T, y) /\ y \notin UpTo(T, x)
    BY <2>0, <1>1 DEF UpTo
  <2>2. UpTo(T, x) \in SUBSET UpTo(T, y)
    BY <2>1
  <2>3. Cardinality(UpTo(T, x)) <= Cardinality(UpTo(T, y))
        /\ Cardinality(UpTo(T, x)) # Cardinality(UpTo(T, y))
    BY <1>2, <2>1, <2>2, FS_Subset
  <2> QED
    BY <1>2, <2>3
<1> QED
  BY <1>1, <1>2, <1>3, <1>4

\* A finite set of numbers can be listed in order.
LEMMA SortedExists ==
    ASSUME NEW T \in SUBSET Nat, IsFiniteSet(T)
    PROVE  \E list : Sorts(list, T)
<1> DEFINE n == Cardinality(T)
           rank == [x \in T |-> Cardinality(UpTo(T, x))]
<1>1. n \in Nat
  BY FS_CardinalityType
<1>2. rank \in [T -> 1 .. n]
  BY UpToFacts
<1>3. \A x, y \in T : x < y => rank[x] < rank[y]
  BY UpToFacts
<1> HIDE DEF rank
<1>4. rank \in Injection(T, 1 .. n)
  <2>1. \A x, y \in T : rank[x] \in Nat /\ (x # y => x < y \/ y < x)
    BY <1>2
  <2>2. \A x, y \in T : rank[x] = rank[y] => x = y
    BY <1>3, <2>1
  <2> QED
    BY <1>2, <2>2 DEF Injection, IsInjective
<1>5. IsFiniteSet(1 .. n) /\ Cardinality(1 .. n) = n
  BY <1>1, FS_Interval
<1>6. rank \in Surjection(T, 1 .. n)
  BY <1>4, <1>5, FS_Injection
<1> DEFINE list == [i \in 1 .. n |-> CHOOSE x \in T : rank[x] = i]
<1>7. \A i \in 1 .. n : list[i] \in T /\ rank[list[i]] = i
  BY <1>6 DEF Surjection
<1>8. list \in [1 .. n -> T]
  BY <1>7
<1> HIDE DEF list
<1>9. ASSUME NEW i \in 1 .. n, NEW k \in 1 .. n, i < k
      PROVE  list[i] < list[k]
  <2>1. list[i] \in T /\ list[k] \in T /\ rank[list[i]] = i /\ rank[list[k]] = k
    BY <1>7
  <2>2. i \in Nat /\ k \in Nat /\ list[i] \in Nat /\ list[k] \in Nat
    <3>1. i \in Nat /\ k \in Nat
      BY <1>1
    <3> QED
      BY <2>1, <3>1
  <2>3. list[k] < list[i] => k < i
    BY <1>3, <2>1
  <2>4. list[i] # list[k] /\ ~(list[k] < list[i])
    BY <1>9, <2>1, <2>2, <2>3
  <2> QED
    BY <2>2, <2>4
<1> QED
  BY <1>8, <1>9 DEF Sorts

LEMMA InOrderSorts ==
    ASSUME NEW T \in SUBSET Nat, IsFiniteSet(T)
    PROVE  Sorts(InOrder(T), T)
<1>1. \E list \in [1 .. Cardinality(T) -> T] :
          \A i, k \in DOMAIN list : i < k => list[i] < list[k]
  BY SortedExists DEF Sorts
<1>2. /\ InOrder(T) \in [1 .. Cardinality(T) -> T]
      /\ \A i, k \in DOMAIN InOrder(T) : i < k => InOrder(T)[i] < InOrder(T)[k]
  BY <1>1, Zenon DEF InOrder
<1> QED
  BY <1>2 DEF Sorts

\* The place of a member is the number of members up to it.
LEMMA PlaceOf ==
    ASSUME NEW T \in SUBSET Nat, IsFiniteSet(T), NEW list, Sorts(list, T),
           NEW i \in 1 .. Cardinality(T)
    PROVE  Cardinality(UpTo(T, list[i])) = i
<1> DEFINE n == Cardinality(T)
<1>1. n \in Nat /\ IsFiniteSet(1 .. n) /\ Cardinality(1 .. n) = n
  BY FS_CardinalityType, FS_Interval
<1>2. /\ list \in [1 .. n -> T]
      /\ \A j, k \in 1 .. n : j < k => list[j] < list[k]
  BY DEF Sorts
<1>3. \A j, k \in 1 .. n : list[j] \in Nat /\ (j # k => list[j] # list[k])
                           /\ (list[j] <= list[k] <=> j <= k)
  <2> TAKE j, k \in 1 .. n
  <2>1. list[j] \in T /\ list[k] \in T
    BY <1>2
  <2>3. list[j] \in Nat /\ list[k] \in Nat /\ j \in Nat /\ k \in Nat
    <3>1. j \in Nat /\ k \in Nat
      BY <1>1
    <3> QED
      BY <2>1, <3>1
  <2>2. (j < k => list[j] < list[k]) /\ (k < j => list[k] < list[j])
    BY <1>2
  <2> QED
    BY <2>2, <2>3
<1>4. list \in Injection(1 .. n, T)
  BY <1>2, <1>3 DEF Injection, IsInjective
<1>5. list \in Surjection(1 .. n, T)
  BY <1>1, <1>4, FS_Injection
<1> DEFINE part == [j \in 1 .. i |-> list[j]]
<1>6. i \in Nat /\ \A j \in 1 .. i : j \in 1 .. n /\ j <= i
  BY <1>1
<1>7. part \in [1 .. i -> UpTo(T, list[i])]
  BY <1>2, <1>3, <1>6 DEF UpTo
<1>8. \A y \in UpTo(T, list[i]) : \E j \in 1 .. i : part[j] = y
  <2> TAKE y \in UpTo(T, list[i])
  <2>1. y \in T /\ y <= list[i]
    BY DEF UpTo
  <2>2. PICK j \in 1 .. n : list[j] = y
    BY <1>5, <2>1 DEF Surjection
  <2>3. j \in 1 .. i
    BY <1>3, <1>6, <2>1, <2>2
  <2> QED
    BY <2>2, <2>3
<1>9. \A j, k \in 1 .. i : part[j] = part[k] => j = k
  BY <1>3, <1>6
<1> HIDE DEF part
<1>10. part \in Bijection(1 .. i, UpTo(T, list[i]))
  BY <1>7, <1>8, <1>9 DEF Bijection, Injection, Surjection, IsInjective
<1> QED
  BY <1>6, <1>10, FS_CountingElements DEF ExistsBijection

\* Two such lists, the second of the same members and at most one before them:
\* a member's place in the second is its place in the first, or the next.
LEMMA PlacesOfBoth ==
    ASSUME NEW A \in SUBSET Nat, NEW B \in SUBSET Nat, IsFiniteSet(A), IsFiniteSet(B),
           A \subseteq B, \A m \in B \ A : \A y \in B \ {m} : m < y,
           NEW i \in 1 .. Cardinality(A), NEW k \in 1 .. Cardinality(B),
           InOrder(A)[i] = InOrder(B)[k]
    PROVE  k - i = Cardinality(B) - Cardinality(A) /\ Cardinality(B) - Cardinality(A) \in {0, 1}
<1> DEFINE x == InOrder(A)[i]
<1>1. x \in A /\ x \in Nat
  BY InOrderSorts DEF Sorts
<1>2. Cardinality(UpTo(A, x)) = i /\ Cardinality(UpTo(B, x)) = k
  BY InOrderSorts, PlaceOf
<1>3. /\ Cardinality(A) \in Nat /\ Cardinality(B) \in Nat
      /\ i \in Nat /\ k \in Nat
  BY FS_CardinalityType
<1> HIDE DEF x
<1>4. CASE B = A
  BY <1>2, <1>3, <1>4
<1>5. CASE B # A
  <2>1. PICK m \in B \ A : TRUE
    BY <1>5
  <2>2. \A y \in B \ A : y = m
    <3> TAKE y \in B \ A
    <3>1. y # m => m < y /\ y < m /\ m \in Nat /\ y \in Nat
      OBVIOUS
    <3> QED
      BY <3>1
  <2>3. B = A \cup {m} /\ m \notin A
    <3>1. \A y : y \in B <=> y \in A \cup {m}
      BY <2>1, <2>2
    <3> QED
      BY <2>1, <3>1
  <2>4. m < x
    BY <1>1, <2>3
  <2>5. UpTo(B, x) = UpTo(A, x) \cup {m} /\ m \notin UpTo(A, x)
    BY <1>1, <2>3, <2>4 DEF UpTo
  <2>6. IsFiniteSet(UpTo(A, x))
    BY <1>1, UpToFacts
  <2>7. Cardinality(UpTo(A, x) \cup {m}) = Cardinality(UpTo(A, x)) + 1
    BY <2>5, <2>6, FS_AddElement
  <2>8. Cardinality(A \cup {m}) = Cardinality(A) + 1
    BY <2>3, FS_AddElement
  <2>9. k = i + 1 /\ Cardinality(B) = Cardinality(A) + 1
    BY <1>2, <2>3, <2>5, <2>7, <2>8
  <2> QED
    BY <1>3, <2>9
<1> QED
  BY <1>4, <1>5

\* The lists that FlattenSeq puts together exist.
Joins(f, seqs, n) ==
    f = [i \in 1 .. n |-> IF i = 1 THEN seqs[i] ELSE f[i - 1] \o seqs[i]]

LEMMA JoinsExist == ASSUME NEW seqs, NEW n \in Nat PROVE \E f : Joins(f, seqs, n)
<1> DEFINE T == {m \in Nat : \E f : Joins(f, seqs, m)}
<1>1. 0 \in T
  <2>1. Joins([i \in 1 .. 0 |-> 0], seqs, 0)
    BY DEF Joins
  <2> QED
    BY <2>1
<1>2. ASSUME NEW m \in T PROVE m + 1 \in T
  <2>1. m \in Nat
    OBVIOUS
  <2>2. PICK f : Joins(f, seqs, m)
    BY <1>2
  <2> DEFINE g == [i \in 1 .. (m + 1) |->
                     IF i = 1 THEN seqs[i] ELSE f[i - 1] \o seqs[i]]
  <2>3. ASSUME NEW i \in 1 .. m
        PROVE  g[i] = f[i]
    <3>1. f[i] = IF i = 1 THEN seqs[i] ELSE f[i - 1] \o seqs[i]
      BY <2>2 DEF Joins
    <3> QED
      BY <2>1, <3>1
  <2>4. ASSUME NEW i \in 1 .. (m + 1)
        PROVE  g[i] = IF i = 1 THEN seqs[i] ELSE g[i - 1] \o seqs[i]
    <3>1. i # 1 => i - 1 \in 1 .. m
      BY <2>1
    <3>2. i # 1 => g[i - 1] = f[i - 1]
      BY <2>3, <3>1
    <3>3. g[i] = IF i = 1 THEN seqs[i] ELSE f[i - 1] \o seqs[i]
      OBVIOUS
    <3> HIDE DEF g
    <3> QED
      BY <3>2, <3>3
  <2>5. g = [i \in 1 .. (m + 1) |-> g[i]]
    OBVIOUS
  <2> HIDE DEF g
  <2>6. Joins(g, seqs, m + 1)
    BY <2>4, <2>5 DEF Joins
  <2> QED
    BY <2>1, <2>6
<1> HIDE DEF T
<1>3. T = Nat
  <2>1. T \in SUBSET Nat
    BY DEF T
  <2> QED
    BY <1>1, <1>2, <2>1, AllNumbers
<1> QED
  BY <1>3 DEF T

LEMMA FlattenJoins ==
    ASSUME NEW seqs, NEW n \in Nat \ {0}, Len(seqs) = n
    PROVE  \E f : Joins(f, seqs, n) /\ FlattenSeq(seqs) = f[n]
<1> DEFINE flatten == CHOOSE f : f = [i \in 1 .. n |->
                        IF i = 1 THEN seqs[i] ELSE f[i - 1] \o seqs[i]]
<1>1. Joins(flatten, seqs, n)
  BY JoinsExist, Zenon DEF Joins
<1>2. FlattenSeq(seqs) = flatten[n]
  BY DEF FlattenSeq
<1> HIDE DEF flatten
<1> QED
  BY <1>1, <1>2

(***************************************************************************)
(* 2. What a turn of a chat knows of the turns before it.  Nothing that    *)
(* was stored when it was inserted is out of date while it is under way,   *)
(* because it is the only one.                                             *)
(***************************************************************************)
\* The list of no turns is empty.
LEMMA NothingInOrder == InOrder({}) = <<>>
<1>1. Cardinality({}) = 0
  BY FS_EmptySet
<1> QED
  BY <1>1 DEF InOrder

\* The queue of a chat is that of JobQueue: what is proved of Spec holds here.
THEOREM ChatUsesTheQueue == ChatSpec => Spec
<1>1. ChatInit => Init
  BY DEF ChatInit
<1>2. [ChatNext]_<<vars, chatVars>> => [Next]_vars
  BY DEF ChatNext
<1> QED
  BY <1>1, <1>2, PTL DEF ChatSpec, Spec

\* What the conversations store changes nothing of what the queue promises
\* of its sessions.
COROLLARY ChatsTakeTurns ==
    ChatSpec => ImplementsTurnTaking /\ []IterationsBounded /\ []PendingMeansUntouched
BY ChatUsesTheQueue, SessionsTakeTurns, LoopsAreBounded, PendingSessionsAreUntouched, PTL

\* A row goes only with its session.
LEMMA DeletedWithSession ==
    ASSUME TypeOK, [Next]_vars, NEW k \in Jobs, jobs'[k].status = "deleted"
    PROVE  jobs[k].status = "deleted" \/ sessions'[jobs[k].session] = "deleted"
<1> DEFINE Spared == jobs'[k].status \in {jobs[k].status, "pending", "assigned"} \cup Terminal
<1>1. Spared => jobs[k].status = "deleted"
  OBVIOUS
<1>2. jobs' = jobs => Spared
  OBVIOUS
<1>3. jobs \in [Jobs -> JobRow] /\ jobs[k] \in JobRow
  BY DEF TypeOK
<1>4. \A w \in Workers, s \in Sessions : Assign(NewRow(s), w).status = "assigned"
  BY DEF Assign, NewRow
<1>5. ASSUME NEW p \in Pulls
      PROVE  /\ Swept(p)[k] \in JobRow
             /\ Swept(p)[k].status \in {jobs[k].status, "pending", "failed"}
  BY <1>3, SweptType, FinishFields, ReclaimFields DEF Swept, Requeued, FailedRow
<1>6. ASSUME NEW s \in Sessions, DeleteSession(s)
      PROVE  jobs[k].status = "deleted" \/ sessions'[jobs[k].session] = "deleted"
  BY <1>6 DEF DeleteSession, JobsOf, TypeOK
<1>7. ASSUME NEW s \in Sessions, CreateSession(s) \/ PostInput(s)
      PROVE  Spared
  <2>1. PICK new \in SUBSET Unused :
            jobs' = [j \in Jobs |-> IF j \in new THEN NewRow(s) ELSE jobs[j]]
    BY <1>7 DEF CreateSession, PostInput
  <2> QED
    BY <1>3, <2>1, NewRowFields
<1>8. ASSUME NEW p \in Pulls, PullCommit(p)
      PROVE  Spared
  <2> DEFINE w == pulls[p].by
  <2>0. w \in Workers
    BY <1>8, PullRows DEF PullCommit
  <2> HIDE DEF w
  <2>1. CASE PullSweepOnly(p)
    BY <1>5, <2>1 DEF PullSweepOnly
  <2>2. CASE PullPromote(p)
    <3>1. PICK j \in Jobs, s \in Sessions :
              jobs' = [Swept(p) EXCEPT ![j] = Assign(NewRow(s), w)]
      BY <2>2 DEF PullPromote, RunningInbox, w
    <3> QED
      BY <1>4, <1>5, <2>0, <3>1 DEF Swept
  <2>3. CASE PullClaim(p)
    <3>1. PICK j \in Jobs : jobs' = [Swept(p) EXCEPT ![j] = Assign(@, w)]
      BY <2>3 DEF PullClaim, Queued, w
    <3> QED
      BY <1>5, <3>1, AssignFields DEF Swept
  <2> QED
    BY <1>8, <2>1, <2>2, <2>3 DEF PullCommit
<1>9. ASSUME NEW w \in Workers, RemoveCommit(w)
      PROVE  Spared
  BY <1>3, <1>9, ReclaimFields DEF RemoveCommit, Requeued, FailedRow, JobRow
<1>10. ASSUME NEW r \in Requests, RequestNext(r)
       PROVE  Spared
  <2>1. CASE CompleteLoopN(r) \/ CompleteTurn(r)
    <3>1. \E j : jobs' = [jobs EXCEPT ![j] = Finish(@, "completed")]
      BY <2>1 DEF CompleteLoopN, CompleteTurn
    <3> QED
      BY <1>3, <3>1, FinishFields
  <2>2. CASE CompleteFailed(r)
    <3>1. jobs'[k] \in {jobs[k], Finish(jobs[k], "failed")}
      BY <2>2 DEF CompleteFailed
    <3> QED
      BY <1>3, <3>1, FinishFields
  <2>3. CASE CompleteIteration(r)
    <3> DEFINE j == requests[r].job
               done == [jobs EXCEPT ![j] = Finish(@, "completed")]
    <3>1. DOMAIN done = Jobs /\ done[k].status \in {jobs[k].status, "completed"}
      <4>1. DOMAIN done = Jobs /\ done[k] \in {jobs[k], Finish(jobs[k], "completed")}
        BY <1>3
      <4> QED
        BY <1>3, <4>1, FinishFields
    <3>2. CASE IteratesAfter(r, j)
      <4>1. PICK next \in Jobs : jobs' = [done EXCEPT ![next] = NewRow(jobs[j].session)]
        BY <2>3, <3>2 DEF CompleteIteration
      <4>2. jobs'[k] \in {done[k], NewRow(jobs[j].session)}
        <5> HIDE DEF done
        <5> QED
          BY <3>1, <4>1
      <4> QED
        BY <3>1, <4>2, NewRowFields
    <3>3. CASE ~IteratesAfter(r, j)
      BY <2>3, <3>1, <3>3 DEF CompleteIteration
    <3> QED
      BY <3>2, <3>3
  <2> QED
    BY <1>2, <1>10, <2>1, <2>2, <2>3 DEF RequestNext, RequestStep, CompleteCheck, CompleteCount,
       CompleteAbort
<1>11. ASSUME NEW w \in Workers, WorkerNext(w)
       PROVE  Spared
  BY <1>2, <1>9, <1>11 DEF WorkerNext, RemoveStart, RemoveAbort, queueVars
<1> DEFINE Told == jobs[k].status = "deleted" \/ sessions'[jobs[k].session] = "deleted"
<1>12. CASE ClientNext
  <2>1. ASSUME NEW s \in Sessions, CreateSession(s) \/ PostInput(s) \/ DeleteSession(s)
        PROVE  Told
    BY <1>1, <1>6, <1>7, <2>1
  <2>2. ASSUME NEW a \in Agents, NEW t \in Tasks, PostInbox(a, t)
        PROVE  Told
    BY <1>1, <1>2, <2>2 DEF PostInbox
  <2> QED
    BY <1>12, <2>1, <2>2 DEF ClientNext
<1>13. CASE UNCHANGED vars \/ \E j \in Jobs : LeaseRunsOut(j)
  BY <1>1, <1>2, <1>13 DEF LeaseRunsOut, vars, queueVars
<1>14. CASE \E r \in Requests : RequestNext(r)
  BY <1>1, <1>10, <1>14
<1>15. CASE \E w \in Workers : WorkerNext(w)
  BY <1>1, <1>11, <1>15
<1>16. CASE \E p \in Pulls : PullNext(p)
  BY <1>1, <1>2, <1>8, <1>16, PullQuiet DEF PullNext, PullStep
<1> QED
  BY <1>12, <1>13, <1>14, <1>15, <1>16 DEF Next

\* Beside an active turn of a chat no other job of it is active, nor was.
LEMMA OnlyTurn ==
    ASSUME SessionStep, SessionInv', NEW j \in Jobs, NEW k \in Jobs, k # j,
           jobs'[j].status \in Active, Workflow[jobs'[j].session] = "chat",
           jobs[k].session = jobs'[j].session
    PROVE  jobs[k].status \notin Active
<1>1. /\ jobs[j].status \in Active \cup {"absent"}
      /\ jobs[j].status # "absent" => jobs'[j].session = jobs[j].session
      /\ jobs'[j].session \in Sessions
  BY DEF SessionStep, Rows
<1>2. CASE jobs[j].status \in Active
  BY <1>1, <1>2 DEF SessionStep, SessionInv, Single, Turns
<1>3. CASE jobs[j].status = "absent"
  <2>1. ~NoInsert
    BY <1>3 DEF NoInsert
  <2>2. ASSUME NEW s \in Sessions, NEW new \in SUBSET Jobs, Creates(s, new)
        PROVE  jobs[k].status \notin Active
    BY <1>3, <2>2 DEF Creates, Insert, SessionStep, SessionInv, Homes, Gone
  <2>3. ASSUME NEW s \in Sessions, NEW n \in Jobs, Posts(s, n) \/ Promotes(s, n)
        PROVE  jobs[k].status \notin Active
    BY <1>3, <2>3 DEF Posts, Promotes, Insert
  <2>4. ASSUME NEW i \in Jobs, NEW n \in Jobs, Iterates(i, n)
        PROVE  jobs[k].status \notin Active
    BY <1>3, <2>4 DEF Iterates, Insert
  <2> QED
    BY <2>1, <2>2, <2>3, <2>4 DEF SessionStep, Kind, Still, Deletes, Claims, Finishes
<1> QED
  BY <1>1, <1>2, <1>3

\* The completed turns beside it stay as they are.
LEMMA TurnsStand ==
    ASSUME JobInv, SessionStep, SessionInv', [Next]_vars, NEW j \in Jobs, NEW s \in Sessions,
           jobs'[j].status \in Active, jobs'[j].session = s, Workflow[s] = "chat"
    PROVE  Completed(s)' = Completed(s)
<1>1. /\ sessions'[s] \notin Gone
      /\ jobs[j].status \in Active \cup {"absent"}
  BY DEF SessionStep, Rows, SessionInv, Homes, Gone
<1>2. ASSUME NEW k \in Completed(s)
      PROVE  k \in Completed(s)'
  <2>1. k \in Jobs /\ jobs[k].session = s /\ jobs[k].status = "completed"
    BY DEF Completed, JobsOf
  <2>2. jobs'[k].session = s /\ jobs'[k].status \in {"completed", "deleted"}
    BY <2>1 DEF SessionStep, Rows
  <2>3. jobs'[k].status # "deleted"
    BY <1>1, <2>1, DeletedWithSession DEF JobInv, Gone
  <2> QED
    BY <2>1, <2>2, <2>3 DEF Completed, JobsOf
<1>3. ASSUME NEW k \in Completed(s)'
      PROVE  k \in Completed(s)
  <2>1. k \in Jobs /\ jobs'[k].session = s /\ jobs'[k].status = "completed" /\ k # j
    BY DEF Completed, JobsOf
  <2>2. jobs[k].status \in {"completed", "assigned"} /\ jobs[k].session = s
    BY <2>1, NextStep DEF JobInv, GoodStep, RowStep, RowMove, Requeued, FailedRow
  <2>3. jobs[k].status # "assigned"
    BY <2>1, <2>2, OnlyTurn
  <2> QED
    BY <2>1, <2>2, <2>3 DEF Completed, JobsOf
<1> QED
  BY <1>2, <1>3

\* A turn under way stored what is completed now, or is the first one.
Known(j) ==
    \/ inputs[j] = FollowUp(jobs[j].session)
    \/ inputs[j] = NoInput /\ Completed(jobs[j].session) = {}

ChatInv == \A j \in ActiveTurns : Known(j)

\* What a follow-up would store does not change while a turn is under way.
LEMMA SameFollowUp ==
    ASSUME ChatNext, NEW s \in Sessions, Completed(s)' = Completed(s)
    PROVE  FollowUp(s)' = FollowUp(s)
<1>1. ASSUME NEW k \in Completed(s)
      PROVE  /\ k \in Jobs /\ jobs[k].status = "completed" /\ jobs'[k].status = "completed"
  BY <1>1 DEF Completed, JobsOf
<1>2. \A k \in Completed(s) : inputs'[k] = inputs[k]
  BY <1>1 DEF ChatNext, StoresInputs
<1>3. Completed(s) \cap replied' = Completed(s) \cap replied
  BY <1>1 DEF ChatNext, StoresReplies, Answers
<1>4. {k \in Completed(s) : inputs[k].followUp}' = {k \in Completed(s) : inputs[k].followUp}
  BY <1>2
<1> QED
  BY <1>3, <1>4 DEF FollowUp, Messages, Replies

LEMMA KnownStep ==
    ASSUME JobInv, SessionInv, SessionInv', ChatInv, [ChatNext]_<<vars, chatVars>>
    PROVE  ChatInv'
<1>1. CASE UNCHANGED <<vars, chatVars>>
  BY <1>1 DEF vars, queueVars, chatVars, ChatInv, ActiveTurns, Known, FollowUp, Messages, Replies,
     Completed, JobsOf
<1>2. CASE ChatNext
  <2> SUFFICES ASSUME NEW j \in Jobs, jobs'[j].status \in Active,
                      Workflow[jobs'[j].session] = "chat"
               PROVE  Known(j)'
    BY DEF ChatInv, ActiveTurns
  <2>1. PICK s \in Sessions : s = jobs'[j].session
    BY <1>2, EachStep DEF ChatNext, SessionStep, Rows
  <2>2. SessionStep /\ [Next]_vars
    BY <1>2, EachStep DEF ChatNext
  <2>3. /\ jobs[j].status \in Active \cup {"absent"}
        /\ jobs[j].status # "absent" => jobs[j].session = s
    BY <2>2, <2>1 DEF SessionStep, Rows
  <2>4. Completed(s)' = Completed(s)
    BY <2>2, <2>1, TurnsStand
  <2>5. FollowUp(s)' = FollowUp(s)
    BY <1>2, <2>4, SameFollowUp
  <2>6. CASE jobs[j].status \in Active
    <3>1. inputs'[j] = inputs[j]
      BY <1>2, <2>6 DEF ChatNext, StoresInputs
    <3>2. Known(j)
      BY <2>1, <2>3, <2>6 DEF ChatInv, ActiveTurns
    <3> QED
      BY <2>1, <2>3, <2>4, <2>5, <2>6, <3>1, <3>2 DEF Known
  <2>7. CASE jobs[j].status = "absent"
    <3>1. inputs'[j] = IF sessions[s] # "absent" THEN FollowUp(s) ELSE NoInput
      BY <1>2, <2>1, <2>7 DEF ChatNext, StoresInputs, InputOf
    <3>2. CASE sessions[s] # "absent"
      BY <2>1, <2>5, <3>1, <3>2 DEF Known
    <3>3. CASE sessions[s] = "absent"
      <4>1. Completed(s) = {}
        BY <3>3 DEF SessionInv, Homes, Completed, JobsOf, Gone
      <4> QED
        BY <2>1, <2>4, <3>1, <3>3, <4>1 DEF Known
    <3> QED
      BY <3>2, <3>3
  <2> QED
    BY <2>3, <2>6, <2>7
<1> QED
  BY <1>1, <1>2

LEMMA ChatInvHolds == ChatSpec => [](JobInv /\ SessionInv /\ ChatInv)
<1>1. ChatInit => ChatInv
  BY DEF ChatInit, Init, NoJobRow, ChatInv, ActiveTurns
<1> QED
  BY <1>1, KnownStep, ChatUsesTheQueue, JobInvHolds, SessionInvHolds, PTL DEF ChatSpec

\* KnowsTheConversation of ChatHistory: what post_session_input stored with a
\* turn is still all that was said and answered when the turn is handed out.
THEOREM TurnsKnowTheConversation == ChatSpec => []KnowsTheConversation
<1>1. ChatInv => KnowsTheConversation
  <2> SUFFICES ASSUME NEW j \in ActiveTurns, Known(j)
               PROVE  /\ inputs[j].history = Messages(jobs[j].session)
                      /\ inputs[j].replies = Replies(jobs[j].session)
    BY DEF ChatInv, KnowsTheConversation
  <2>1. CASE inputs[j] = FollowUp(jobs[j].session)
    BY <2>1 DEF FollowUp
  <2>2. CASE inputs[j] = NoInput /\ Completed(jobs[j].session) = {}
    <3>1. Messages(jobs[j].session) = InOrder({}) /\ Replies(jobs[j].session) = InOrder({})
      BY <2>2 DEF Messages, Replies
    <3> QED
      BY <2>2, <3>1, NothingInOrder DEF NoInput
  <2> QED
    BY <2>1, <2>2 DEF Known
<1> QED
  BY <1>1, ChatInvHolds, PTL

\* WarnsWhenCut of ChatHistory: chat_history_truncated of the session's detail
\* is that of the input a pull hands out.
THEOREM WarningsAreTrue == ChatSpec => []WarnsWhenCut
<1>1. ChatInv => WarnsWhenCut
  <2> SUFFICES ASSUME NEW j \in ActiveTurns, Known(j)
               PROVE  DetailTruncated(jobs[j].session) = Handed(j).truncated
    BY DEF ChatInv, WarnsWhenCut
  <2>1. CASE inputs[j] = FollowUp(jobs[j].session)
    BY <2>1 DEF FollowUp, Handed, Capped, DetailTruncated
  <2>2. CASE inputs[j] = NoInput /\ Completed(jobs[j].session) = {}
    <3>1. Messages(jobs[j].session) = <<>> /\ Replies(jobs[j].session) = <<>>
      BY <2>2, NothingInOrder DEF Messages, Replies
    <3>2. ~TooLong(<<>>)
      BY TurnsAssumption DEF TooLong
    <3>3. DetailTruncated(jobs[j].session) = FALSE
      BY <3>1, <3>2 DEF DetailTruncated
    <3>4. Handed(j).truncated = FALSE
      BY <2>2 DEF NoInput, Handed
    <3> QED
      BY <3>3, <3>4
  <2> QED
    BY <2>1, <2>2 DEF Known
<1> QED
  BY <1>1, ChatInvHolds, PTL

(***************************************************************************)
(* 3. Rows come in the order of their ids, and the first turn of a chat is *)
(* the one that is no follow-up.                                           *)
(***************************************************************************)
\* The rows of new are inserted: of the ids that are left, the first ones.
Arrive(new) ==
    /\ new \in SUBSET Unused /\ IsFiniteSet(new)
    /\ \A j \in new, k \in Unused \ new : j < k
    /\ \A j \in Unused : j \in new <=> jobs'[j].status # "absent"

LEMMA NoneArrive == NoInsert => Arrive({})
BY FS_EmptySet DEF NoInsert, Arrive, Unused

LEMMA Arrivals ==
    ASSUME JobInv, [Next]_vars
    PROVE  \E new : Arrive(new)
<1>1. /\ TypeOK /\ LockInv /\ jobs \in [Jobs -> JobRow]
      /\ \A p \in Pulls : Swept(p) \in [Jobs -> JobRow]
  BY SweptType DEF JobInv, TypeOK
<1>2. \A p \in Pulls, j \in Jobs : jobs[j].status = "absent" => Swept(p)[j].status = "absent"
  BY <1>1, SweptFields
<1>3. ASSUME NEW s \in Sessions, CreateSession(s) \/ PostInput(s)
      PROVE  \E new : Arrive(new)
  <2>1. PICK new \in SUBSET Unused, n \in {PlannedJobs(s), 1} :
            /\ NextIds(new, n)
            /\ jobs' = [j \in Jobs |-> IF j \in new THEN NewRow(s) ELSE jobs[j]]
    BY <1>3 DEF CreateSession, PostInput
  <2>2. Arrive(new)
    BY <2>1, NewRowFields DEF NextIds, Arrive, Unused
  <2> QED
    BY <2>2
<1>4. ASSUME NEW s \in Sessions, DeleteSession(s)
      PROVE  NoInsert
  BY <1>4 DEF DeleteSession, JobsOf, NoInsert
<1>5. ASSUME NEW p \in Pulls, PullSweepOnly(p) \/ PullClaim(p)
      PROVE  NoInsert
  BY <1>1, <1>2, <1>5 DEF PullSweepOnly, PullClaim, Queued, NoInsert
<1>6. ASSUME NEW p \in Pulls, PullPromote(p)
      PROVE  \E new : Arrive(new)
  <2> DEFINE w == pulls[p].by
  <2>1. PICK s \in Sessions, j \in Jobs :
            NextIds({j}, 1) /\ jobs' = [Swept(p) EXCEPT ![j] = Assign(NewRow(s), w)]
    BY <1>6 DEF PullPromote, RunningInbox
  <2>2. jobs'[j] = Assign(NewRow(s), w) /\ \A k \in Jobs : k # j => jobs'[k] = Swept(p)[k]
    BY <1>1, <2>1
  <2>3. jobs'[j].status = "assigned"
    BY <2>2, NewRowType, AssignFields
  <2>4. Arrive({j})
    BY <1>2, <2>1, <2>2, <2>3 DEF NextIds, Arrive, Unused
  <2> QED
    BY <2>4
<1>7. ASSUME NEW r \in Requests, RequestNext(r)
      PROVE  \E new : Arrive(new)
  <2> DEFINE j == requests[r].job
             done == [jobs EXCEPT ![j] = Finish(@, "completed")]
  <2>1. CASE CompleteLoopN(r) \/ CompleteTurn(r) \/ CompleteIteration(r)
    <3>1. j \in Jobs /\ jobs[j].status = "assigned"
      <4>1. CASE CompleteLoopN(r)
        BY <1>1, <4>1, RequestRows, TxAssumption
        DEF CompleteLoopN, LockInv, CountedIsLocked, LockedIsAssigned
      <4>2. CASE CompleteTurn(r) \/ CompleteIteration(r)
        BY <1>1, <4>2, RequestRows DEF CompleteTurn, CompleteIteration, Updatable
      <4> QED
        BY <2>1, <4>1, <4>2
    <3>2. DOMAIN done = Jobs /\ \A k \in Jobs : k # j => done[k] = jobs[k]
      BY <1>1
    <3>3. jobs' = done => NoInsert
      BY <3>1, <3>2 DEF NoInsert
    <3> HIDE DEF done
    <3>4. ASSUME NEW next \in Jobs, NextIds({next}, 1), NEW s \in Sessions,
                 jobs' = [done EXCEPT ![next] = NewRow(s)]
          PROVE  Arrive({next})
      <4>1. jobs'[next] = NewRow(s) /\ \A k \in Jobs : k # next => jobs'[k] = done[k]
        BY <3>2, <3>4
      <4>2. jobs'[next].status = "pending"
        BY <4>1, NewRowFields
      <4> QED
        BY <3>1, <3>2, <3>4, <4>1, <4>2 DEF NextIds, Arrive, Unused
    <3>5. jobs[j].session \in Sessions
      BY <1>1, <3>1 DEF JobRow
    <3>6. \/ jobs' = done
          \/ \E next \in Jobs : NextIds({next}, 1)
                                /\ jobs' = [done EXCEPT ![next] = NewRow(jobs[j].session)]
      BY <2>1, Zenon DEF CompleteLoopN, CompleteTurn, CompleteIteration, done
    <3> QED
      BY <3>3, <3>4, <3>5, <3>6, NoneArrive
  <2>2. CASE CompleteFailed(r)
    <3>1. \A k \in Jobs : jobs[k].status = "absent" => jobs'[k] = jobs[k]
      BY <2>2 DEF CompleteFailed, Updatable
    <3> QED
      BY <3>1, NoneArrive DEF NoInsert
  <2>3. CASE jobs' = jobs
    BY <2>3, NoneArrive DEF NoInsert
  <2> QED
    BY <1>7, <2>1, <2>2, <2>3 DEF RequestNext, RequestStep, CompleteCheck, CompleteCount,
       CompleteAbort
<1>8. ASSUME NEW w \in Workers, RemoveCommit(w)
      PROVE  NoInsert
  <2>1. \A j \in Jobs : jobs[j].status = "absent" => jobs'[j] = jobs[j]
    BY <1>1, <1>8, TxAssumption DEF RemoveCommit, HeldBy, LockInv, LockedIsAssigned
  <2> QED
    BY <2>1 DEF NoInsert
<1>9. jobs' = jobs => NoInsert
  BY DEF NoInsert
<1>10. ASSUME NEW w \in Workers, WorkerNext(w)
       PROVE  \E new : Arrive(new)
  BY <1>8, <1>9, <1>10, NoneArrive DEF WorkerNext, RemoveStart, RemoveAbort, queueVars
<1>11. ASSUME ClientNext
       PROVE  \E new : Arrive(new)
  <2>1. (\E a \in Agents, t \in Tasks : PostInbox(a, t)) => NoInsert
    BY <1>9 DEF PostInbox
  <2> QED
    BY <1>3, <1>4, <1>11, <2>1, NoneArrive DEF ClientNext
<1>12. ASSUME NEW p \in Pulls, PullNext(p)
       PROVE  \E new : Arrive(new)
  BY <1>5, <1>6, <1>9, <1>12, NoneArrive, PullQuiet DEF PullNext, PullStep, PullCommit
<1> QED
  BY <1>7, <1>9, <1>10, <1>11, <1>12, NoneArrive DEF Next, LeaseRunsOut, vars, queueVars

\* The rows there are, or were, are finitely many, and come before the others.
IdsInv ==
    /\ IsFiniteSet(Jobs \ Unused)
    /\ \A j \in Jobs \ Unused, k \in Unused : j < k

LEMMA IdsStep ==
    ASSUME JobInv, IdsInv, [Next]_vars
    PROVE  IdsInv'
<1>1. PICK new : Arrive(new)
  BY Arrivals
<1>2. \A j \in Jobs : jobs[j].status # "absent" => jobs'[j].status # "absent"
  BY NextStep DEF JobInv, GoodStep, RowStep, RowMove, Requeued, FailedRow
<1>3. Unused' = Unused \ new /\ Jobs \ Unused' = (Jobs \ Unused) \cup new
  BY <1>1, <1>2 DEF Arrive, Unused
<1>4. IsFiniteSet(Jobs \ Unused')
  <2>1. IsFiniteSet(new) /\ IsFiniteSet(Jobs \ Unused)
    BY <1>1 DEF Arrive, IdsInv
  <2>2. IsFiniteSet((Jobs \ Unused) \cup new)
    BY <2>1, FS_Union
  <2> QED
    BY <1>3, <2>2
<1>5. \A j \in (Jobs \ Unused) \cup new, k \in Unused \ new : j < k
  BY <1>1 DEF Arrive, IdsInv
<1> QED
  BY <1>3, <1>4, <1>5 DEF IdsInv

\* Beside a job that is no follow-up a chat has only later ones.
FirstInv ==
    \A j, k \in Jobs :
        /\ jobs[j].status \notin Gone /\ jobs[k].status \notin Gone /\ j # k
        /\ jobs[j].session = jobs[k].session /\ Workflow[jobs[j].session] = "chat"
        /\ ~inputs[j].followUp
        => j < k

LEMMA FirstStep ==
    ASSUME JobInv, SessionInv, IdsInv, FirstInv, ChatNext
    PROVE  FirstInv'
<1>1. SessionStep
  BY EachStep DEF ChatNext
<1> SUFFICES ASSUME NEW j \in Jobs, NEW k \in Jobs, j # k,
                    jobs'[j].status \notin Gone, jobs'[k].status \notin Gone,
                    jobs'[j].session = jobs'[k].session, Workflow[jobs'[j].session] = "chat",
                    ~inputs'[j].followUp
             PROVE  j < k
  BY DEF FirstInv
<1>2. PICK s \in Sessions : s = jobs'[j].session
  BY <1>1 DEF SessionStep, Rows
<1>3. \A i \in {j, k} : /\ jobs[i].status = "absent" \/ jobs[i].status \notin Gone
                        /\ jobs[i].status \notin Gone => jobs[i].session = s
  BY <1>1, <1>2 DEF SessionStep, Rows, Gone
<1>4. CASE jobs[j].status \notin Gone /\ jobs[k].status \notin Gone
  <2>1. inputs'[j] = inputs[j]
    BY <1>4 DEF ChatNext, StoresInputs, Gone
  <2> QED
    BY <1>2, <1>3, <1>4, <2>1 DEF FirstInv
<1>5. CASE jobs[j].status = "absent" /\ jobs[k].status \notin Gone
  <2>1. sessions[s] # "absent"
    BY <1>3, <1>5 DEF SessionInv, Homes, Gone
  <2>2. inputs'[j] = FollowUp(s)
    BY <1>2, <1>5, <2>1 DEF ChatNext, StoresInputs, InputOf, Gone
  <2> QED
    BY <2>2 DEF FollowUp
<1>6. CASE jobs[j].status \notin Gone /\ jobs[k].status = "absent"
  BY <1>6 DEF IdsInv, Unused, Gone
<1>7. CASE jobs[j].status = "absent" /\ jobs[k].status = "absent"
  <2>1. ~NoInsert
    BY <1>7 DEF NoInsert, Gone
  <2>2. ASSUME NEW t \in Sessions, NEW new \in SUBSET Jobs, Creates(t, new)
        PROVE  j = k
    <3>1. j \in new /\ k \in new /\ s = t
      BY <1>2, <1>7, <2>2 DEF Creates, Insert, Gone
    <3> QED
      BY <1>2, <2>2, <3>1 DEF Creates, Turns
  <2>3. ASSUME NEW t \in Sessions, NEW n \in Jobs, Insert({n}, t)
        PROVE  j = k
    BY <1>7, <2>3 DEF Insert, Gone
  <2>4. ASSUME NEW i \in Jobs, NEW n \in Jobs, Iterates(i, n)
        PROVE  j = k
    BY <1>7, <2>4 DEF Iterates, Insert, Gone
  <2> QED
    BY <1>1, <2>1, <2>2, <2>3, <2>4
    DEF SessionStep, Kind, Still, Posts, Promotes, Deletes, Claims, Finishes
<1> QED
  BY <1>3, <1>4, <1>5, <1>6, <1>7

\* A list in order is a sequence of its members.
LEMMA SortedIsSeq ==
    ASSUME NEW S, NEW T \in SUBSET S, NEW n \in Nat, n = Cardinality(T), NEW list, Sorts(list, T)
    PROVE  list \in Seq(S) /\ Len(list) = n
<1>1. list \in [1 .. n -> S]
  BY DEF Sorts
<1> QED
  BY <1>1

\* The turns that completed are rows, so there are finitely many.
LEMMA TurnsFinite ==
    ASSUME IdsInv, NEW s \in Sessions
    PROVE  /\ Completed(s) \in SUBSET Jobs /\ Jobs \subseteq Nat
           /\ \A T \in SUBSET Completed(s) : IsFiniteSet(T)
<1>1. Completed(s) \in SUBSET (Jobs \ Unused)
  BY DEF Completed, JobsOf, Unused
<1> QED
  BY <1>1, FS_Subset, OrderAssumption DEF IdsInv

LEMMA FollowUpType ==
    ASSUME IdsInv, NEW s \in Sessions
    PROVE  FollowUp(s) \in Input
<1>1. \A T \in SUBSET Completed(s) : InOrder(T) \in Seq(Jobs)
  <2> TAKE T \in SUBSET Completed(s)
  <2>1. T \in SUBSET Jobs /\ T \in SUBSET Nat /\ IsFiniteSet(T)
    BY TurnsFinite
  <2>2. PICK n \in Nat : n = Cardinality(T)
    BY <2>1, FS_CardinalityType
  <2> QED
    BY <2>1, <2>2, InOrderSorts, SortedIsSeq
<1>2. Messages(s) \in Seq(Jobs) /\ Replies(s) \in Seq(Jobs)
  BY <1>1 DEF Messages, Replies
<1> QED
  BY <1>2 DEF FollowUp, Input

LEMMA ChatTypeStep ==
    ASSUME JobInv, IdsInv, ChatTypeOK, ChatNext
    PROVE  ChatTypeOK'
<1>1. Rows
  BY RowsOfStep DEF ChatNext
<1>2. \A s \in Sessions : FollowUp(s) \in Input
  BY FollowUpType
<1>3. NoInput \in Input
  BY DEF NoInput, Input
<1>4. inputs' \in [Jobs -> Input]
  <2>1. \A j \in Jobs : InputOf(j) \in Input
    <3> TAKE j \in Jobs
    <3>1. PICK s \in Sessions : s = jobs'[j].session
      BY <1>1 DEF Rows
    <3>2. InputOf(j) = IF sessions[s] # "absent" /\ Workflow[s] \in {"chat", "inbox"}
                       THEN FollowUp(s) ELSE NoInput
      BY <3>1 DEF InputOf
    <3> QED
      BY <1>2, <1>3, <3>2
  <2> QED
    BY <1>3, <2>1 DEF ChatNext, StoresInputs, ChatTypeOK
<1>5. replied' \subseteq {j \in Jobs : jobs'[j].status = "completed"}
  BY <1>1 DEF ChatNext, StoresReplies, Answers, ChatTypeOK, Rows
<1> QED
  BY <1>4, <1>5 DEF ChatTypeOK

ConversationInv == ChatInv /\ IdsInv /\ FirstInv /\ ChatTypeOK

LEMMA ConversationHolds == ChatSpec => [](JobInv /\ SessionInv /\ ConversationInv)
<1>1. ChatInit => IdsInv /\ FirstInv /\ ChatTypeOK
  <2> SUFFICES ASSUME ChatInit PROVE IdsInv /\ FirstInv /\ ChatTypeOK
    OBVIOUS
  <2>1. \A j \in Jobs : jobs[j].status = "absent"
    BY DEF ChatInit, Init, NoJobRow
  <2>2. Jobs \ Unused = {}
    BY <2>1 DEF Unused
  <2>3. IdsInv /\ FirstInv
    BY <2>1, <2>2, FS_EmptySet DEF IdsInv, FirstInv, Gone
  <2>4. ChatTypeOK
    BY DEF ChatInit, ChatTypeOK, NoInput, Input
  <2> QED
    BY <2>3, <2>4
<1>2. JobInv /\ SessionInv /\ IdsInv /\ FirstInv /\ ChatTypeOK /\ [ChatNext]_<<vars, chatVars>>
        => (IdsInv /\ FirstInv /\ ChatTypeOK)'
  <2>1. UNCHANGED <<vars, chatVars>> /\ IdsInv /\ FirstInv /\ ChatTypeOK =>
            (IdsInv /\ FirstInv /\ ChatTypeOK)'
    BY DEF vars, queueVars, chatVars, IdsInv, FirstInv, ChatTypeOK, Unused
  <2>2. JobInv /\ SessionInv /\ IdsInv /\ FirstInv /\ ChatTypeOK /\ ChatNext =>
            (IdsInv /\ FirstInv /\ ChatTypeOK)'
    BY IdsStep, FirstStep, ChatTypeStep DEF ChatNext
  <2> QED
    BY <2>1, <2>2
<1> QED
  BY <1>1, <1>2, ChatInvHolds, PTL DEF ChatSpec, ConversationInv

\* ChatTypeOK of ChatHistory: what a row stores is an input, its lists are
\* finite sequences of jobs (chat_histories_for_session), and only completed
\* jobs have a reply.
THEOREM ConversationTypeCorrect == ChatSpec => []ChatTypeOK
BY ConversationHolds, PTL DEF ConversationInv

(***************************************************************************)
(* 4. The transcript.                                                      *)
(***************************************************************************)
LEMMA Concatenated ==
    ASSUME NEW S, NEW p \in Seq(S), NEW q \in Seq(S)
    PROVE  /\ p \o q \in Seq(S) /\ Len(p \o q) = Len(p) + Len(q)
           /\ \A x \in 1 .. Len(p) : (p \o q)[x] = p[x]
           /\ \A x \in 1 .. Len(q) : (p \o q)[Len(p) + x] = q[x]
OBVIOUS

\* A list that is too long loses its oldest entries.
LEMMA KeepLastFacts ==
    ASSUME NEW S, NEW list \in Seq(S)
    PROVE  \E cut \in Nat : /\ cut = IF TooLong(list) THEN Len(list) - MaxTurns ELSE 0
                            /\ KeepLast(list) \in Seq(S)
                            /\ Len(KeepLast(list)) = Len(list) - cut
                            /\ \A i \in 1 .. Len(KeepLast(list)) :
                                  i + cut \in 1 .. Len(list) /\ KeepLast(list)[i] = list[i + cut]
<1>1. MaxTurns \in Nat /\ Len(list) \in Nat
  BY TurnsAssumption
<1>2. CASE TooLong(list)
  <2>1. Len(list) - MaxTurns \in Nat /\ MaxTurns > 0 /\ MaxTurns < Len(list)
    BY <1>1, <1>2 DEF TooLong
  <2> DEFINE cut == Len(list) - MaxTurns
  <2>2. KeepLast(list) = SubSeq(list, cut + 1, Len(list))
    BY <1>2 DEF KeepLast
  <2>3. cut \in Nat /\ cut + 1 \in 1 .. Len(list) /\ MaxTurns = Len(list) - cut
    BY <1>1, <2>1
  <2> HIDE DEF cut
  <2>4. /\ KeepLast(list) \in Seq(S) /\ Len(KeepLast(list)) = Len(list) - cut
        /\ \A i \in 1 .. Len(KeepLast(list)) :
              i + cut \in 1 .. Len(list) /\ KeepLast(list)[i] = list[i + cut]
    BY <1>1, <2>2, <2>3
  <2> QED
    BY <1>2, <2>3, <2>4 DEF cut
<1>3. CASE ~TooLong(list)
  <2>1. KeepLast(list) = list
    BY <1>3 DEF KeepLast
  <2>2. \A i \in 1 .. Len(list) : i + 0 = i
    BY <1>1
  <2> QED
    BY <1>1, <1>3, <2>1, <2>2
<1> QED
  BY <1>2, <1>3

\* Where a turn's message is in the one list, its reply is there or later in
\* the other.
Aligned(history, replies) ==
    \A i \in 1 .. Len(history), k \in 1 .. Len(replies) : history[i] = replies[k] => i <= k

LEMMA CutsDiffer ==
    ASSUME NEW m \in Nat, NEW k \in Nat, NEW n \in Nat, NEW a, NEW b, n - k \in {0, 1},
           a = IF m > 0 /\ k > m THEN k - m ELSE 0, b = IF m > 0 /\ n > m THEN n - m ELSE 0
    PROVE  b - a <= n - k
OBVIOUS

\* Cutting each list by its own length does not bring a reply forward: the
\* longer list, which has one entry more at its front, loses at most one more.
LEMMA CutsKeepAligned ==
    ASSUME NEW h \in Seq(Jobs), NEW r \in Seq(Jobs),
           \A i \in 1 .. Len(h), k \in 1 .. Len(r) : h[i] = r[k] =>
               k - i = Len(r) - Len(h) /\ Len(r) - Len(h) \in {0, 1}
    PROVE  Aligned(KeepLast(h), KeepLast(r))
<1> SUFFICES ASSUME NEW i \in 1 .. Len(KeepLast(h)), NEW k \in 1 .. Len(KeepLast(r)),
                    KeepLast(h)[i] = KeepLast(r)[k]
             PROVE  i <= k
  BY DEF Aligned
<1>1. PICK a \in Nat : /\ a = IF TooLong(h) THEN Len(h) - MaxTurns ELSE 0
                       /\ i + a \in 1 .. Len(h) /\ KeepLast(h)[i] = h[i + a]
  BY KeepLastFacts
<1>2. PICK b \in Nat : /\ b = IF TooLong(r) THEN Len(r) - MaxTurns ELSE 0
                       /\ k + b \in 1 .. Len(r) /\ KeepLast(r)[k] = r[k + b]
  BY KeepLastFacts
<1>3. /\ (k + b) - (i + a) = Len(r) - Len(h)
      /\ Len(r) - Len(h) \in {0, 1}
  BY <1>1, <1>2
<1>4. /\ MaxTurns \in Nat /\ Len(h) \in Nat /\ Len(r) \in Nat
      /\ i \in Nat /\ k \in Nat
  <2>1. Len(KeepLast(h)) \in Nat /\ Len(KeepLast(r)) \in Nat
    BY KeepLastFacts
  <2> QED
    BY <2>1, TurnsAssumption
<1>5. b - a <= Len(r) - Len(h)
  BY <1>1, <1>2, <1>3, <1>4, CutsDiffer DEF TooLong
<1> QED
  BY <1>3, <1>4, <1>5

\* What is said in a conversation.
Said == {"User", "Assistant"} \X Jobs

\* What compose_prompt writes for the i-th entries.
Piece(h, r, i) == Line(h, i, User) \o Line(r, i, Assistant)

LEMMA PieceFacts ==
    ASSUME NEW h \in Seq(Jobs), NEW r \in Seq(Jobs), NEW i \in Nat \ {0}
    PROVE  \E q \in Seq(Said) :
               /\ q = Piece(h, r, i)
               /\ \A x \in 1 .. Len(q) : \/ i <= Len(h) /\ q[x] = User(h[i])
                                         \/ i <= Len(r) /\ q[x] = Assistant(r[i])
               /\ \A x, y \in 1 .. Len(q) : q[x][1] = "Assistant" /\ q[y][1] = "User" => y < x
<1> DEFINE u == Line(h, i, User)
           a == Line(r, i, Assistant)
<1>1. /\ u \in Seq(Said) /\ Len(u) \in {0, 1}
      /\ \A x \in 1 .. Len(u) : i <= Len(h) /\ u[x] = User(h[i]) /\ u[x][1] = "User"
  <2>1. CASE i <= Len(h)
    <3>1. i \in 1 .. Len(h) /\ h[i] \in Jobs
      BY <2>1
    <3>2. User(h[i]) \in Said /\ User(h[i])[1] = "User"
      BY <3>1 DEF User, Said
    <3>3. u = <<User(h[i])>>
      BY <2>1 DEF Line
    <3> QED
      BY <2>1, <3>2, <3>3
  <2>2. CASE ~(i <= Len(h))
    BY <2>2 DEF Line
  <2> QED
    BY <2>1, <2>2
<1>2. /\ a \in Seq(Said) /\ Len(a) \in {0, 1}
      /\ \A x \in 1 .. Len(a) : i <= Len(r) /\ a[x] = Assistant(r[i]) /\ a[x][1] = "Assistant"
  <2>1. CASE i <= Len(r)
    <3>1. i \in 1 .. Len(r) /\ r[i] \in Jobs
      BY <2>1
    <3>2. Assistant(r[i]) \in Said /\ Assistant(r[i])[1] = "Assistant"
      BY <3>1 DEF Assistant, Said
    <3>3. a = <<Assistant(r[i])>>
      BY <2>1 DEF Line
    <3> QED
      BY <2>1, <3>2, <3>3
  <2>2. CASE ~(i <= Len(r))
    BY <2>2 DEF Line
  <2> QED
    BY <2>1, <2>2
<1>3. Piece(h, r, i) = u \o a
  BY DEF Piece
<1> HIDE DEF u, a
<1>4. /\ u \o a \in Seq(Said) /\ Len(u \o a) = Len(u) + Len(a)
      /\ \A x \in 1 .. Len(u) : (u \o a)[x] = u[x]
      /\ \A x \in 1 .. Len(a) : (u \o a)[Len(u) + x] = a[x]
  BY <1>1, <1>2, Concatenated
<1>5. ASSUME NEW x \in 1 .. Len(u \o a)
      PROVE  \/ x <= Len(u) /\ (u \o a)[x] = u[x] /\ x \in 1 .. Len(u)
             \/ /\ x > Len(u) /\ (u \o a)[x] = a[x - Len(u)] /\ x - Len(u) \in 1 .. Len(a)
  <2>1. x \in Nat /\ Len(u) \in Nat /\ Len(a) \in Nat
    BY <1>1, <1>2, <1>4
  <2>2. CASE x <= Len(u)
    BY <1>4, <2>1, <2>2
  <2>3. CASE x > Len(u)
    <3>1. x - Len(u) \in 1 .. Len(a) /\ Len(u) + (x - Len(u)) = x
      BY <1>4, <2>1, <2>3
    <3> QED
      BY <1>4, <2>3, <3>1
  <2> QED
    BY <2>1, <2>2, <2>3
<1>6. ASSUME NEW x \in 1 .. Len(u \o a), NEW y \in 1 .. Len(u \o a),
             (u \o a)[x][1] = "Assistant", (u \o a)[y][1] = "User"
      PROVE  y < x
  <2>1. x > Len(u)
    BY <1>1, <1>5, <1>6
  <2>2. y <= Len(u)
    BY <1>2, <1>5, <1>6
  <2>3. x \in Int /\ y \in Int /\ Len(u) \in Int
    BY <1>1
  <2> QED
    BY <2>1, <2>2, <2>3
<1>7. ASSUME NEW x \in 1 .. Len(u \o a)
      PROVE  \/ i <= Len(h) /\ (u \o a)[x] = User(h[i])
             \/ i <= Len(r) /\ (u \o a)[x] = Assistant(r[i])
  BY <1>1, <1>2, <1>5
<1> QED
  BY <1>3, <1>4, <1>6, <1>7

\* The transcript of the first n entries of both lists.
Written(h, r, lines, n) ==
    /\ lines \in Seq(Said)
    /\ \A x \in 1 .. Len(lines) : \E i \in 1 .. n :
          \/ i <= Len(h) /\ lines[x] = User(h[i])
          \/ i <= Len(r) /\ lines[x] = Assistant(r[i])
    /\ \A x, y \in 1 .. Len(lines) :
          lines[x][1] = "Assistant" /\ lines[y] = User(lines[x][2]) => y < x

LEMMA FirstWritten ==
    ASSUME NEW h \in Seq(Jobs), NEW r \in Seq(Jobs)
    PROVE  Written(h, r, Piece(h, r, 1), 1)
<1>1. PICK q \in Seq(Said) :
          /\ q = Piece(h, r, 1)
          /\ \A x \in 1 .. Len(q) : \/ 1 <= Len(h) /\ q[x] = User(h[1])
                                    \/ 1 <= Len(r) /\ q[x] = Assistant(r[1])
          /\ \A x, y \in 1 .. Len(q) : q[x][1] = "Assistant" /\ q[y][1] = "User" => y < x
  BY PieceFacts
<1>2. \A x \in 1 .. Len(q) : \E i \in 1 .. 1 :
          \/ i <= Len(h) /\ q[x] = User(h[i])
          \/ i <= Len(r) /\ q[x] = Assistant(r[i])
  BY <1>1
<1>3. \A x, y \in 1 .. Len(q) : q[x][1] = "Assistant" /\ q[y] = User(q[x][2]) => y < x
  BY <1>1 DEF User
<1> QED
  BY <1>1, <1>2, <1>3 DEF Written

LEMMA NextWritten ==
    ASSUME NEW h \in Seq(Jobs), NEW r \in Seq(Jobs), Aligned(h, r),
           NEW n \in Nat, NEW p, Written(h, r, p, n)
    PROVE  Written(h, r, p \o Piece(h, r, n + 1), n + 1)
<1>1. PICK q \in Seq(Said) :
          /\ q = Piece(h, r, n + 1)
          /\ \A x \in 1 .. Len(q) : \/ n + 1 <= Len(h) /\ q[x] = User(h[n + 1])
                                    \/ n + 1 <= Len(r) /\ q[x] = Assistant(r[n + 1])
          /\ \A x, y \in 1 .. Len(q) : q[x][1] = "Assistant" /\ q[y][1] = "User" => y < x
  <2>1. n + 1 \in Nat \ {0}
    OBVIOUS
  <2> QED
    BY <2>1, PieceFacts
<1>2. PICK s \in Seq(Said) : s = p
  BY DEF Written
<1>3. PICK pq \in Seq(Said) : /\ pq = p \o q /\ Len(pq) = Len(p) + Len(q)
                              /\ \A x \in 1 .. Len(p) : pq[x] = p[x]
                              /\ \A x \in 1 .. Len(q) : pq[Len(p) + x] = q[x]
  <2>1. /\ s \o q \in Seq(Said) /\ Len(s \o q) = Len(s) + Len(q)
        /\ \A x \in 1 .. Len(s) : (s \o q)[x] = s[x]
        /\ \A x \in 1 .. Len(q) : (s \o q)[Len(s) + x] = q[x]
    BY Concatenated
  <2> QED
    BY <1>2, <2>1
<1>4. Len(p) \in Nat /\ Len(q) \in Nat /\ Len(pq) \in Nat
  BY <1>2
<1>5. ASSUME NEW x \in 1 .. Len(pq)
      PROVE  /\ x \in Nat
             /\ x <= Len(p) => x \in 1 .. Len(p) /\ pq[x] = p[x]
             /\ x > Len(p) => x - Len(p) \in 1 .. Len(q) /\ pq[x] = q[x - Len(p)]
  <2>1. CASE x <= Len(p)
    BY <1>3, <1>4, <2>1
  <2>2. CASE x > Len(p)
    <3>1. x - Len(p) \in 1 .. Len(q) /\ Len(p) + (x - Len(p)) = x
      BY <1>3, <1>4, <2>2
    <3> QED
      BY <1>3, <1>4, <2>2, <3>1
  <2> QED
    BY <1>4, <2>1, <2>2
<1>6. ASSUME NEW x \in 1 .. Len(pq)
      PROVE  \E i \in 1 .. (n + 1) : \/ i <= Len(h) /\ pq[x] = User(h[i])
                                     \/ i <= Len(r) /\ pq[x] = Assistant(r[i])
  <2>1. CASE x \in 1 .. Len(p) /\ pq[x] = p[x]
    <3>1. PICK i \in 1 .. n : \/ i <= Len(h) /\ p[x] = User(h[i])
                              \/ i <= Len(r) /\ p[x] = Assistant(r[i])
      BY <2>1 DEF Written
    <3>2. i \in 1 .. (n + 1)
      OBVIOUS
    <3> QED
      BY <2>1, <3>1, <3>2
  <2>2. CASE x - Len(p) \in 1 .. Len(q) /\ pq[x] = q[x - Len(p)]
    BY <1>1, <2>2
  <2> QED
    BY <1>4, <1>5, <2>1, <2>2
<1>7. ASSUME NEW x \in 1 .. Len(pq), NEW y \in 1 .. Len(pq),
             pq[x][1] = "Assistant", pq[y] = User(pq[x][2])
      PROVE  y < x
  <2>1. CASE x <= Len(p) /\ y <= Len(p)
    <3>1. x \in 1 .. Len(p) /\ pq[x] = p[x] /\ y \in 1 .. Len(p) /\ pq[y] = p[y]
      BY <1>5, <2>1
    <3> QED
      BY <1>7, <3>1 DEF Written
  <2>2. CASE x <= Len(p) /\ y > Len(p)
    <3>1. x \in 1 .. Len(p) /\ pq[x] = p[x] /\ y - Len(p) \in 1 .. Len(q)
          /\ pq[y] = q[y - Len(p)]
      BY <1>5, <2>2
    <3>2. PICK i \in 1 .. n : i <= Len(r) /\ p[x] = Assistant(r[i])
      BY <1>7, <3>1 DEF Written, User
    <3>3. n + 1 <= Len(h) /\ pq[y] = User(h[n + 1])
      BY <1>1, <1>7, <3>1 DEF User, Assistant
    <3>4. h[n + 1] = r[i]
      BY <1>7, <3>1, <3>2, <3>3 DEF User, Assistant
    <3>5. n + 1 \in 1 .. Len(h) /\ i \in 1 .. Len(r)
      BY <3>2, <3>3
    <3>6. n + 1 <= i
      BY <3>4, <3>5 DEF Aligned
    <3> QED
      BY <3>6
  <2>3. CASE x > Len(p) /\ y <= Len(p)
    BY <1>4, <1>5, <2>3
  <2>4. CASE x > Len(p) /\ y > Len(p)
    <3>1. /\ x - Len(p) \in 1 .. Len(q) /\ pq[x] = q[x - Len(p)]
          /\ y - Len(p) \in 1 .. Len(q) /\ pq[y] = q[y - Len(p)]
      BY <1>5, <2>4
    <3>2. pq[y][1] = "User"
      BY <1>7 DEF User
    <3>3. y - Len(p) < x - Len(p)
      BY <1>1, <1>7, <3>1, <3>2
    <3> QED
      BY <1>4, <1>5, <3>3
  <2> QED
    BY <1>4, <1>5, <2>1, <2>2, <2>3, <2>4
<1> QED
  BY <1>1, <1>3, <1>6, <1>7 DEF Written

\* In a transcript of aligned lists no reply precedes its message.
LEMMA TranscriptOrder ==
    ASSUME NEW h \in Seq(Jobs), NEW r \in Seq(Jobs), Aligned(h, r),
           NEW input, input.history = h, input.replies = r
    PROVE  \A x, y \in DOMAIN Transcript(input) :
               /\ Transcript(input)[x][1] = "Assistant"
               /\ Transcript(input)[y] = User(Transcript(input)[x][2])
               => y < x
<1> DEFINE n == Len(h) + Len(r)
           seqs == [i \in 1 .. n |-> Piece(h, r, i)]
<1>1. n \in Nat /\ Len(seqs) = n
  OBVIOUS
<1>2. Transcript(input) = FlattenSeq(seqs)
  BY DEF Transcript, Piece
<1>3. CASE n = 0
  <2>1. FlattenSeq(seqs) = seqs
    BY <1>1, <1>3 DEF FlattenSeq
  <2>2. DOMAIN Transcript(input) = {}
    BY <1>2, <1>3, <2>1
  <2> QED
    BY <2>2
<1>4. CASE n # 0
  <2>1. \A i \in 1 .. n : seqs[i] = Piece(h, r, i)
    OBVIOUS
  <2> HIDE DEF n, seqs
  <2>2. PICK f : Joins(f, seqs, n) /\ FlattenSeq(seqs) = f[n]
    BY <1>1, <1>4, FlattenJoins
  <2>3. \A i \in 1 .. n : f[i] = IF i = 1 THEN Piece(h, r, i) ELSE f[i - 1] \o Piece(h, r, i)
    BY <2>1, <2>2 DEF Joins
  <2> DEFINE T == {m \in Nat : m + 1 <= n => Written(h, r, f[m + 1], m + 1)}
  <2>4. 0 \in T
    <3>1. f[1] = Piece(h, r, 1)
      BY <1>1, <1>4, <2>3
    <3> QED
      BY <3>1, FirstWritten
  <2>5. ASSUME NEW m \in T PROVE m + 1 \in T
    <3>1. m \in Nat /\ m + 1 \in Nat /\ (m + 1) + 1 \in Nat
      OBVIOUS
    <3>2. ASSUME (m + 1) + 1 <= n
          PROVE  Written(h, r, f[(m + 1) + 1], (m + 1) + 1)
      <4>1. Written(h, r, f[m + 1], m + 1)
        BY <1>1, <2>5, <3>1, <3>2
      <4>2. (m + 1) + 1 \in 1 .. n /\ (m + 1) + 1 # 1 /\ ((m + 1) + 1) - 1 = m + 1
        BY <1>1, <3>1, <3>2
      <4>3. f[(m + 1) + 1] = f[m + 1] \o Piece(h, r, (m + 1) + 1)
        BY <2>3, <4>2
      <4> QED
        BY <3>1, <4>1, <4>3, NextWritten
    <3> QED
      BY <3>1, <3>2
  <2> HIDE DEF T
  <2>6. T = Nat
    <3>1. T \in SUBSET Nat
      BY DEF T
    <3> QED
      BY <2>4, <2>5, <3>1, AllNumbers
  <2>7. Written(h, r, f[n], n)
    <3>1. n - 1 \in T /\ (n - 1) + 1 = n
      BY <1>1, <1>4, <2>6
    <3> QED
      BY <1>1, <3>1 DEF T
  <2>8. PICK lines \in Seq(Said) : lines = Transcript(input) /\ Written(h, r, lines, n)
    BY <1>2, <2>2, <2>7 DEF Written
  <2> QED
    BY <2>8 DEF Written
<1> QED
  BY <1>3, <1>4

\* The list of a finite set of turns.
LEMMA ListOfTurns ==
    ASSUME NEW T, T \in SUBSET Jobs, Jobs \subseteq Nat, IsFiniteSet(T)
    PROVE  InOrder(T) \in Seq(Jobs) /\ Len(InOrder(T)) = Cardinality(T)
<1>1. Sorts(InOrder(T), T)
  BY InOrderSorts
<1>2. Cardinality(T) \in Nat
  BY FS_CardinalityType
<1> QED
  BY <1>1, <1>2, SortedIsSeq

\* PlacesOfBoth for the lists of the replies and of the messages.
LEMMA AlignedLists ==
    ASSUME NEW A, NEW B, A \in SUBSET Jobs, B \in SUBSET Jobs, Jobs \subseteq Nat,
           IsFiniteSet(A), IsFiniteSet(B), A \subseteq B,
           \A m \in B \ A : \A y \in B \ {m} : m < y,
           NEW i \in 1 .. Len(InOrder(A)), NEW k \in 1 .. Len(InOrder(B)),
           InOrder(A)[i] = InOrder(B)[k]
    PROVE  /\ k - i = Len(InOrder(B)) - Len(InOrder(A))
           /\ Len(InOrder(B)) - Len(InOrder(A)) \in {0, 1}
<1>1. Len(InOrder(A)) = Cardinality(A) /\ Len(InOrder(B)) = Cardinality(B)
  BY ListOfTurns
<1>2. A \in SUBSET Nat /\ B \in SUBSET Nat
  OBVIOUS
<1>3. i \in 1 .. Cardinality(A) /\ k \in 1 .. Cardinality(B)
  BY <1>1
<1>4. /\ k - i = Cardinality(B) - Cardinality(A)
      /\ Cardinality(B) - Cardinality(A) \in {0, 1}
  BY <1>2, <1>3, PlacesOfBoth
<1> QED
  BY <1>1, <1>4

\* RepliesFollowMessages of ChatHistory: whatever the cap and whichever turns
\* failed, the transcript that compose_prompt makes of the two lists has every
\* reply after its message.
THEOREM RepliesComeAfterMessages == ChatSpec => []RepliesFollowMessages
<1>1. JobInv /\ ConversationInv => RepliesFollowMessages
  <2> SUFFICES ASSUME JobInv, ConversationInv, NEW j \in ActiveTurns,
                      Completed(jobs[j].session) \subseteq replied
               PROVE  \A x, y \in DOMAIN Transcript(Handed(j)) :
                          /\ Transcript(Handed(j))[x][1] = "Assistant"
                          /\ Transcript(Handed(j))[y] = User(Transcript(Handed(j))[x][2])
                          => y < x
    BY DEF RepliesFollowMessages
  <2>1. CASE inputs[j] = NoInput
    <3>1. Handed(j).history = <<>> /\ Handed(j).replies = <<>>
      BY <2>1 DEF Handed, NoInput
    <3>2. <<>> \in Seq(Jobs) /\ Aligned(<<>>, <<>>)
      BY DEF Aligned
    <3> QED
      BY <3>1, <3>2, TranscriptOrder
  <2>2. CASE inputs[j] = FollowUp(jobs[j].session)
    <3>1. PICK s : s = jobs[j].session
      OBVIOUS
    <3>2. s \in Sessions /\ Workflow[s] = "chat"
      BY <3>1 DEF ActiveTurns, JobInv, TypeOK, JobRow
    <3>3. PICK A, B : /\ A = {k \in Completed(s) : inputs[k].followUp}
                      /\ B = Completed(s) \cap replied
      OBVIOUS
    <3>4. A \subseteq B /\ B = Completed(s)
      BY <3>1, <3>3
    <3>5. /\ A \in SUBSET Jobs /\ B \in SUBSET Jobs /\ Jobs \subseteq Nat
          /\ IsFiniteSet(A) /\ IsFiniteSet(B)
      BY <3>2, <3>4, TurnsFinite DEF ConversationInv
    <3>6. ASSUME NEW m \in B \ A, NEW y \in B \ {m} PROVE m < y
      <4>1. /\ m \in Jobs /\ y \in Jobs /\ jobs[m].session = s /\ jobs[y].session = s
            /\ jobs[m].status = "completed" /\ jobs[y].status = "completed"
            /\ ~inputs[m].followUp
        BY <3>3, <3>4, <3>6 DEF Completed, JobsOf
      <4> QED
        BY <3>2, <3>6, <4>1 DEF ConversationInv, FirstInv, Gone
    <3>7. \A i \in 1 .. Len(InOrder(A)), k \in 1 .. Len(InOrder(B)) :
              InOrder(A)[i] = InOrder(B)[k] =>
                  /\ k - i = Len(InOrder(B)) - Len(InOrder(A))
                  /\ Len(InOrder(B)) - Len(InOrder(A)) \in {0, 1}
      BY <3>4, <3>5, <3>6, AlignedLists
    <3>8. InOrder(A) \in Seq(Jobs) /\ InOrder(B) \in Seq(Jobs)
      BY <3>5, ListOfTurns
    <3>9. PICK h, r : h = InOrder(A) /\ r = InOrder(B)
      OBVIOUS
    <3>10. Messages(s) = h /\ Replies(s) = r
      BY <3>3, <3>9 DEF Messages, Replies
    <3>11. h \in Seq(Jobs) /\ r \in Seq(Jobs)
      BY <3>8, <3>9
    <3>12. Aligned(KeepLast(h), KeepLast(r))
      BY <3>7, <3>9, <3>11, CutsKeepAligned
    <3>13. KeepLast(h) \in Seq(Jobs) /\ KeepLast(r) \in Seq(Jobs)
      BY <3>11, KeepLastFacts
    <3>14. Handed(j).history = KeepLast(h) /\ Handed(j).replies = KeepLast(r)
      BY <2>2, <3>1, <3>10 DEF Handed, Capped, FollowUp
    <3> QED
      BY <3>12, <3>13, <3>14, TranscriptOrder
  <2> QED
    BY <2>1, <2>2 DEF ConversationInv, ChatInv, Known
<1> QED
  BY <1>1, ConversationHolds, PTL
===============================================================================
