--------------------------- MODULE ExecutionProofs ---------------------------
(***************************************************************************)
(* Proofs about TaskExecution.                                             *)
(***************************************************************************)
EXTENDS TaskExecution, TLAPS

-----------------------------------------------------------------------------
(* Types, and histories that go back to the first commit.                  *)

Base == <<"base", 0>>
Rooted(c) == c # Absent => Base \in c

SoundRepo(repo) ==
    /\ repo \in [Names -> Commit]
    /\ \A n \in Names : Rooted(repo[n])
    /\ Base \in repo[Main]

SoundDir(x) ==
    /\ x \in Dir
    /\ \A n \in Names : Rooted(x.tips[n])
    /\ IF x.is = "clone" THEN Base \in x.tips[x.head] ELSE x.head = Main

\* A push under way extends what the server showed.
SoundRun(x) ==
    /\ x \in Run
    /\ x.at \in {"agent", "name", "push", "pushing"} => x.name \in Names
    /\ x.at = "pushing" => x.saw \subseteq x.sent /\ Base \in x.sent

ExecInv ==
    /\ transport \in {"https", "file"}
    /\ task \in [Runs -> Tasks]
    /\ SoundRepo(remote)
    /\ dirs \in [Dirs -> Dir] /\ (\A d \in Dirs : SoundDir(dirs[d]))
    /\ run \in [Runs -> Run] /\ (\A r \in Runs : SoundRun(run[r]))
    /\ report \in [Runs -> Report]
    /\ made \in [Runs -> 0 .. MaxChanges]
    /\ odd \in [Runs -> SUBSET {"shared", "strayed", "unread", "refused", "answer lost"}]

USE RunAssumption

LEMMA NameTypes ==
    /\ Main \in Names /\ HEAD \in Names
    /\ \A j \in Jobs : Planned(j) \in Names
    /\ \A s \in Slugs : Slugged(s) \in Names
    /\ \A s \in Slugs, j \in Jobs : SluggedFor(s, j) \in Names
BY DEF Names

LEMMA ValueTypes ==
    /\ Base \in Changes /\ <<"other", 0>> \in Changes /\ Absent \in Commit
    /\ NoTips \in [Names -> Commit] /\ NoDir \in Dir /\ SoundDir(NoDir)
    /\ NotStarted \in Run /\ SoundRun(NotStarted) /\ NoReport \in Report
<1>1. Base \in Changes /\ <<"other", 0>> \in Changes /\ Absent \in Commit
  BY DEF Base, Changes, Absent, Commit
<1>2. NoTips \in [Names -> Commit]
  BY <1>1 DEF NoTips
<1>3. NoDir \in Dir
  BY <1>2, NameTypes DEF NoDir, Dir
<1>4. SoundDir(NoDir)
  BY <1>3 DEF SoundDir, NoDir, NoTips, Rooted
<1>5. NotStarted \in Run /\ SoundRun(NotStarted) /\ NoReport \in Report
  BY <1>1 DEF NotStarted, Run, Steps, SoundRun, NoReport, Report
<1> QED
  BY <1>1, <1>2, <1>3, <1>4, <1>5

LEMMA DirOfRun ==
    ASSUME ExecInv, NEW r \in Runs
    PROVE  DirOf(r) \in Dirs /\ task[r] \in Tasks /\ task[r].job \in Jobs
BY DEF ExecInv, DirOf, Dirs, Tasks

LEMMA ExecInit == Init => ExecInv
<1> SUFFICES ASSUME Init PROVE ExecInv
  OBVIOUS
<1>1. SoundRepo(remote)
  <2>1. {Base} \in Commit
    BY ValueTypes DEF Commit
  <2>2. remote = [NoTips EXCEPT ![Main] = {Base}]
    BY DEF Init, Base
  <2> QED
    BY <2>1, <2>2, NameTypes, ValueTypes DEF SoundRepo, Rooted, NoTips
<1>2. dirs \in [Dirs -> Dir] /\ (\A d \in Dirs : SoundDir(dirs[d]))
  BY ValueTypes DEF Init
<1>3. run \in [Runs -> Run] /\ (\A r \in Runs : SoundRun(run[r])) /\ report \in [Runs -> Report]
  BY ValueTypes DEF Init
<1>4. made \in [Runs -> 0 .. MaxChanges]
  BY DEF Init
<1>5. odd \in [Runs -> SUBSET {"shared", "strayed", "unread", "refused", "answer lost"}]
  BY DEF Init
<1> QED
  BY <1>1, <1>2, <1>3, <1>4, <1>5 DEF Init, ExecInv

-----------------------------------------------------------------------------
(* How a step changes the state, part by part.                             *)

LEMMA OneDir ==
    ASSUME ExecInv, NEW d \in Dirs, NEW x, SoundDir(x), dirs' = [dirs EXCEPT ![d] = x]
    PROVE  dirs' \in [Dirs -> Dir] /\ (\A e \in Dirs : SoundDir(dirs'[e]))
BY DEF ExecInv, SoundDir

LEMMA OneRun ==
    ASSUME ExecInv, NEW r \in Runs, NEW x, SoundRun(x), run' = [run EXCEPT ![r] = x]
    PROVE  run' \in [Runs -> Run] /\ (\A q \in Runs : SoundRun(run'[q]))
BY DEF ExecInv, SoundRun

LEMMA Befallen ==
    ASSUME ExecInv, NEW who, NEW what \in {"shared", "strayed", "unread", "refused", "answer lost"},
           Befalls(who, what)
    PROVE  odd' \in [Runs -> SUBSET {"shared", "strayed", "unread", "refused", "answer lost"}]
BY DEF ExecInv, Befalls

LEMMA EndsSound ==
    ASSUME ExecInv, NEW r \in Runs, NEW status \in {"success", "failed"},
           NEW branch \in Names \cup {NoName}, NEW ref \in Commit,
           Ends(r, status, branch, ref)
    PROVE  /\ run' \in [Runs -> Run] /\ (\A q \in Runs : SoundRun(run'[q]))
           /\ report' \in [Runs -> Report]
           /\ run'[r].at = "done" /\ (\A q \in Runs : q # r => run'[q] = run[q])
           /\ \/ report' = report
              \/ report' = [report EXCEPT ![r] = [status |-> status, branch |-> branch,
                                                  ref |-> ref]]
<1> DEFINE x == [NotStarted EXCEPT !.at = "done"]
<1>1. SoundRun(x) /\ x.at = "done"
  BY ValueTypes DEF SoundRun, NotStarted, Run, Steps
<1>2. run' = [run EXCEPT ![r] = x]
  BY DEF Ends
<1> HIDE DEF x
<1>3. run' \in [Runs -> Run] /\ (\A q \in Runs : SoundRun(run'[q]))
  BY <1>1, <1>2, OneRun
<1>4. run'[r].at = "done" /\ (\A q \in Runs : q # r => run'[q] = run[q])
  BY <1>1, <1>2 DEF ExecInv
<1>5. [status |-> status, branch |-> branch, ref |-> ref] \in Report
  BY DEF Report
<1>6. report' = report \/ report' = [report EXCEPT ![r] = [status |-> status, branch |-> branch,
                                                            ref |-> ref]]
  BY DEF Ends
<1>7. report' \in [Runs -> Report]
  BY <1>5, <1>6 DEF ExecInv
<1> QED
  BY <1>3, <1>4, <1>6, <1>7

LEMMA FailsSound ==
    ASSUME ExecInv, NEW r \in Runs, Fails(r)
    PROVE  /\ run' \in [Runs -> Run] /\ (\A q \in Runs : SoundRun(run'[q]))
           /\ report' \in [Runs -> Report]
           /\ run'[r].at = "done" /\ (\A q \in Runs : q # r => run'[q] = run[q])
           /\ \/ report' = report
              \/ report' = [report EXCEPT ![r] = [status |-> "failed", branch |-> run[r].name,
                                                  ref |-> run[r].ref]]
<1>1. run[r].name \in Names \cup {NoName} /\ run[r].ref \in Commit
  BY DEF ExecInv, Run
<1> QED
  BY <1>1, EndsSound DEF Fails

-----------------------------------------------------------------------------
(* The steps.                                                              *)

\* A commit of all there is in the work directory.
LEMMA CommittedSound ==
    ASSUME NEW x, SoundDir(x), x.is = "clone"
    PROVE  SoundDir(Committed(x)) /\ Committed(x).is = "clone"
<1> DEFINE y == Committed(x)
<1>1. x \in Dir /\ x.head \in Names /\ x.tips \in [Names -> Commit] /\ Base \in x.tips[x.head]
  BY DEF SoundDir, Dir
<1>2. /\ y.is = "clone" /\ y.head = x.head /\ y.dirty = {}
      /\ y.tips = [x.tips EXCEPT ![x.head] = @ \cup x.dirty]
  BY <1>1 DEF Committed, Dir
<1>3. y \in Dir
  BY <1>1 DEF Committed, Dir, Commit
<1> HIDE DEF y
<1>4. \A n \in Names : Rooted(y.tips[n])
  BY <1>1, <1>2 DEF SoundDir, Rooted
<1>5. Base \in y.tips[y.head]
  BY <1>1, <1>2
<1> QED
  BY <1>2, <1>3, <1>4, <1>5 DEF SoundDir, y

LEMMA RenamedSound ==
    ASSUME NEW x, SoundDir(x), x.is = "clone", NEW n \in Names, x.tips[n] = Absent
    PROVE  SoundDir(Renamed(x, n)) /\ Renamed(x, n).is = "clone"
<1> DEFINE y == Renamed(x, n)
<1>1. /\ x \in Dir /\ x.head \in Names /\ x.tips \in [Names -> Commit]
      /\ Base \in x.tips[x.head] /\ x.head # n
  BY DEF SoundDir, Dir, Absent
<1>2. /\ y.is = "clone" /\ y.head = n
      /\ y.tips = [x.tips EXCEPT ![n] = x.tips[x.head], ![x.head] = Absent]
  BY <1>1 DEF Renamed, Dir
<1>3. y \in Dir
  BY <1>1, ValueTypes DEF Renamed, Dir
<1> HIDE DEF y
<1>4. \A m \in Names : Rooted(y.tips[m])
  BY <1>1, <1>2 DEF SoundDir, Rooted
<1>5. Base \in y.tips[y.head]
  BY <1>1, <1>2
<1> QED
  BY <1>2, <1>3, <1>4, <1>5 DEF SoundDir, y
\* What is left of a step's obligations when the worker's own state is sound.
LEMMA ExecFrame ==
    ASSUME ExecInv, UNCHANGED <<transport, task>>, SoundRepo(remote'),
           dirs' \in [Dirs -> Dir], \A d \in Dirs : SoundDir(dirs'[d]),
           run' \in [Runs -> Run], \A r \in Runs : SoundRun(run'[r]),
           report' \in [Runs -> Report],
           made' = made \/ made' \in [Runs -> 0 .. MaxChanges],
           odd' = odd \/ odd' \in [Runs -> SUBSET {"shared", "strayed", "unread", "refused", "answer lost"}]
    PROVE  ExecInv'
<1>1. SoundRepo(remote)' /\ (\A d \in Dirs : SoundDir(dirs[d])')
      /\ (\A r \in Runs : SoundRun(run[r])')
  BY DEF SoundRepo, SoundDir, SoundRun
<1> QED
  BY <1>1 DEF ExecInv

LEMMA PrepareStep ==
    ASSUME ExecInv, NEW r \in Runs, Prepare(r)
    PROVE  ExecInv'
<1> DEFINE d == DirOf(r)
           x == Prepared(dirs[d])
           y == [run[r] EXCEPT !.at = "clone"]
<1>1. d \in Dirs
  BY DirOfRun
<1>2. SoundDir(x)
  BY ValueTypes DEF Prepared, SoundDir, NoDir, Dir
<1>3. SoundRun(y)
  BY DEF ExecInv, SoundRun, Run, Steps
<1>4. dirs' = [dirs EXCEPT ![d] = x] /\ run' = [run EXCEPT ![r] = y]
  BY DEF Prepare
<1>5. odd' \in [Runs -> SUBSET {"shared", "strayed", "unread", "refused", "answer lost"}]
  BY Befallen DEF Prepare
<1> HIDE DEF x, y, d
<1>6. dirs' \in [Dirs -> Dir] /\ (\A e \in Dirs : SoundDir(dirs'[e]))
  BY <1>1, <1>2, <1>4, OneDir
<1>7. run' \in [Runs -> Run] /\ (\A q \in Runs : SoundRun(run'[q]))
  BY <1>3, <1>4, OneRun
<1>8. /\ UNCHANGED <<transport, task, report, made>> /\ SoundRepo(remote')
      /\ report' \in [Runs -> Report]
  BY DEF Prepare, Same, ExecInv
<1> QED
  BY <1>5, <1>6, <1>7, <1>8, ExecFrame

LEMMA CloneStep ==
    ASSUME ExecInv, NEW r \in Runs, Clone(r)
    PROVE  ExecInv'
<1> DEFINE d == DirOf(r)
           x == [dirs[d] EXCEPT !.is = "clone", !.tips[Main] = remote[Main]]
           y == [run[r] EXCEPT !.at = "checkout"]
<1>1. d \in Dirs
  BY DirOfRun
<1>2. dirs' = [dirs EXCEPT ![d] = x] /\ run' = [run EXCEPT ![r] = y]
  BY DEF Clone
<1>3. SoundDir(dirs[d]) /\ SoundRepo(remote) /\ dirs[d].is = "empty"
  BY <1>1 DEF ExecInv, Clone
<1>4. SoundDir(x)
  <2> DEFINE o == dirs[d]
  <2>1. o \in Dir /\ o.tips \in [Names -> Commit] /\ remote[Main] \in Commit
    BY <1>3, NameTypes DEF SoundDir, Dir, SoundRepo
  <2>2. x \in Dir
    BY <2>1 DEF Dir
  <2>3. x.tips = [o.tips EXCEPT ![Main] = remote[Main]] /\ x.head = o.head /\ o.head \in Names
    BY <2>1 DEF Dir
  <2> HIDE DEF x
  <2>4. \A n \in Names : Rooted(x.tips[n])
    BY <1>3, <2>1, <2>3 DEF SoundDir, SoundRepo
  <2>5. Base \in x.tips[x.head] /\ x.is = "clone"
    BY <1>3, <2>1, <2>3, NameTypes DEF SoundRepo, SoundDir, x, Dir
  <2> QED
    BY <2>2, <2>4, <2>5 DEF SoundDir
<1>5. SoundRun(y)
  BY DEF ExecInv, SoundRun, Run, Steps
<1> HIDE DEF x, y, d
<1>6. dirs' \in [Dirs -> Dir] /\ (\A e \in Dirs : SoundDir(dirs'[e]))
  BY <1>1, <1>2, <1>4, OneDir
<1>7. run' \in [Runs -> Run] /\ (\A q \in Runs : SoundRun(run'[q]))
  BY <1>2, <1>5, OneRun
<1>8. UNCHANGED <<transport, task, remote, report, made, odd>>
  BY DEF Clone, Same
<1> QED
  BY <1>6, <1>7, <1>8, ExecFrame DEF ExecInv

LEMMA CheckOutStep ==
    ASSUME ExecInv, NEW r \in Runs, CheckOut(r)
    PROVE  ExecInv' /\ WorkBranch(r) \in Names
<1> DEFINE d == DirOf(r)
           n == WorkBranch(r)
           x == [dirs[d] EXCEPT !.head = n, !.tips[n] = dirs[d].tips[Main]]
           y == [run[r] EXCEPT !.at = "agent", !.name = n]
<1>1. d \in Dirs /\ n \in Names
  <2>1. task[r].job \in Jobs
    BY DirOfRun
  <2>2. Current(r) \in {Main, HEAD, NoName}
    BY DEF Current
  <2> QED
    BY <2>1, <2>2, NameTypes, DirOfRun DEF WorkBranch
<1>2. dirs' = [dirs EXCEPT ![d] = x] /\ run' = [run EXCEPT ![r] = y]
  BY DEF CheckOut
<1>3. SoundDir(dirs[d]) /\ dirs[d].is = "clone" /\ dirs[d].tips[Main] # Absent
  BY <1>1 DEF ExecInv, CheckOut, HasClone
<1> HIDE DEF n, d
<1>4. SoundDir(x)
  <2> DEFINE o == dirs[d]
  <2>1. o \in Dir /\ o.tips \in [Names -> Commit] /\ o.tips[Main] \in Commit
        /\ Base \in o.tips[Main]
    BY <1>3, NameTypes DEF SoundDir, Dir, Rooted
  <2>2. x \in Dir
    BY <1>1, <2>1 DEF Dir
  <2>3. x.tips = [o.tips EXCEPT ![n] = o.tips[Main]] /\ x.head = n
    BY <2>1 DEF Dir
  <2> HIDE DEF x
  <2>4. \A m \in Names : Rooted(x.tips[m])
    BY <1>3, <2>1, <2>3 DEF SoundDir, Rooted
  <2>5. Base \in x.tips[x.head] /\ x.is = "clone"
    BY <1>1, <1>3, <2>1, <2>3 DEF x, Dir
  <2> QED
    BY <2>2, <2>4, <2>5 DEF SoundDir
<1>5. SoundRun(y)
  BY <1>1 DEF ExecInv, SoundRun, Run, Steps
<1> HIDE DEF x, y
<1>6. dirs' \in [Dirs -> Dir] /\ (\A e \in Dirs : SoundDir(dirs'[e]))
  BY <1>1, <1>2, <1>4, OneDir
<1>7. run' \in [Runs -> Run] /\ (\A q \in Runs : SoundRun(run'[q]))
  BY <1>2, <1>5, OneRun
<1>8. UNCHANGED <<transport, task, remote, report, made, odd>>
  BY DEF CheckOut, Same
<1>9. ExecInv'
  BY <1>6, <1>7, <1>8, ExecFrame DEF ExecInv
<1> QED
  BY <1>1, <1>9 DEF n
\* Steps of the agent: they change the work directory of r and no run.
LEMMA AgentSteps ==
    ASSUME ExecInv, NEW r \in Runs, AgentEdits(r) \/ AgentCommits(r) \/ AgentBranches(r)
    PROVE  ExecInv'
<1> DEFINE d == DirOf(r)
           o == dirs[d]
<1>1. d \in Dirs
  BY DirOfRun
<1>2. SoundDir(o) /\ o.is = "clone" /\ o \in Dir /\ o.tips \in [Names -> Commit]
      /\ o.head \in Names /\ Base \in o.tips[o.head]
  BY <1>1 DEF ExecInv, AgentEdits, AgentCommits, AgentBranches, AgentRuns, HasClone, SoundDir, Dir
<1> HIDE DEF d, o
<1>3. UNCHANGED <<transport, task, remote, run, report>>
  BY DEF AgentEdits, AgentCommits, AgentBranches, Same
<1>4. \A x : SoundDir(x) /\ dirs' = [dirs EXCEPT ![d] = x]
        => dirs' \in [Dirs -> Dir] /\ (\A e \in Dirs : SoundDir(dirs'[e]))
  BY <1>1, OneDir
<1>5. CASE AgentEdits(r)
  <2> DEFINE x == [o EXCEPT !.dirty = @ \cup {<<r, made[r] + 1>>}]
  <2>1. made[r] + 1 \in 1 .. MaxChanges /\ made' \in [Runs -> 0 .. MaxChanges]
    <3>1. made \in [Runs -> 0 .. MaxChanges]
      BY DEF ExecInv
    <3>2. made[r] < MaxChanges /\ made' = [made EXCEPT ![r] = made[r] + 1]
      BY <1>5 DEF AgentEdits
    <3>3. made[r] + 1 \in 1 .. MaxChanges
      BY <3>1, <3>2
    <3> QED
      BY <3>1, <3>2, <3>3
  <2>2. <<r, made[r] + 1>> \in Changes
    BY <2>1 DEF Changes
  <2>3. x \in Dir /\ x.tips = o.tips /\ x.head = o.head /\ x.is = o.is
    BY <1>2, <2>2 DEF Dir
  <2>4. dirs' = [dirs EXCEPT ![d] = x]
    BY <1>5 DEF AgentEdits, d, o
  <2> HIDE DEF x
  <2>5. SoundDir(x)
    BY <1>2, <2>3 DEF SoundDir
  <2>6. odd' = odd
    BY <1>5 DEF AgentEdits
  <2> QED
    BY <1>3, <1>4, <2>1, <2>4, <2>5, <2>6, ExecFrame DEF ExecInv
<1>6. CASE AgentCommits(r)
  <2>1. dirs' = [dirs EXCEPT ![d] = Committed(o)] /\ made' = made
    BY <1>6 DEF AgentCommits, d, o
  <2>2. SoundDir(Committed(o))
    BY <1>2, CommittedSound
  <2>3. odd' \in [Runs -> SUBSET {"shared", "strayed", "unread", "refused", "answer lost"}]
    BY <1>6, Befallen DEF AgentCommits
  <2> QED
    BY <1>3, <1>4, <2>1, <2>2, <2>3, ExecFrame DEF ExecInv
<1>7. CASE AgentBranches(r)
  <2>1. PICK s \in Slugs : dirs' = [dirs EXCEPT ![d].head = Slugged(s),
                                                ![d].tips[Slugged(s)] = Tip(d)]
    BY <1>7 DEF AgentBranches, d
  <2> DEFINE n == Slugged(s)
             x == [o EXCEPT !.head = n, !.tips[n] = o.tips[o.head]]
  <2>2. n \in Names
    BY NameTypes
  <2>3. dirs' = [dirs EXCEPT ![d] = x] /\ made' = made
    <3>1. dirs' = [dirs EXCEPT ![d] = [dirs[d] EXCEPT !.head = n, !.tips[n] = Tip(d)]]
      BY <2>1
    <3>2. x = [dirs[d] EXCEPT !.head = n, !.tips[n] = Tip(d)]
      BY DEF Tip, o
    <3> QED
      BY <1>7, <3>1, <3>2 DEF AgentBranches
  <2> HIDE DEF n
  <2>4. x \in Dir /\ x.head = n /\ x.is = "clone"
        /\ x.tips = [o.tips EXCEPT ![n] = o.tips[o.head]]
    BY <1>2, <2>2 DEF Dir
  <2> HIDE DEF x
  <2>5. \A m \in Names : Rooted(x.tips[m])
    BY <1>2, <2>4 DEF SoundDir, Rooted
  <2>6. SoundDir(x)
    BY <1>2, <2>2, <2>4, <2>5 DEF SoundDir
  <2>7. odd' \in [Runs -> SUBSET {"shared", "strayed", "unread", "refused", "answer lost"}]
    BY <1>7, Befallen DEF AgentBranches
  <2> QED
    BY <1>3, <1>4, <2>3, <2>6, <2>7, ExecFrame DEF ExecInv
<1> QED
  BY <1>5, <1>6, <1>7

\* How a run that gives up, fails, or ends well without a push is reported.
LEMMA EndSteps ==
    ASSUME ExecInv, NEW r \in Runs,
           \/ GivesUp(r) \/ AgentFails(r) \/ AgentSucceeds(r) \/ GitFails(r) \/ Dies(r)
    PROVE  ExecInv'
<1>1. UNCHANGED <<transport, task, remote, dirs, made, odd>>
  BY DEF GivesUp, AgentFails, AgentSucceeds, GitFails, Dies, Same
<1>2. HeadOf(r) \in Commit /\ run[r].name \in Names \cup {NoName} /\ NoName \in Names \cup {NoName}
  <2>1. DirOf(r) \in Dirs
    BY DirOfRun
  <2>2. dirs[DirOf(r)] \in Dir /\ run[r] \in Run
    BY <2>1 DEF ExecInv
  <2>3. HeadOf(r) \in Commit
    BY <2>2, ValueTypes DEF HeadOf, Tip, Dir
  <2> QED
    BY <2>2, <2>3 DEF Run
<1>3. CASE GivesUp(r) \/ AgentFails(r) \/ GitFails(r)
           \/ Ends(r, "success", run[r].name, HeadOf(r))
  <2>1. /\ run' \in [Runs -> Run] /\ (\A q \in Runs : SoundRun(run'[q]))
        /\ report' \in [Runs -> Report]
    BY <1>2, <1>3, ValueTypes, EndsSound, FailsSound DEF GivesUp, AgentFails, GitFails
  <2> QED
    BY <1>1, <2>1, ExecFrame DEF ExecInv
<1>4. CASE /\ run[r].at = "agent" /\ report' = report
           /\ run' = [run EXCEPT ![r].at = "name", ![r].ref = HeadOf(r)]
  <2> DEFINE y == [run[r] EXCEPT !.at = "name", !.ref = HeadOf(r)]
  <2>1. run[r] \in Run /\ run[r].name \in Names
    BY <1>4 DEF ExecInv, SoundRun
  <2>2. SoundRun(y)
    BY <1>2, <2>1 DEF SoundRun, Run, Steps
  <2>3. run' = [run EXCEPT ![r] = y]
    BY <1>4
  <2> HIDE DEF y
  <2>4. run' \in [Runs -> Run] /\ (\A q \in Runs : SoundRun(run'[q]))
    BY <2>2, <2>3, OneRun
  <2> QED
    BY <1>1, <1>4, <2>4, ExecFrame DEF ExecInv
<1>5. CASE Dies(r)
  <2> DEFINE y == [NotStarted EXCEPT !.at = "done"]
  <2>1. SoundRun(y)
    BY ValueTypes DEF SoundRun, NotStarted, Run, Steps
  <2>2. run' = [run EXCEPT ![r] = y] /\ report' = report
    BY <1>5 DEF Dies
  <2> HIDE DEF y
  <2>3. run' \in [Runs -> Run] /\ (\A q \in Runs : SoundRun(run'[q]))
    BY <2>1, <2>2, OneRun
  <2> QED
    BY <1>1, <2>2, <2>3, ExecFrame DEF ExecInv
<1> QED
  BY <1>3, <1>4, <1>5 DEF AgentSucceeds

LEMMA UnreadStep ==
    ASSUME ExecInv, NEW r \in Runs, StatusUnread(r)
    PROVE  ExecInv'
<1>1. DirOf(r) \in Dirs
  BY DirOfRun
<1>2. dirs[DirOf(r)] \in Dir /\ run[r] \in Run
  BY <1>1 DEF ExecInv
<1>3. HeadOf(r) \in Commit /\ Absent \in Commit /\ run[r].name \in Names \cup {NoName}
  BY <1>2, ValueTypes DEF HeadOf, Tip, Dir, Run
<1>4. /\ run' \in [Runs -> Run] /\ (\A q \in Runs : SoundRun(run'[q]))
      /\ report' \in [Runs -> Report]
  BY <1>3, EndsSound DEF StatusUnread
<1>5. odd' \in [Runs -> SUBSET {"shared", "strayed", "unread", "refused", "answer lost"}]
  BY Befallen DEF StatusUnread
<1> QED
  BY <1>4, <1>5, ExecFrame DEF StatusUnread, Same, ExecInv

LEMMA CommitAllRun ==
    ASSUME ExecInv, NEW r \in Runs, NEW n, NEW c,
           run' = [run EXCEPT ![r].at = "push", ![r].name = n, ![r].ref = c]
    PROVE  run'[r].at = "push" /\ run'[r].name = n
<1> DEFINE y == [run[r] EXCEPT !.at = "push", !.name = n, !.ref = c]
<1>1. run' = [run EXCEPT ![r] = y]
  OBVIOUS
<1>2. y.at = "push" /\ y.name = n
  BY DEF ExecInv, Run
<1>3. DOMAIN run = Runs
  BY DEF ExecInv
<1> HIDE DEF y
<1>4. run'[r] = y
  BY <1>1, <1>3
<1> QED
  BY <1>2, <1>4

LEMMA CommitAllPushes ==
    ASSUME ExecInv, NEW r \in Runs, CommitAll(r)
    PROVE  run'[r].at = "push"
<1>1. CASE run[r].name = Planned(task[r].job)
  <2>1. PICK s \in Slugs :
          LET n == DesiredBranch(r, s)
              x == Renamed(dirs[DirOf(r)], n)
          IN  run' = [run EXCEPT ![r].at = "push", ![r].name = n,
                                 ![r].ref = Committed(x).tips[x.head]]
    BY <1>1 DEF CommitAll
  <2> QED
    BY <2>1, CommitAllRun
<1>2. CASE run[r].name # Planned(task[r].job)
  <2>1. LET x == dirs[DirOf(r)]
        IN  run' = [run EXCEPT ![r].at = "push", ![r].name = run[r].name,
                               ![r].ref = Committed(x).tips[x.head]]
    BY <1>2 DEF CommitAll
  <2> QED
    BY <2>1, CommitAllRun
<1> QED
  BY <1>1, <1>2

\* The commit: on the branch run[r].name, which is HEAD's; or else HEAD's
\* branch is renamed first, and that is the branch's name from then on.
LEMMA CommitAllStep ==
    ASSUME ExecInv, NEW r \in Runs, CommitAll(r)
    PROVE  ExecInv'
<1> DEFINE d == DirOf(r)
           o == dirs[d]
<1>1. d \in Dirs
  BY DirOfRun
<1>2. SoundDir(o) /\ o.is = "clone" /\ run[r] \in Run
  BY <1>1 DEF ExecInv, CommitAll, HasClone
<1>3. PICK n \in Names : \E x :
        /\ SoundDir(x) /\ x.is = "clone"
        /\ dirs' = [dirs EXCEPT ![d] = Committed(x)]
        /\ run' = [run EXCEPT ![r].at = "push", ![r].name = n,
                              ![r].ref = Committed(x).tips[x.head]]
  <2>1. CASE run[r].name = Planned(task[r].job)
    <3>1. PICK s \in Slugs :
            /\ o.tips[DesiredBranch(r, s)] = Absent
            /\ dirs' = [dirs EXCEPT ![d] = Committed(Renamed(o, DesiredBranch(r, s)))]
            /\ run' = [run EXCEPT ![r].at = "push", ![r].name = DesiredBranch(r, s),
                  ![r].ref = Committed(Renamed(o, DesiredBranch(r, s))).tips[
                                Renamed(o, DesiredBranch(r, s)).head]]
      BY <2>1 DEF CommitAll
    <3>2. DesiredBranch(r, s) \in Names
      BY DirOfRun, NameTypes DEF DesiredBranch
    <3>3. SoundDir(Renamed(o, DesiredBranch(r, s))) /\ Renamed(o, DesiredBranch(r, s)).is = "clone"
      BY <1>2, <3>1, <3>2, RenamedSound
    <3> QED
      BY <3>1, <3>2, <3>3
  <2>2. CASE run[r].name # Planned(task[r].job)
    <3>1. /\ dirs' = [dirs EXCEPT ![d] = Committed(o)]
          /\ run' = [run EXCEPT ![r].at = "push", ![r].name = run[r].name,
                                ![r].ref = Committed(o).tips[o.head]]
      BY <2>2 DEF CommitAll
    <3>2. run[r].name \in Names
      BY DEF ExecInv, SoundRun, CommitAll
    <3> QED
      BY <1>2, <3>1, <3>2
  <2> QED
    BY <2>1, <2>2
<1>4. PICK x :
        /\ SoundDir(x) /\ x.is = "clone"
        /\ dirs' = [dirs EXCEPT ![d] = Committed(x)]
        /\ run' = [run EXCEPT ![r].at = "push", ![r].name = n,
                              ![r].ref = Committed(x).tips[x.head]]
  BY <1>3
<1> DEFINE y == [run[r] EXCEPT !.at = "push", !.name = n, !.ref = Committed(x).tips[x.head]]
<1>5. SoundDir(Committed(x))
  BY <1>4, CommittedSound
<1>6. Committed(x).tips[x.head] \in Commit
  BY <1>4, <1>5 DEF SoundDir, Dir
<1>7. SoundRun(y) /\ run' = [run EXCEPT ![r] = y]
  BY <1>2, <1>4, <1>6 DEF SoundRun, Run, Steps
<1> HIDE DEF y, d, o
<1>8. dirs' \in [Dirs -> Dir] /\ (\A e \in Dirs : SoundDir(dirs'[e]))
  BY <1>1, <1>4, <1>5, OneDir
<1>9. run' \in [Runs -> Run] /\ (\A q \in Runs : SoundRun(run'[q]))
  BY <1>7, OneRun
<1>10. UNCHANGED <<transport, task, remote, report, made, odd>>
  BY DEF CommitAll, Same
<1> QED
  BY <1>8, <1>9, <1>10, ExecFrame DEF ExecInv

\* The push: refused at this end, nothing to do, or under way.
LEMMA PushReadsStep ==
    ASSUME ExecInv, NEW r \in Runs, PushReads(r)
    PROVE  ExecInv'
<1> DEFINE d == DirOf(r)
           new == IF HasClone(r) /\ run[r].name # HEAD THEN dirs[d].tips[run[r].name] ELSE Absent
           old == remote[run[r].name]
           y == [run[r] EXCEPT !.at = "pushing", !.saw = old, !.sent = new]
<1>1. UNCHANGED <<transport, task, remote, dirs, made, odd>>
  BY DEF PushReads, Same
<1>2. run[r] \in Run /\ run[r].name \in Names \cup {NoName} /\ run[r].ref \in Commit
  BY DEF ExecInv, Run
<1>3. CASE Ends(r, "success", run[r].name, run[r].ref) \/ Fails(r)
  <2>1. /\ run' \in [Runs -> Run] /\ (\A q \in Runs : SoundRun(run'[q]))
        /\ report' \in [Runs -> Report]
    BY <1>2, <1>3, EndsSound, FailsSound
  <2> QED
    BY <1>1, <2>1, ExecFrame DEF ExecInv
<1>4. CASE /\ new \notin {Absent, old} /\ FastForward(old, new)
           /\ run' = [run EXCEPT ![r].at = "pushing", ![r].saw = old, ![r].sent = new]
           /\ report' = report
  <2>1. dirs[d] \in Dir /\ SoundDir(dirs[d]) /\ SoundRepo(remote)
    BY DirOfRun DEF ExecInv
  <2>2. new = dirs[d].tips[run[r].name] /\ new # Absent
    BY <1>4
  <2>3. run[r].name \in Names
    BY DEF ExecInv, SoundRun, PushReads
  <2>4. new \in Commit /\ old \in Commit /\ Base \in new
    BY <2>1, <2>2, <2>3 DEF Dir, SoundDir, SoundRepo, Rooted
  <2>5. old \subseteq new
    BY <1>4 DEF FastForward
  <2>6. run' = [run EXCEPT ![r] = y]
    BY <1>4
  <2> HIDE DEF new, old
  <2>7. SoundRun(y)
    BY <1>2, <2>3, <2>4, <2>5 DEF SoundRun, Run, Steps
  <2> HIDE DEF y
  <2>8. run' \in [Runs -> Run] /\ (\A q \in Runs : SoundRun(run'[q]))
    BY <2>6, <2>7, OneRun
  <2> QED
    BY <1>1, <1>4, <2>8, ExecFrame DEF ExecInv
<1> QED
  BY <1>3, <1>4 DEF PushReads

LEMMA PushSteps ==
    ASSUME ExecInv, NEW r \in Runs, PushTaken(r) \/ PushRefused(r)
    PROVE  ExecInv' /\ (run[r].saw = remote[run[r].name] =>
                            \A n \in Names : remote[n] \subseteq remote'[n])
<1>1. /\ run[r] \in Run /\ run[r].name \in Names /\ run[r].ref \in Commit
      /\ run[r].saw \subseteq run[r].sent /\ Base \in run[r].sent /\ run[r].sent \in Commit
  BY DEF ExecInv, SoundRun, PushTaken, PushRefused, Run
<1>2. /\ run' \in [Runs -> Run] /\ (\A q \in Runs : SoundRun(run'[q]))
      /\ report' \in [Runs -> Report]
  BY <1>1, EndsSound, FailsSound DEF PushTaken, PushRefused
<1>3. UNCHANGED <<transport, task, dirs, made>>
  BY DEF PushTaken, PushRefused, Same
<1>4. odd' = odd \/ odd' \in [Runs -> SUBSET {"shared", "strayed", "unread", "refused", "answer lost"}]
  BY Befallen DEF PushTaken, PushRefused
<1>5. remote' = remote \/ remote' = [remote EXCEPT ![run[r].name] = run[r].sent]
  BY DEF PushTaken, PushRefused
<1>6. SoundRepo(remote')
  <2>1. SoundRepo(remote) /\ remote \in [Names -> Commit]
    BY DEF ExecInv, SoundRepo
  <2> QED
    BY <1>1, <1>5, <2>1, NameTypes DEF SoundRepo, Rooted
<1>7. ExecInv'
  BY <1>2, <1>3, <1>4, <1>6, ExecFrame DEF ExecInv
<1>8. ASSUME run[r].saw = remote[run[r].name], NEW n \in Names
      PROVE  remote[n] \subseteq remote'[n]
  BY <1>1, <1>5, <1>8 DEF ExecInv, SoundRepo
<1> QED
  BY <1>7, <1>8

LEMMA OthersStep ==
    ASSUME ExecInv, OthersPush
    PROVE  ExecInv' /\ (\A n \in Names : remote[n] \subseteq remote'[n])
<1>1. /\ remote' = [remote EXCEPT ![Main] = remote[Main] \cup {<<"other", 0>>}]
      /\ UNCHANGED <<transport, task, dirs, run, report, made, odd>>
  BY DEF OthersPush, Same
<1>2. remote[Main] \cup {<<"other", 0>>} \in Commit
  BY NameTypes, ValueTypes DEF ExecInv, SoundRepo, Commit
<1>3. SoundRepo(remote) /\ remote \in [Names -> Commit]
  BY DEF ExecInv, SoundRepo
<1>4. SoundRepo(remote') /\ (\A n \in Names : remote[n] \subseteq remote'[n])
  BY <1>1, <1>2, <1>3, NameTypes DEF SoundRepo, Rooted
<1>5. ExecInv'
  BY <1>1, <1>4, ExecFrame DEF ExecInv
<1> QED
  BY <1>4, <1>5

LEMMA ExecStep == ExecInv /\ [Next]_vars => ExecInv'
<1> SUFFICES ASSUME ExecInv, [Next]_vars PROVE ExecInv'
  OBVIOUS
<1>1. CASE UNCHANGED vars
  BY <1>1, ExecFrame DEF vars, ExecInv
<1>2. ASSUME NEW r \in Runs, Prepare(r) \/ Clone(r) \/ CheckOut(r)
      PROVE  ExecInv'
  BY <1>2, PrepareStep, CloneStep, CheckOutStep
<1>3. ASSUME NEW r \in Runs, AgentEdits(r) \/ AgentCommits(r) \/ AgentBranches(r)
      PROVE  ExecInv'
  BY <1>3, AgentSteps
<1>4. ASSUME NEW r \in Runs,
             GivesUp(r) \/ AgentFails(r) \/ AgentSucceeds(r) \/ GitFails(r) \/ Dies(r)
      PROVE  ExecInv'
  BY <1>4, EndSteps
<1>5. ASSUME NEW r \in Runs, CommitAll(r) \/ PushReads(r) \/ PushTaken(r) \/ PushRefused(r)
      PROVE  ExecInv'
  BY <1>5, CommitAllStep, PushReadsStep, PushSteps
<1>6. ASSUME NEW r \in Runs, StatusUnread(r)
      PROVE  ExecInv'
  BY <1>6, UnreadStep
<1> QED
  BY <1>1, <1>2, <1>3, <1>4, <1>5, <1>6, OthersStep DEF Next

LEMMA ExecInvHolds == Spec => []ExecInv
BY ExecInit, ExecStep, PTL DEF Spec

-----------------------------------------------------------------------------
(* The repository.                                                         *)

\* TypeOK of TaskExecution: in particular a clone always has a commit checked
\* out that goes back to the repository's first one.
THEOREM ClonesHaveHistory == Spec => []TypeOK
<1>1. ExecInv => TypeOK
  <2> SUFFICES ASSUME ExecInv PROVE TypeOK
    OBVIOUS
  <2>1. \A d \in Dirs : dirs[d].is = "clone" => <<"base", 0>> \in dirs[d].tips[dirs[d].head]
    BY DEF ExecInv, SoundDir, Base
  <2> QED
    BY <2>1 DEF ExecInv, TypeOK, SoundRepo
<1> QED
  BY <1>1, ExecInvHolds, PTL

LEMMA NothingOverwrittenStep ==
    ASSUME ExecInv, [Next]_vars, NEW n \in Names, ~(remote[n] \subseteq remote'[n])
    PROVE  \E r \in Runs : transport = "file" /\ run[r].name = n /\ run[r].saw # remote[n]
<1>1. remote' # remote
  OBVIOUS
<1>2. PICK r \in Runs : PushTaken(r)
  <2>1. ASSUME NEW p \in Runs, Prepare(p) \/ Clone(p) \/ CheckOut(p) \/ GivesUp(p)
        PROVE  remote' = remote
    BY <2>1 DEF Prepare, Clone, CheckOut, GivesUp
  <2>2. ASSUME NEW p \in Runs, \/ AgentEdits(p) \/ AgentCommits(p) \/ AgentBranches(p)
                               \/ AgentFails(p) \/ AgentSucceeds(p) \/ StatusUnread(p)
        PROVE  remote' = remote
    BY <2>2 DEF AgentEdits, AgentCommits, AgentBranches, AgentFails, AgentSucceeds, StatusUnread
  <2>3. ASSUME NEW p \in Runs, \/ CommitAll(p) \/ GitFails(p) \/ PushReads(p)
                               \/ PushRefused(p) \/ Dies(p)
        PROVE  remote' = remote
    BY <2>3 DEF CommitAll, GitFails, PushReads, PushRefused, Dies
  <2>4. ~OthersPush
    BY OthersStep
  <2>5. ~UNCHANGED vars
    BY <1>1 DEF vars
  <2> QED
    BY <1>1, <2>1, <2>2, <2>3, <2>4, <2>5 DEF Next
<1>3. run[r].saw # remote[run[r].name]
  BY <1>2, PushSteps
<1>4. transport = "file"
  BY <1>2, <1>3 DEF PushTaken, Takes, ExecInv
<1>5. run[r].name = n
  BY <1>2 DEF PushTaken, ExecInv, SoundRepo
<1> QED
  BY <1>3, <1>4, <1>5

\* NothingOverwritten of TaskExecution: no push takes a commit out of a branch,
\* but for two that overlap in a file:// repository.
THEOREM PushesOnlyAdd == Spec => NothingOverwritten
<1>1. ExecInv /\ [Next]_vars =>
        [\A n \in Names : remote[n] \subseteq remote'[n] \/
            \E r \in Runs : transport = "file" /\ run[r].name = n /\ run[r].saw # remote[n]]_vars
  BY NothingOverwrittenStep
<1> QED
  BY <1>1, ExecInvHolds, PTL DEF Spec, NothingOverwritten

-----------------------------------------------------------------------------
(* Who a step disturbs.                                                    *)

Step(p) ==
    \/ Prepare(p) \/ Clone(p) \/ CheckOut(p) \/ GivesUp(p)
    \/ AgentEdits(p) \/ AgentCommits(p) \/ AgentBranches(p)
    \/ AgentFails(p) \/ AgentSucceeds(p) \/ StatusUnread(p)
    \/ CommitAll(p) \/ GitFails(p) \/ PushReads(p) \/ PushTaken(p) \/ PushRefused(p)
    \/ Dies(p)

\* A run that nobody was let in with has its work directory to itself.
Alone ==
    \A r, q \in Runs : "shared" \notin odd[r] /\ q # r /\ Working(r) /\ Working(q)
                            => DirOf(q) # DirOf(r)

LEMMA OddGrows ==
    ASSUME ExecInv, NEW p \in Runs, Step(p)
    PROVE  \A q \in Runs : odd[q] \subseteq odd'[q]
<1>1. odd' = odd \/ (\E who, what : Befalls(who, what))
  BY DEF Step, Prepare, Clone, CheckOut, GivesUp, AgentEdits, AgentCommits, AgentBranches,
     AgentFails, AgentSucceeds, StatusUnread, CommitAll, GitFails, PushReads, PushTaken,
     PushRefused, Dies
<1> QED
  BY <1>1 DEF Befalls

\* A step of p changes the progress of p alone, and no directory but its own.
LEMMA EndsFrame ==
    ASSUME ExecInv, NEW p \in Runs, NEW st, NEW b, NEW c, Ends(p, st, b, c)
    PROVE  /\ \A q \in Runs : q # p => run'[q] = run[q] /\ report'[q] = report[q]
           /\ run'[p].at = "done"
           /\ report'[p] = report[p] \/ report'[p] = [status |-> st, branch |-> b, ref |-> c]
<1>1. /\ \A q \in Runs : q # p => run'[q] = run[q]
      /\ run'[p] = [NotStarted EXCEPT !.at = "done"]
  BY DEF Ends, ExecInv
<1>2. run'[p].at = "done"
  BY <1>1 DEF NotStarted
<1>3. /\ \A q \in Runs : q # p => report'[q] = report[q]
      /\ report'[p] = report[p] \/ report'[p] = [status |-> st, branch |-> b, ref |-> c]
  BY DEF Ends, ExecInv
<1> QED
  BY <1>1, <1>2, <1>3

LEMMA StepFrame ==
    ASSUME ExecInv, NEW p \in Runs, Step(p)
    PROVE  /\ UNCHANGED <<transport, task>>
           /\ \A q \in Runs : q # p => /\ run'[q] = run[q] /\ report'[q] = report[q]
                                       /\ made'[q] = made[q]
           /\ \A d \in Dirs : d # DirOf(p) => dirs'[d] = dirs[d]
           /\ dirs' # dirs => run'[p].at \notin {"idle", "done"}
           /\ run[p].at # "done"
           /\ run[p].at = "idle" /\ run'[p].at \notin {"idle", "done"} => Prepare(p)
           /\ remote' = remote \/ PushTaken(p)
<1>1. /\ run \in [Runs -> Run] /\ report \in [Runs -> Report] /\ made \in [Runs -> 0 .. MaxChanges]
      /\ dirs \in [Dirs -> Dir] /\ DirOf(p) \in Dirs
  BY DirOfRun DEF ExecInv
<1>2. CASE Prepare(p) \/ Clone(p) \/ CheckOut(p) \/ CommitAll(p)
  <2>1. /\ UNCHANGED <<transport, task, remote, report, made>> /\ run[p].at # "done"
        /\ run[p].at = "idle" => Prepare(p)
    BY <1>2 DEF Prepare, Clone, CheckOut, CommitAll, Same
  <2>2. \A q \in Runs : q # p => run'[q] = run[q]
    BY <1>1, <1>2 DEF Prepare, Clone, CheckOut, CommitAll
  <2>3. \A d \in Dirs : d # DirOf(p) => dirs'[d] = dirs[d]
    BY <1>1, <1>2 DEF Prepare, Clone, CheckOut, CommitAll
  <2>4. run'[p].at \in {"clone", "checkout", "agent", "push"}
    <3>1. Prepare(p) => run'[p].at = "clone"
      BY <1>1 DEF Prepare, Run
    <3>2. Clone(p) => run'[p].at = "checkout"
      BY <1>1 DEF Clone, Run
    <3>3. CheckOut(p) => run'[p].at = "agent"
      BY <1>1 DEF CheckOut, Run
    <3>4. CommitAll(p) => run'[p].at = "push"
      BY CommitAllPushes
    <3> QED
      BY <1>2, <3>1, <3>2, <3>3, <3>4
  <2> QED
    BY <2>1, <2>2, <2>3, <2>4
<1>3. CASE AgentEdits(p) \/ AgentCommits(p) \/ AgentBranches(p)
  <2>1. /\ UNCHANGED <<transport, task, remote, report, run>>
        /\ run[p].at \in {"agent", "name"}
    BY <1>3 DEF AgentEdits, AgentCommits, AgentBranches, AgentRuns, Same
  <2>2. \A q \in Runs : q # p => made'[q] = made[q]
    BY <1>1, <1>3 DEF AgentEdits, AgentCommits, AgentBranches
  <2>3. \A d \in Dirs : d # DirOf(p) => dirs'[d] = dirs[d]
    BY <1>1, <1>3 DEF AgentEdits, AgentCommits, AgentBranches
  <2> QED
    BY <2>1, <2>2, <2>3
<1>4. CASE GivesUp(p) \/ AgentFails(p) \/ AgentSucceeds(p) \/ GitFails(p) \/ PushReads(p) \/ Dies(p)
  <2>1. UNCHANGED <<transport, task, remote, dirs, made>> /\ run[p].at # "done"
    BY <1>4 DEF GivesUp, AgentFails, AgentSucceeds, GitFails, PushReads, Dies, Working, Same
  <2>2. run[p].at # "idle" \/ run'[p].at = "done"
    BY <1>4, EndsFrame
    DEF GivesUp, AgentFails, AgentSucceeds, GitFails, PushReads, Dies, Working
  <2>3. \A q \in Runs : q # p => run'[q] = run[q] /\ report'[q] = report[q]
    <3>1. CASE \E st, b, c : Ends(p, st, b, c)
      BY <3>1, EndsFrame
    <3>2. CASE report' = report /\ (\E y : run' = [run EXCEPT ![p] = y])
      BY <1>1, <3>2
    <3> QED
      BY <1>4, <3>1, <3>2
      DEF GivesUp, AgentFails, AgentSucceeds, GitFails, PushReads, Dies, Fails
  <2> QED
    BY <2>1, <2>2, <2>3
<1>5. CASE PushTaken(p) \/ PushRefused(p)
  <2>1. /\ UNCHANGED <<transport, task, dirs, made>> /\ run[p].at = "pushing"
        /\ remote' = remote \/ PushTaken(p)
    BY <1>5 DEF PushTaken, PushRefused, Same
  <2>2. \A q \in Runs : q # p => run'[q] = run[q] /\ report'[q] = report[q]
    BY <1>5, EndsFrame DEF PushTaken, PushRefused, Fails
  <2> QED
    BY <2>1, <2>2
<1>6. CASE StatusUnread(p)
  <2>1. UNCHANGED <<transport, task, remote, dirs, made>> /\ run[p].at = "agent"
    BY <1>6 DEF StatusUnread, Same
  <2>2. run'[p].at = "done" /\ (\A q \in Runs : q # p => run'[q] = run[q] /\ report'[q] = report[q])
    BY <1>6, EndsFrame DEF StatusUnread
  <2> QED
    BY <2>1, <2>2
<1> QED
  BY <1>2, <1>3, <1>4, <1>5, <1>6 DEF Step

LEMMA NextIsSteps ==
    ASSUME [Next]_vars
    PROVE  (\E p \in Runs : Step(p)) \/ OthersPush \/ UNCHANGED vars
BY DEF Next, Step

LEMMA AloneStep ==
    ASSUME ExecInv, Alone, [Next]_vars
    PROVE  Alone'
<1>1. CASE OthersPush \/ UNCHANGED vars
  BY <1>1 DEF OthersPush, vars, Same, Alone, Working, DirOf
<1>2. ASSUME NEW p \in Runs, Step(p)
      PROVE  Alone'
  <2> SUFFICES ASSUME NEW r \in Runs, NEW q \in Runs, "shared" \notin odd'[r], q # r,
                      Working(r)', Working(q)'
               PROVE  DirOf(q)' # DirOf(r)'
    BY DEF Alone
  <2>1. "shared" \notin odd[r] /\ task' = task
    BY <1>2, OddGrows, StepFrame
  <2>2. DirOf(q)' = DirOf(q) /\ DirOf(r)' = DirOf(r)
    BY <2>1 DEF DirOf
  <2>3. CASE Working(r) /\ Working(q)
    BY <2>1, <2>2, <2>3 DEF Alone
  <2>4. CASE ~Working(r)
    <3>1. r = p /\ Prepare(r) /\ Working(q)
      BY <1>2, <2>4, StepFrame DEF Working
    <3>2. "shared" \notin odd'[r] => ~(Working(q) /\ DirOf(q) = DirOf(r))
      BY <3>1 DEF Prepare, Befalls
    <3> QED
      BY <2>2, <3>1, <3>2
  <2>5. CASE ~Working(q)
    <3>1. q = p /\ Prepare(q) /\ Working(r)
      BY <1>2, <2>5, StepFrame DEF Working
    <3>2. "shared" \notin odd'[r] => ~(Working(r) /\ DirOf(q) = DirOf(r))
      BY <3>1 DEF Prepare, Befalls
    <3> QED
      BY <2>2, <3>1, <3>2
  <2> QED
    BY <2>3, <2>4, <2>5
<1> QED
  BY <1>1, <1>2, NextIsSteps

\* .. so that the steps of others leave its directory as it is.
LEMMA MineIsMine ==
    ASSUME ExecInv, Alone', NEW p \in Runs, Step(p), NEW r \in Runs, r # p,
           Working(r), "shared" \notin odd'[r]
    PROVE  dirs'[DirOf(r)] = dirs[DirOf(r)] /\ DirOf(r)' = DirOf(r)
<1>1. DirOf(r)' = DirOf(r) /\ DirOf(p)' = DirOf(p) /\ Working(r)'
  BY StepFrame DEF DirOf, Working
<1>2. CASE dirs' = dirs
  BY <1>1, <1>2
<1>3. CASE dirs' # dirs
  <2>1. Working(p)'
    BY <1>3, StepFrame DEF Working
  <2>2. DirOf(r) # DirOf(p)
    BY <1>1, <2>1 DEF Alone
  <2> QED
    BY <1>1, <2>2, StepFrame, DirOfRun
<1> QED
  BY <1>2, <1>3

-----------------------------------------------------------------------------
(* A success carries the work.                                             *)

\* Where the changes of the agent of r are, by the step r is at, while nothing
\* has befallen r that its worker does not notice.
Carries(r) ==
    /\ run[r].at \in {"idle", "clone", "checkout"} => made[r] = 0
    /\ run[r].at \in {"agent", "name"} =>
            /\ dirs[DirOf(r)].is = "clone" /\ dirs[DirOf(r)].head = run[r].name
            /\ Work(r) \subseteq dirs[DirOf(r)].dirty
    /\ run[r].at = "push" =>
            /\ dirs[DirOf(r)].is = "clone"
            /\ Work(r) \subseteq dirs[DirOf(r)].tips[run[r].name]
    /\ run[r].at = "pushing" => Work(r) \subseteq run[r].sent
    /\ run[r].at = "done" /\ report[r].status = "success" =>
            report[r].branch \in Names /\ Work(r) \subseteq remote[report[r].branch]

CarryInv ==
    /\ Alone
    /\ \A r \in Runs : run[r].at # "done" => report[r].status = "none"
    /\ transport = "https" => \A r \in Runs : odd[r] = {} => Carries(r)

LEMMA CarryInit == Init => CarryInv
<1> SUFFICES ASSUME Init PROVE CarryInv
  OBVIOUS
<1>1. \A r \in Runs : run[r].at = "idle" /\ report[r].status = "none" /\ made[r] = 0
  BY DEF Init, NotStarted, NoReport
<1>2. Alone
  BY <1>1 DEF Alone, Working
<1>3. \A r \in Runs : Carries(r)
  BY <1>1 DEF Carries
<1> QED
  BY <1>1, <1>2, <1>3 DEF CarryInv

\* Steps of others: the directory is r's own, and the repository only grows.
LEMMA OthersCarry ==
    ASSUME ExecInv, CarryInv, Alone', NEW p \in Runs, Step(p), NEW r \in Runs, r # p,
           odd'[r] = {}, transport = "https"
    PROVE  Carries(r)'
<1>1. /\ odd[r] = {} /\ Carries(r)
      /\ run'[r] = run[r] /\ report'[r] = report[r] /\ made'[r] = made[r]
  BY OddGrows, StepFrame DEF CarryInv
<1>2. Work(r)' = Work(r)
  BY <1>1 DEF Work
<1>3. Working(r) => dirs'[DirOf(r)] = dirs[DirOf(r)] /\ DirOf(r)' = DirOf(r)
  BY MineIsMine
<1>4. \A n \in Names : remote[n] \subseteq remote'[n]
  <2>1. CASE remote' = remote
    BY <2>1
  <2>2. CASE PushTaken(p)
    BY <2>2, PushSteps DEF PushTaken, Takes
  <2> QED
    BY <2>1, <2>2, StepFrame
<1> QED
  BY <1>1, <1>2, <1>3, <1>4 DEF Carries, Working

\* Steps of r itself that are not the end of it.
LEMMA OwnCarry ==
    ASSUME ExecInv, CarryInv, NEW r \in Runs, odd'[r] = {}, transport = "https",
           \/ Prepare(r) \/ Clone(r) \/ CheckOut(r) \/ AgentEdits(r) \/ CommitAll(r)
    PROVE  Carries(r)'
<1>1. Step(r) /\ odd[r] = {} /\ Carries(r)
  BY OddGrows DEF Step, CarryInv
<1>2. /\ run[r] \in Run /\ run \in [Runs -> Run] /\ dirs \in [Dirs -> Dir]
      /\ DirOf(r) \in Dirs /\ dirs[DirOf(r)] \in Dir /\ made \in [Runs -> 0 .. MaxChanges]
      /\ DirOf(r)' = DirOf(r)
  BY <1>1, DirOfRun, StepFrame DEF ExecInv, DirOf
<1>3. CASE Prepare(r) \/ Clone(r)
  <2>1. made' = made /\ made[r] = 0 /\ run'[r].at \in {"clone", "checkout"}
    BY <1>1, <1>2, <1>3 DEF Prepare, Clone, Carries, Run
  <2> QED
    BY <2>1 DEF Carries
<1>4. CASE CheckOut(r)
  <2>1. made' = made /\ made[r] = 0 /\ dirs[DirOf(r)].is = "clone"
    BY <1>1, <1>4 DEF CheckOut, Carries, HasClone
  <2>2. run'[r].at = "agent" /\ run'[r].name = WorkBranch(r)
    BY <1>2, <1>4 DEF CheckOut, Run
  <2>3. dirs'[DirOf(r)].head = WorkBranch(r) /\ dirs'[DirOf(r)].is = "clone"
    BY <1>2, <1>4, <2>1 DEF CheckOut, Dir
  <2>4. Work(r)' = {}
    BY <2>1 DEF Work
  <2> QED
    BY <1>2, <2>2, <2>3, <2>4 DEF Carries
<1>5. CASE AgentEdits(r)
  <2>1. run' = run /\ run[r].at \in {"agent", "name"} /\ made'[r] = made[r] + 1
    BY <1>2, <1>5 DEF AgentEdits, AgentRuns
  <2>2. /\ dirs'[DirOf(r)].dirty = dirs[DirOf(r)].dirty \cup {<<r, made[r] + 1>>}
        /\ dirs'[DirOf(r)].is = dirs[DirOf(r)].is /\ dirs'[DirOf(r)].head = dirs[DirOf(r)].head
    BY <1>2, <1>5 DEF AgentEdits, Dir
  <2>3. Work(r)' = Work(r) \cup {<<r, made[r] + 1>>}
    BY <1>2, <2>1 DEF Work
  <2> QED
    BY <1>1, <1>2, <2>1, <2>2, <2>3 DEF Carries
<1>6. CASE CommitAll(r)
  <2>1. /\ run[r].at = "name" /\ dirs[DirOf(r)].is = "clone"
        /\ dirs[DirOf(r)].head = run[r].name /\ Work(r) \subseteq dirs[DirOf(r)].dirty
        /\ made' = made
    BY <1>1, <1>6 DEF CommitAll, Carries
  <2>2. PICK n \in Names : \E x :
          /\ x \in Dir /\ x.head = n /\ x.is = "clone" /\ x.dirty = dirs[DirOf(r)].dirty
          /\ dirs' = [dirs EXCEPT ![DirOf(r)] = Committed(x)]
          /\ run'[r].at = "push" /\ run'[r].name = n
    <3>1. CASE run[r].name = Planned(task[r].job)
      <4>1. PICK s \in Slugs :
              /\ dirs' = [dirs EXCEPT ![DirOf(r)] =
                            Committed(Renamed(dirs[DirOf(r)], DesiredBranch(r, s)))]
              /\ run'[r].at = "push" /\ run'[r].name = DesiredBranch(r, s)
        <5>1. PICK s \in Slugs :
                LET n == DesiredBranch(r, s)
                    x == Renamed(dirs[DirOf(r)], n)
                IN  /\ dirs' = [dirs EXCEPT ![DirOf(r)] = Committed(x)]
                    /\ run' = [run EXCEPT ![r].at = "push", ![r].name = n,
                                          ![r].ref = Committed(x).tips[x.head]]
          BY <1>6, <3>1 DEF CommitAll
        <5> QED
          BY <5>1, CommitAllRun
      <4>2. DesiredBranch(r, s) \in Names
        BY DirOfRun, NameTypes DEF DesiredBranch
      <4> DEFINE x == Renamed(dirs[DirOf(r)], DesiredBranch(r, s))
      <4>3. /\ x \in Dir /\ x.head = DesiredBranch(r, s) /\ x.is = "clone"
            /\ x.dirty = dirs[DirOf(r)].dirty
        BY <1>2, <2>1, <4>2, ValueTypes DEF Renamed, Dir
      <4> QED
        BY <4>1, <4>2, <4>3
    <3>2. CASE run[r].name # Planned(task[r].job)
      <4>1. /\ dirs' = [dirs EXCEPT ![DirOf(r)] = Committed(dirs[DirOf(r)])]
            /\ run'[r].at = "push" /\ run'[r].name = run[r].name
        BY <1>2, <1>6, <3>2 DEF CommitAll, Run
      <4>2. run[r].name \in Names
        BY <2>1, <1>2 DEF Dir
      <4> QED
        BY <1>2, <2>1, <4>1, <4>2
    <3> QED
      BY <3>1, <3>2
  <2>3. PICK x :
          /\ x \in Dir /\ x.head = n /\ x.is = "clone" /\ x.dirty = dirs[DirOf(r)].dirty
          /\ dirs' = [dirs EXCEPT ![DirOf(r)] = Committed(x)]
          /\ run'[r].at = "push" /\ run'[r].name = n
    BY <2>2
  <2>4. Committed(x).is = "clone" /\ Committed(x).tips[n] = x.tips[n] \cup x.dirty
    BY <2>3 DEF Committed, Dir
  <2>5. dirs'[DirOf(r)] = Committed(x)
    BY <1>2, <2>3
  <2>6. Work(r)' = Work(r)
    BY <2>1 DEF Work
  <2> QED
    BY <1>2, <2>1, <2>3, <2>4, <2>5, <2>6 DEF Carries
<1> QED
  BY <1>3, <1>4, <1>5, <1>6

\* A run that ends, not as a success.
LEMMA FailureCarries ==
    ASSUME ExecInv, CarryInv, NEW r \in Runs, run[r].at # "done", run'[r].at = "done",
           report'[r] = report[r] \/ report'[r].status = "failed"
    PROVE  Carries(r)'
<1>1. report'[r].status # "success"
  BY DEF CarryInv
<1> QED
  BY <1>1 DEF Carries

LEMMA EndCarry ==
    ASSUME ExecInv, CarryInv, NEW r \in Runs, odd'[r] = {}, transport = "https",
           \/ AgentFails(r) \/ AgentSucceeds(r) \/ GivesUp(r) \/ GitFails(r) \/ Dies(r)
           \/ PushReads(r) \/ PushTaken(r)
    PROVE  Carries(r)'
<1> DEFINE d == DirOf(r)
<1>1. Step(r) /\ odd[r] = {} /\ Carries(r) /\ run[r].at # "done"
  BY OddGrows, StepFrame DEF Step, CarryInv
<1>2. /\ run[r] \in Run /\ run \in [Runs -> Run] /\ dirs[d] \in Dir /\ made' = made
      /\ DirOf(r)' = d /\ SoundRun(run[r]) /\ remote \in [Names -> Commit]
  BY <1>1, DirOfRun, StepFrame
  DEF ExecInv, DirOf, AgentFails, AgentSucceeds, GivesUp, GitFails, Dies, PushReads, PushTaken,
      SoundRepo
<1>3. Work(r)' = Work(r)
  BY <1>2 DEF Work
<1>4. ASSUME NEW b, NEW c, Ends(r, "failed", b, c)
      PROVE  Carries(r)'
  <2>1. run'[r].at = "done"
        /\ (report'[r] = report[r] \/ report'[r] = [status |-> "failed", branch |-> b, ref |-> c])
    BY <1>4, EndsFrame
  <2> QED
    BY <1>1, <2>1, FailureCarries
<1>5. ASSUME NEW c, Ends(r, "success", run[r].name, c), run[r].name \in Names,
             Work(r) \subseteq remote'[run[r].name]
      PROVE  Carries(r)'
  <2>1. run'[r].at = "done"
        /\ (report'[r] = report[r] \/ report'[r] = [status |-> "success", branch |-> run[r].name,
                                                    ref |-> c])
    BY <1>5, EndsFrame
  <2>2. CASE report'[r] = report[r]
    BY <1>1, <2>1, <2>2, FailureCarries
  <2>3. CASE report'[r] = [status |-> "success", branch |-> run[r].name, ref |-> c]
    BY <1>3, <1>5, <2>1, <2>3 DEF Carries
  <2> QED
    BY <2>1, <2>2, <2>3
<1>6. CASE AgentFails(r) \/ GivesUp(r) \/ GitFails(r)
  <2>1. \/ Ends(r, "failed", run[r].name, Absent) \/ Ends(r, "failed", NoName, Absent)
        \/ Ends(r, "failed", run[r].name, run[r].ref)
    BY <1>6 DEF AgentFails, GivesUp, GitFails, Fails
  <2> QED
    BY <1>4, <2>1
<1>7. CASE Dies(r)
  <2>1. run'[r].at = "done" /\ report' = report
    BY <1>2, <1>7 DEF Dies, NotStarted
  <2> QED
    BY <1>1, <2>1, FailureCarries
<1>8. CASE AgentSucceeds(r)
  <2>1. /\ run[r].at = "agent" /\ run[r].name \in Names /\ remote' = remote /\ dirs' = dirs
        /\ dirs[d].is = "clone" /\ dirs[d].head = run[r].name /\ Work(r) \subseteq dirs[d].dirty
    BY <1>1, <1>2, <1>8 DEF AgentSucceeds, Carries, SoundRun
  <2>2. CASE Clean(r) /\ Ends(r, "success", run[r].name, HeadOf(r))
    <3>1. Work(r) = {}
      BY <2>1, <2>2 DEF Clean, HasClone
    <3> QED
      BY <1>5, <2>1, <2>2, <3>1
  <2>3. CASE run' = [run EXCEPT ![r].at = "name", ![r].ref = HeadOf(r)]
    <3>1. run'[r].at = "name" /\ run'[r].name = run[r].name
      BY <1>2, <2>3 DEF Run
    <3> QED
      BY <1>2, <1>3, <2>1, <3>1 DEF Carries
  <2> QED
    BY <1>8, <2>2, <2>3 DEF AgentSucceeds
<1>9. CASE PushReads(r)
  <2> DEFINE new == IF HasClone(r) /\ run[r].name # HEAD THEN dirs[d].tips[run[r].name]
                    ELSE Absent
             old == remote[run[r].name]
  <2>1. /\ run[r].at = "push" /\ run[r].name \in Names /\ remote' = remote
        /\ Work(r) \subseteq dirs[d].tips[run[r].name]
    BY <1>1, <1>2, <1>9 DEF PushReads, Carries, SoundRun
  <2>2. CASE new = old /\ new # Absent /\ Ends(r, "success", run[r].name, run[r].ref)
    <3>1. Work(r) \subseteq old
      BY <2>1, <2>2
    <3> QED
      BY <1>5, <2>1, <2>2, <3>1
  <2>3. CASE Fails(r)
    BY <1>4, <2>3 DEF Fails
  <2>4. CASE /\ new \notin {Absent, old}
             /\ run' = [run EXCEPT ![r].at = "pushing", ![r].saw = old, ![r].sent = new]
    <3>1. Work(r) \subseteq new
      BY <2>1, <2>4
    <3> HIDE DEF new, old
    <3>2. run'[r].at = "pushing" /\ run'[r].sent = new
      BY <1>2, <2>4 DEF Run
    <3> QED
      BY <1>3, <3>1, <3>2 DEF Carries
  <2> QED
    BY <1>9, <2>2, <2>3, <2>4 DEF PushReads
<1>10. CASE PushTaken(r)
  <2>1. /\ run[r].at = "pushing" /\ run[r].name \in Names /\ Work(r) \subseteq run[r].sent
        /\ remote' = [remote EXCEPT ![run[r].name] = run[r].sent]
    BY <1>1, <1>2, <1>10 DEF PushTaken, Carries, SoundRun
  <2>2. CASE Ends(r, "success", run[r].name, run[r].ref)
    BY <1>2, <1>5, <2>1, <2>2
  <2>3. CASE Fails(r)
    BY <1>4, <2>3 DEF Fails
  <2> QED
    BY <1>10, <2>2, <2>3 DEF PushTaken
<1> QED
  BY <1>6, <1>7, <1>8, <1>9, <1>10

\* The agent's own commits and branches, an unread status and a refused push leave
\* their mark.
LEMMA MarkedSteps ==
    ASSUME ExecInv, NEW r \in Runs,
           AgentCommits(r) \/ AgentBranches(r) \/ StatusUnread(r) \/ PushRefused(r)
    PROVE  odd'[r] # {}
<1>1. AgentCommits(r) \/ AgentBranches(r) => r \in Users(DirOf(r))
  BY DEF AgentCommits, AgentBranches, AgentRuns, Users, Working
<1> QED
  BY <1>1 DEF AgentCommits, AgentBranches, StatusUnread, PushRefused, Befalls

LEMMA ReportsAtTheEnd ==
    ASSUME ExecInv, NEW p \in Runs, Step(p),
           \A r \in Runs : run[r].at # "done" => report[r].status = "none"
    PROVE  \A r \in Runs : run'[r].at # "done" => report'[r].status = "none"
<1>1. run'[p].at = "done" \/ report' = report
  BY EndsFrame DEF Step, Prepare, Clone, CheckOut, GivesUp, AgentEdits, AgentCommits,
     AgentBranches, AgentFails, AgentSucceeds, StatusUnread, CommitAll, GitFails, PushReads,
     PushTaken, PushRefused, Dies, Fails
<1> QED
  BY <1>1, StepFrame

LEMMA CarryStep ==
    ASSUME ExecInv, CarryInv, [Next]_vars
    PROVE  CarryInv'
<1>1. Alone'
  BY AloneStep DEF CarryInv
<1>2. CASE UNCHANGED vars
  BY <1>1, <1>2 DEF vars, CarryInv, Carries, Work, DirOf
<1>3. CASE OthersPush
  <2>1. UNCHANGED <<transport, task, dirs, run, report, made, odd>>
    BY <1>3 DEF OthersPush, Same
  <2>2. \A n \in Names : remote[n] \subseteq remote'[n]
    BY <1>3, OthersStep
  <2>3. \A r \in Runs : Carries(r) => Carries(r)'
    BY <2>1, <2>2 DEF Carries, Work, DirOf
  <2> QED
    BY <1>1, <2>1, <2>3 DEF CarryInv
<1>4. ASSUME NEW p \in Runs, Step(p)
      PROVE  CarryInv'
  <2>1. \A r \in Runs : run'[r].at # "done" => report'[r].status = "none"
    BY <1>4, ReportsAtTheEnd DEF CarryInv
  <2>2. ASSUME NEW r \in Runs, odd'[r] = {}, transport = "https"
        PROVE  Carries(r)'
    <3>1. CASE r # p
      BY <1>1, <1>4, <2>2, <3>1, OthersCarry
    <3>2. CASE r = p
      BY <1>4, <2>2, <3>2, OwnCarry, EndCarry, MarkedSteps DEF Step
    <3> QED
      BY <3>1, <3>2
  <2>3. transport' = transport
    BY <1>4, StepFrame
  <2> QED
    BY <1>1, <2>1, <2>2, <2>3 DEF CarryInv
<1> QED
  BY <1>2, <1>3, <1>4, NextIsSteps

LEMMA CarryInvHolds == Spec => []CarryInv
BY ExecInit, CarryInit, ExecInvHolds, CarryStep, PTL DEF Spec

\* SuccessCarriesTheWork of TaskExecution: a run reported as a success has its
\* agent's changes on the branch it reports, except after one of the four
\* things that a worker does not notice.
THEOREM SuccessMeansPushed == Spec => []SuccessCarriesTheWork
<1>1. ExecInv /\ CarryInv => SuccessCarriesTheWork
  <2> SUFFICES ASSUME ExecInv, CarryInv, NEW r \in Runs, transport = "https",
                      report[r].status = "success", odd[r] = {}
               PROVE  Work(r) \subseteq remote[report[r].branch]
    BY DEF SuccessCarriesTheWork
  <2> QED
    BY DEF CarryInv, Carries
<1> QED
  BY <1>1, ExecInvHolds, CarryInvHolds, PTL

-----------------------------------------------------------------------------
(* A failure leaves nothing.                                               *)

Mine(r) == {r} \X (1 .. MaxChanges)
Free(r, c) == c \cap Mine(r) = {}
FreeDir(r, x) == Free(r, x.dirty) /\ (\A n \in Names : Free(r, x.tips[n]))

\* Nothing of r has left its own directory, and no other run uses that.
Kept(r) ==
    /\ \A n \in Names : Free(r, remote[n])
    /\ \A q \in Runs : q # r => /\ run[q].at = "pushing" => Free(r, run[q].sent)
                                /\ Working(q) => FreeDir(r, dirs[DirOf(q)])

\* .. or it is over, and was not reported as failed though its push was taken.
Out(r) == run[r].at = "done" /\ (report[r].status = "failed" => "answer lost" \in odd[r])

FailInv ==
    /\ Alone
    /\ \A r \in Runs : run[r].at # "done" => report[r].status = "none"
    /\ \A r \in Runs : "shared" \notin odd[r] => Kept(r) \/ Out(r)

LEMMA FreeFacts ==
    ASSUME NEW r \in Runs
    PROVE  /\ Free(r, {}) /\ Free(r, {<<"base", 0>>}) /\ Free(r, {<<"other", 0>>})
           /\ \A q \in Runs : q # r => \A k : Free(r, {<<q, k>>})
           /\ \A c, e : Free(r, c) /\ Free(r, e) => Free(r, c \cup e)
BY DEF Free, Mine

LEMMA FailInit == Init => FailInv
<1> SUFFICES ASSUME Init PROVE FailInv
  OBVIOUS
<1>1. \A r \in Runs : run[r].at = "idle" /\ report[r].status = "none"
  BY DEF Init, NotStarted, NoReport
<1>2. Alone
  BY <1>1 DEF Alone, Working
<1>3. \A n \in Names : remote[n] = {} \/ remote[n] = {<<"base", 0>>}
  BY DEF Init, NoTips, Absent
<1>4. \A r \in Runs : Kept(r)
  BY <1>1, <1>3, FreeFacts DEF Kept, Working
<1> QED
  BY <1>1, <1>2, <1>4 DEF FailInv

\* What another run does in a directory that is free of r leaves it free.
LEMMA StaysFree ==
    ASSUME ExecInv, NEW r \in Runs, NEW p \in Runs, r # p, Step(p),
           \A n \in Names : Free(r, remote[n]),
           FreeDir(r, dirs[DirOf(p)]) \/ Prepare(p)
    PROVE  FreeDir(r, dirs'[DirOf(p)])
<1> DEFINE d == DirOf(p)
           o == dirs[d]
<1>1. d \in Dirs /\ o \in Dir /\ dirs \in [Dirs -> Dir] /\ o.head \in Names
      /\ o.tips \in [Names -> Commit] /\ SoundDir(o)
  BY DirOfRun DEF ExecInv, Dir
<1>2. CASE Prepare(p)
  <2>1. dirs'[d] = Prepared(o)
    BY <1>1, <1>2 DEF Prepare
  <2>2. Prepared(o).dirty = {} /\ Prepared(o).tips = NoTips
    BY DEF Prepared, NoDir
  <2> QED
    BY <2>1, <2>2, FreeFacts DEF FreeDir, NoTips, Absent
<1>3. CASE Clone(p)
  <2>1. dirs'[d].dirty = o.dirty /\ dirs'[d].tips = [o.tips EXCEPT ![Main] = remote[Main]]
    BY <1>1, <1>3 DEF Clone, Dir
  <2> QED
    BY <1>1, <1>3, <2>1, NameTypes DEF FreeDir, Prepare, Clone
<1>4. CASE CheckOut(p)
  <2>1. /\ dirs'[d].dirty = o.dirty
        /\ dirs'[d].tips = [o.tips EXCEPT ![WorkBranch(p)] = o.tips[Main]]
    BY <1>1, <1>4 DEF CheckOut, Dir
  <2>2. FreeDir(r, o)
    BY <1>4 DEF CheckOut, Prepare
  <2>3. \A n \in Names : dirs'[d].tips[n] = o.tips[n] \/ dirs'[d].tips[n] = o.tips[Main]
    BY <1>1, <2>1
  <2>4. \A n \in Names : Free(r, dirs'[d].tips[n])
    BY <2>2, <2>3, NameTypes DEF FreeDir
  <2> QED
    BY <2>1, <2>2, <2>4 DEF FreeDir
<1>5. CASE AgentEdits(p)
  <2>1. /\ dirs'[d].dirty = o.dirty \cup {<<p, made[p] + 1>>} /\ dirs'[d].tips = o.tips
        /\ FreeDir(r, o)
    BY <1>1, <1>5 DEF AgentEdits, AgentRuns, Dir, Prepare
  <2>2. Free(r, {<<p, made[p] + 1>>})
    BY FreeFacts
  <2>3. Free(r, o.dirty \cup {<<p, made[p] + 1>>})
    BY <2>1, <2>2, FreeFacts DEF FreeDir
  <2> HIDE DEF d, o
  <2>4. FreeDir(r, dirs'[d])
    BY <2>1, <2>3 DEF FreeDir
  <2> QED
    BY <2>4 DEF d
<1>6. ASSUME NEW x \in Dir, FreeDir(r, x)
      PROVE  FreeDir(r, Committed(x))
  <2>1. x.head \in Names /\ x.tips \in [Names -> Commit]
    BY DEF Dir
  <2>2. Committed(x).dirty = {} /\ Committed(x).tips = [x.tips EXCEPT ![x.head] = @ \cup x.dirty]
    BY <1>6, <2>1 DEF Committed, Dir
  <2> QED
    BY <1>6, <2>1, <2>2, FreeFacts DEF FreeDir
<1>7. CASE AgentCommits(p)
  <2>1. dirs'[d] = Committed(o) /\ FreeDir(r, o)
    BY <1>1, <1>7 DEF AgentCommits, AgentRuns, Prepare
  <2> QED
    BY <1>1, <1>6, <2>1
<1>8. CASE AgentBranches(p)
  <2>1. PICK s \in Slugs : dirs' = [dirs EXCEPT ![d].head = Slugged(s),
                                                ![d].tips[Slugged(s)] = o.tips[o.head]]
    BY <1>8 DEF AgentBranches, Tip
  <2>2. dirs'[d].dirty = o.dirty /\ dirs'[d].tips = [o.tips EXCEPT ![Slugged(s)] = o.tips[o.head]]
    BY <1>1, <2>1 DEF Dir
  <2>3. FreeDir(r, o)
    BY <1>8 DEF AgentBranches, AgentRuns, Prepare
  <2> QED
    BY <1>1, <2>2, <2>3 DEF FreeDir
<1>9. CASE CommitAll(p)
  <2>1. FreeDir(r, o)
    BY <1>9 DEF CommitAll, Prepare
  <2>2. CASE run[p].name = Planned(task[p].job)
    <3>1. PICK s \in Slugs :
            dirs' = [dirs EXCEPT ![d] = Committed(Renamed(o, DesiredBranch(p, s)))]
      BY <1>9, <2>2 DEF CommitAll
    <3> DEFINE n == DesiredBranch(p, s)
    <3>2. n \in Names
      BY DirOfRun, NameTypes DEF DesiredBranch
    <3> HIDE DEF n
    <3>3. /\ Renamed(o, n) \in Dir /\ Renamed(o, n).dirty = o.dirty
          /\ Renamed(o, n).tips = [o.tips EXCEPT ![n] = o.tips[o.head], ![o.head] = Absent]
      BY <1>1, <3>2, ValueTypes DEF Renamed, Dir
    <3>4. FreeDir(r, Renamed(o, n))
      BY <1>1, <2>1, <3>2, <3>3, FreeFacts DEF FreeDir, Absent
    <3> QED
      BY <1>1, <1>6, <3>1, <3>3, <3>4 DEF n
  <2>3. CASE run[p].name # Planned(task[p].job)
    <3>1. dirs' = [dirs EXCEPT ![d] = Committed(o)]
      BY <1>9, <2>3 DEF CommitAll
    <3> QED
      BY <1>1, <1>6, <2>1, <3>1
  <2> QED
    BY <2>2, <2>3
<1>10. CASE dirs' = dirs /\ ~Prepare(p)
  BY <1>10
<1> QED
  BY <1>2, <1>3, <1>4, <1>5, <1>7, <1>8, <1>9, <1>10
  DEF Step, GivesUp, AgentFails, AgentSucceeds, StatusUnread, GitFails, PushReads, PushTaken,
      PushRefused, Dies, Prepare

LEMMA StartsPushing ==
    ASSUME ExecInv, NEW p \in Runs, Step(p), run'[p].at = "pushing", run'[p] # run[p]
    PROVE  /\ run[p].at = "push" /\ run[p].name \in Names
           /\ run'[p].sent = dirs[DirOf(p)].tips[run[p].name]
<1>1. run \in [Runs -> Run] /\ run[p] \in Run
  BY DEF ExecInv
<1>2. ~Prepare(p) /\ ~Clone(p) /\ ~CheckOut(p)
  BY <1>1 DEF Prepare, Clone, CheckOut, Run
<1>3. ~CommitAll(p)
  BY CommitAllPushes
<1>4. ~(\E st, b, c : Ends(p, st, b, c))
  BY EndsFrame
<1>5. ~AgentSucceeds(p) /\ ~Dies(p)
  BY <1>1, <1>4 DEF AgentSucceeds, Dies, NotStarted, Run
<1>6. PushReads(p)
  BY <1>2, <1>3, <1>4, <1>5
  DEF Step, GivesUp, AgentEdits, AgentCommits, AgentBranches, AgentFails, StatusUnread, GitFails,
      Fails, PushTaken, PushRefused
<1> DEFINE new == IF HasClone(p) /\ run[p].name # HEAD THEN dirs[DirOf(p)].tips[run[p].name]
                  ELSE Absent
           old == remote[run[p].name]
<1>7. /\ new # Absent
      /\ run' = [run EXCEPT ![p].at = "pushing", ![p].saw = old, ![p].sent = new]
  BY <1>4, <1>6 DEF PushReads, Fails
<1>8. new = dirs[DirOf(p)].tips[run[p].name]
  BY <1>7
<1> HIDE DEF new, old
<1>9. run'[p].sent = new
  BY <1>1, <1>7 DEF Run
<1>10. run[p].at = "push" /\ run[p].name \in Names
  BY <1>6 DEF PushReads, ExecInv, SoundRun
<1> QED
  BY <1>8, <1>9, <1>10

LEMMA OthersKeep ==
    ASSUME ExecInv, Alone', NEW r \in Runs, NEW p \in Runs, r # p, Step(p), Kept(r)
    PROVE  Kept(r)'
<1>1. /\ \A n \in Names : Free(r, remote[n])
      /\ Working(p) => FreeDir(r, dirs[DirOf(p)])
      /\ run \in [Runs -> Run] /\ run[p] \in Run /\ SoundRun(run[p]) /\ UNCHANGED task
  BY StepFrame DEF Kept, ExecInv
<1>2. Working(p)' => Working(p) \/ Prepare(p)
  BY StepFrame DEF Working
<1>3. Working(p)' => FreeDir(r, dirs'[DirOf(p)])
  BY <1>1, <1>2, StaysFree
<1>4. \A n \in Names : Free(r, remote'[n])
  <2>1. CASE PushTaken(p)
    <3>1. Free(r, run[p].sent)
      BY <2>1 DEF Kept, PushTaken
    <3>2. remote' = [remote EXCEPT ![run[p].name] = run[p].sent] /\ remote \in [Names -> Commit]
      BY <2>1 DEF PushTaken, ExecInv, SoundRepo
    <3> QED
      BY <1>1, <3>1, <3>2
  <2> QED
    BY <1>1, <2>1, StepFrame
<1>5. \A q \in Runs : q # r /\ Working(q)' => FreeDir(r, dirs[DirOf(q)])'
  <2> SUFFICES ASSUME NEW q \in Runs, q # r, Working(q)'
               PROVE  FreeDir(r, dirs'[DirOf(q)])
    BY <1>1 DEF DirOf, FreeDir
  <2>1. CASE q = p \/ (dirs' # dirs /\ DirOf(q) = DirOf(p))
    BY <1>3, <2>1, StepFrame DEF Working
  <2>2. CASE q # p /\ ~(dirs' # dirs /\ DirOf(q) = DirOf(p))
    <3>1. dirs'[DirOf(q)] = dirs[DirOf(q)]
      BY <2>2, StepFrame, DirOfRun
    <3>2. Working(q)
      BY <2>2, StepFrame DEF Working
    <3> QED
      BY <3>1, <3>2 DEF Kept
  <2> QED
    BY <2>1, <2>2
<1>6. \A q \in Runs : q # r /\ run'[q].at = "pushing" => Free(r, run'[q].sent)
  <2> SUFFICES ASSUME NEW q \in Runs, q # r, run'[q].at = "pushing"
               PROVE  Free(r, run'[q].sent)
    OBVIOUS
  <2>1. CASE run'[q] = run[q]
    BY <2>1 DEF Kept
  <2>2. CASE run'[q] # run[q]
    <3>1. q = p
      BY <2>2, StepFrame
    <3>2. /\ Working(p) /\ run[p].name \in Names
          /\ run'[p].sent = dirs[DirOf(p)].tips[run[p].name]
      BY <2>2, <3>1, StartsPushing DEF Working
    <3> QED
      BY <1>1, <3>1, <3>2 DEF FreeDir
  <2> QED
    BY <2>1, <2>2
<1> QED
  BY <1>4, <1>5, <1>6 DEF Kept

LEMMA EndedWell ==
    ASSUME ExecInv, NEW r \in Runs, Ends(r, "success", run[r].name, run[r].ref)
    PROVE  report'[r] = report[r] \/ report'[r].status = "success"
<1>1. report \in [Runs -> Report]
  BY DEF ExecInv
<1>2. \/ report' = report
      \/ report' = [report EXCEPT ![r] = [status |-> "success", branch |-> run[r].name, ref |-> run[r].ref]]
  BY DEF Ends
<1> QED
  BY <1>1, <1>2

LEMMA OwnKeeps ==
    ASSUME ExecInv, Alone', NEW r \in Runs, Step(r), Kept(r), report[r].status = "none",
           "shared" \notin odd'[r]
    PROVE  Kept(r)' \/ Out(r)'
<1>1. run[r].at # "done"
  BY StepFrame
<1>2. CASE PushTaken(r)
  <2>1. run'[r].at = "done"
    BY <1>2, EndsFrame DEF PushTaken, Fails
  <2>2. report'[r].status = "failed" => "answer lost" \in odd'[r]
    <3>1. CASE Ends(r, "success", run[r].name, run[r].ref)
      <4>1. report'[r] = report[r] \/ report'[r].status = "success"
        BY <3>1, EndedWell
      <4> QED
        BY <4>1
    <3>2. CASE Befalls({r}, "answer lost")
      BY <3>2 DEF Befalls
    <3>3. Ends(r, "success", run[r].name, run[r].ref) \/ Befalls({r}, "answer lost")
      BY <1>2 DEF PushTaken
    <3> QED
      BY <3>1, <3>2, <3>3
  <2> QED
    BY <2>1, <2>2 DEF Out
<1>3. CASE ~PushTaken(r)
  <2>1. remote' = remote
    BY <1>3, StepFrame
  <2>2. ASSUME NEW q \in Runs, q # r
        PROVE  /\ run'[q].at = "pushing" => Free(r, run'[q].sent)
               /\ Working(q)' => FreeDir(r, dirs[DirOf(q)])'
    <3>1. run'[q] = run[q] /\ DirOf(q)' = DirOf(q) /\ DirOf(r)' = DirOf(r)
      BY <2>2, StepFrame DEF DirOf
    <3>2. Working(q)' => dirs'[DirOf(q)] = dirs[DirOf(q)]
      <4> SUFFICES ASSUME Working(q)' PROVE dirs'[DirOf(q)] = dirs[DirOf(q)]
        OBVIOUS
      <4>1. CASE dirs' = dirs
        BY <4>1
      <4>2. CASE dirs' # dirs
        <5>1. Working(r)'
          BY <4>2, StepFrame DEF Working
        <5>2. DirOf(q) # DirOf(r)
          BY <2>2, <3>1, <5>1 DEF Alone
        <5> QED
          BY <5>2, StepFrame, DirOfRun
      <4> QED
        BY <4>1, <4>2
    <3> QED
      BY <2>2, <3>1, <3>2 DEF Kept, Working, FreeDir
  <2> QED
    BY <2>1, <2>2 DEF Kept
<1> QED
  BY <1>2, <1>3

LEMMA FailStep ==
    ASSUME ExecInv, FailInv, [Next]_vars
    PROVE  FailInv'
<1>1. Alone'
  BY AloneStep DEF FailInv
<1>2. CASE UNCHANGED vars
  BY <1>1, <1>2 DEF vars, FailInv, Kept, Out, Working, FreeDir, DirOf
<1>3. CASE OthersPush
  <2>1. /\ UNCHANGED <<transport, task, dirs, run, report, made, odd>>
        /\ remote' = [remote EXCEPT ![Main] = @ \cup {<<"other", 0>>}]
        /\ remote \in [Names -> Commit]
    BY <1>3 DEF OthersPush, Same, ExecInv, SoundRepo
  <2>2. \A r \in Runs : Kept(r) => Kept(r)'
    <3> SUFFICES ASSUME NEW r \in Runs, Kept(r) PROVE Kept(r)'
      OBVIOUS
    <3>1. \A n \in Names : Free(r, remote'[n])
      BY <2>1, FreeFacts DEF Kept
    <3> QED
      BY <2>1, <3>1 DEF Kept, Working, FreeDir, DirOf
  <2> QED
    BY <1>1, <2>1, <2>2 DEF FailInv, Out
<1>4. ASSUME NEW p \in Runs, Step(p)
      PROVE  FailInv'
  <2>1. \A r \in Runs : run'[r].at # "done" => report'[r].status = "none"
    BY <1>4, ReportsAtTheEnd DEF FailInv
  <2>2. ASSUME NEW r \in Runs, "shared" \notin odd'[r]
        PROVE  Kept(r)' \/ Out(r)'
    <3>1. Kept(r) \/ Out(r)
      BY <1>4, <2>2, OddGrows DEF FailInv
    <3>2. CASE r = p
      <4>1. run[r].at # "done" /\ report[r].status = "none"
        BY <1>4, <3>2, StepFrame DEF FailInv
      <4> QED
        BY <1>1, <1>4, <2>2, <3>1, <3>2, <4>1, OwnKeeps DEF Out
    <3>3. CASE r # p /\ Kept(r)
      BY <1>1, <1>4, <3>3, OthersKeep
    <3>4. CASE r # p /\ Out(r)
      BY <1>4, <3>4, StepFrame, OddGrows DEF Out
    <3> QED
      BY <3>1, <3>2, <3>3, <3>4
  <2> QED
    BY <1>1, <2>1, <2>2 DEF FailInv
<1> QED
  BY <1>2, <1>3, <1>4, NextIsSteps

LEMMA WorkIsMine ==
    ASSUME ExecInv, NEW r \in Runs
    PROVE  Work(r) \subseteq Mine(r)
<1> SUFFICES ASSUME NEW k \in 1 .. made[r] PROVE <<r, k>> \in Mine(r)
  BY DEF Work
<1>1. made[r] \in 0 .. MaxChanges
  BY DEF ExecInv
<1>2. k \in 1 .. MaxChanges
  BY <1>1
<1> QED
  BY <1>2 DEF Mine

\* FailedLeavesNothing of TaskExecution: nothing of a run that is reported as
\* failed is in the repository, on any branch, unless the answer to its push
\* was lost or another run of its job was let into its work directory.
THEOREM FailureMeansNotPushed == Spec => []FailedLeavesNothing
<1>1. Spec => []FailInv
  BY ExecInit, FailInit, ExecInvHolds, FailStep, PTL DEF Spec
<1>2. ExecInv /\ FailInv => FailedLeavesNothing
  <2> SUFFICES ASSUME ExecInv, FailInv, NEW r \in Runs, report[r].status = "failed",
                      odd[r] \cap {"answer lost", "shared"} = {}, NEW n \in Names
               PROVE  Work(r) \cap remote[n] = {}
    BY DEF FailedLeavesNothing
  <2>1. Kept(r)
    BY DEF FailInv, Out
  <2>2. Work(r) \subseteq Mine(r)
    BY WorkIsMine
  <2> QED
    BY <2>1, <2>2 DEF Kept, Free
<1> QED
  BY <1>1, <1>2, ExecInvHolds, PTL
===============================================================================
