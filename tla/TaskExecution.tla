---------------------------- MODULE TaskExecution ----------------------------
(***************************************************************************)
(* What the worker does with a task it pulled: clone, check out, plan a    *)
(* branch, run the agent, commit, push, report                             *)
(* (crates/worker/src/task_execution.rs over git_ops.rs).                  *)
(*                                                                         *)
(* A run is one execution of a task.  A job may run more than once, one    *)
(* run after the other or, when its lease ended under a worker that still  *)
(* works, both at a time; two runs of one job on one machine use the same  *)
(* work directory.  Runs of other jobs and other people push to the same   *)
(* repository.                                                             *)
(*                                                                         *)
(* A commit is the set of changes in its history; a branch that is not     *)
(* there has no commit, {}.  An agent makes changes, and may commit and    *)
(* change branches itself.  The control plane's answers are left out: a    *)
(* report either arrives or is lost, and is never sent twice.              *)
(*                                                                         *)
(* An operator named Mutant.. is a wrong variant of the one after it.  It  *)
(* is used nowhere: put in its place, it makes a property fail.            *)
(***************************************************************************)
EXTENDS Naturals

CONSTANTS
    Runs,           \* executions of tasks
    Jobs,
    Machines,       \* hosts with the worker processes that share a work_dir
    Slugs,          \* branch slugs the metadata agent or the prompt can give
    MaxChanges      \* bound: how many changes an agent makes

ASSUME RunAssumption == "base" \notin Runs /\ "other" \notin Runs /\ MaxChanges \in Nat

VARIABLES
    transport,  \* of repo_url: "https", or "file"
    task,       \* what each run is of
    remote,     \* the repository: the commit of each branch
    dirs,       \* the work directories
    run,        \* progress of each run
    report,     \* what the control plane was told of each run
    made,       \* how many changes each run's agent made
    odd         \* what befell a run that its worker does not notice

vars == <<transport, task, remote, dirs, run, report, made, odd>>

Changes == (Runs \X (1 .. MaxChanges)) \cup {<<"base", 0>>, <<"other", 0>>}
Commit == SUBSET Changes
Absent == {}

\* Branch names: the default branch, <prefix>/job-<job>, <prefix>/<slug>, the
\* latter made unique with the job, and what a detached HEAD is called.
Main == <<"main">>
Planned(j) == <<"job", j>>
Slugged(s) == <<"slug", s>>
SluggedFor(s, j) == <<"slug", s, j>>
HEAD == <<"HEAD">>
NoName == <<>>
Names == {Main, HEAD} \cup {Planned(j) : j \in Jobs} \cup {Slugged(s) : s \in Slugs}
            \cup {SluggedFor(s, j) : s \in Slugs, j \in Jobs}

Tasks == [job : Jobs, machine : Machines, mode : {"main", "pr"}, ref : {"branch", "tag"}]

\* tips: local branches, and HEAD while it is detached.
Dir == [is : {"none", "empty", "clone"}, tips : [Names -> Commit], head : Names,
        dirty : SUBSET Changes]
NoTips == [n \in Names |-> Absent]
NoDir == [is |-> "none", tips |-> NoTips, head |-> Main, dirty |-> {}]

Steps == {"idle", "clone", "checkout", "agent", "name", "push", "pushing", "done"}

\* name: branch_name, then final_branch; ref: commit_ref; saw, sent: the push.
Run == [at : Steps, name : Names \cup {NoName}, ref : Commit, saw : Commit, sent : Commit]
NotStarted == [at |-> "idle", name |-> NoName, ref |-> Absent, saw |-> Absent, sent |-> Absent]

Report == [status : {"none", "success", "failed"}, branch : Names \cup {NoName}, ref : Commit]
NoReport == [status |-> "none", branch |-> NoName, ref |-> Absent]

DirOf(r) == <<task[r].machine, task[r].job>>
Dirs == Machines \X Jobs

\* Types; and a clone has a commit checked out, which the repository had too.
TypeOK ==
    /\ transport \in {"https", "file"}
    /\ task \in [Runs -> Tasks]
    /\ remote \in [Names -> Commit]
    /\ dirs \in [Dirs -> Dir]
    /\ \A d \in Dirs : dirs[d].is = "clone" => <<"base", 0>> \in dirs[d].tips[dirs[d].head]
    /\ run \in [Runs -> Run]
    /\ report \in [Runs -> Report]
    /\ made \in [Runs -> 0 .. MaxChanges]
    /\ odd \in [Runs -> SUBSET {"shared", "strayed", "unread", "refused", "answer lost"}]

\* Runs of one job have its mode and ref.  In mode pr the ref makes no
\* difference: whatever is checked out, a planned branch is created there.
Init ==
    /\ transport \in {"https", "file"}
    /\ task \in [Runs -> Tasks]
    /\ \A r, q \in Runs : task[r].job = task[q].job =>
                            task[r].mode = task[q].mode /\ task[r].ref = task[q].ref
    /\ \A r \in Runs : task[r].mode = "pr" => task[r].ref = "branch"
    /\ remote = [NoTips EXCEPT ![Main] = {<<"base", 0>>}]
    /\ dirs = [d \in Dirs |-> NoDir]
    /\ run = [r \in Runs |-> NotStarted]
    /\ report = [r \in Runs |-> NoReport]
    /\ made = [r \in Runs |-> 0]
    /\ odd = [r \in Runs |-> {}]

-----------------------------------------------------------------------------
Working(r) == run[r].at \notin {"idle", "done"}
HasClone(r) == dirs[DirOf(r)].is = "clone"
Tip(d) == dirs[d].tips[dirs[d].head]
HeadOf(r) == IF HasClone(r) THEN Tip(DirOf(r)) ELSE Absent

\* The run is over.  Its report may not arrive; the worker goes on regardless.
Ends(r, status, branch, ref) ==
    /\ run' = [run EXCEPT ![r] = [NotStarted EXCEPT !.at = "done"]]
    /\ \/ report' = [report EXCEPT ![r] = [status |-> status, branch |-> branch, ref |-> ref]]
       \/ report' = report

Fails(r) == Ends(r, "failed", run[r].name, run[r].ref)

Same == UNCHANGED <<transport, task>>

Befalls(who, what) == odd' = [r \in Runs |-> IF r \in who THEN odd[r] \cup {what} ELSE odd[r]]

-----------------------------------------------------------------------------
(* Up to the agent.                                                        *)

\* remove_dir_all and create_dir_all, under whoever still works there.
MutantPrepared(d) == [NoDir EXCEPT !.is = "empty", !.dirty = d.dirty]
Prepared(d) == [NoDir EXCEPT !.is = "empty"]

Prepare(r) ==
    /\ run[r].at = "idle"
    /\ dirs' = [dirs EXCEPT ![DirOf(r)] = Prepared(@)]
    /\ run' = [run EXCEPT ![r].at = "clone"]
    /\ LET there == {q \in Runs : Working(q) /\ DirOf(q) = DirOf(r)}
       IN  Befalls(IF there = {} THEN {} ELSE there \cup {r}, "shared")
    /\ UNCHANGED <<remote, report, made>> /\ Same

Clone(r) ==
    /\ run[r].at = "clone"
    /\ dirs[DirOf(r)].is = "empty"
    /\ dirs' = [dirs EXCEPT ![DirOf(r)] = [@ EXCEPT !.is = "clone", !.tips[Main] = remote[Main]]]
    /\ run' = [run EXCEPT ![r].at = "checkout"]
    /\ UNCHANGED <<remote, report, made, odd>> /\ Same

\* The name of the branch that is checked out: of a detached HEAD libgit2 makes
\* one up.  ensure_work_branch creates a branch otherwise.
Current(r) == CASE task[r].ref = "branch" -> Main
                [] task[r].ref = "tag" /\ transport = "https" -> HEAD
                [] OTHER -> NoName

WorkBranch(r) == IF task[r].mode = "pr" \/ Current(r) = NoName
                 THEN Planned(task[r].job) ELSE Current(r)

\* checkout_ref, then ensure_work_branch.
CheckOut(r) ==
    LET d == DirOf(r) n == WorkBranch(r)
    IN  /\ run[r].at = "checkout"
        /\ HasClone(r)
        /\ dirs[d].tips[Main] # Absent
        /\ n \in {Main, HEAD} \/ dirs[d].tips[n] = Absent
        /\ dirs' = [dirs EXCEPT ![d].head = n, ![d].tips[n] = dirs[d].tips[Main]]
        /\ run' = [run EXCEPT ![r].at = "agent", ![r].name = n]
        /\ UNCHANGED <<remote, report, made, odd>> /\ Same

\* A check before or after these steps, or one of them, fails, or the agent
\* cannot be started: complete_task_failed, which names no branch.
GivesUp(r) ==
    /\ run[r].at \in {"idle", "clone", "checkout", "agent", "name"}
    /\ Ends(r, "failed", NoName, Absent)
    /\ UNCHANGED <<remote, dirs, made, odd>> /\ Same

-----------------------------------------------------------------------------
(* The agent, in the work directory; and once more, to find a name.        *)

AgentRuns(r) == run[r].at \in {"agent", "name"} /\ HasClone(r)
Users(d) == {r \in Runs : Working(r) /\ DirOf(r) = d}

AgentEdits(r) ==
    /\ AgentRuns(r)
    /\ made[r] < MaxChanges
    /\ made' = [made EXCEPT ![r] = @ + 1]
    /\ dirs' = [dirs EXCEPT ![DirOf(r)].dirty = @ \cup {<<r, made[r] + 1>>}]
    /\ UNCHANGED <<remote, run, report, odd>> /\ Same

\* The working tree's changes as a commit on HEAD.
Committed(d) == [d EXCEPT !.tips[d.head] = @ \cup d.dirty, !.dirty = {}]

AgentCommits(r) ==
    /\ AgentRuns(r)
    /\ dirs[DirOf(r)].dirty # {}
    /\ dirs' = [dirs EXCEPT ![DirOf(r)] = Committed(@)]
    /\ Befalls(Users(DirOf(r)), "strayed")
    /\ UNCHANGED <<remote, run, report, made>> /\ Same

\* git checkout -b, with whatever is uncommitted.
AgentBranches(r) ==
    \E s \in Slugs :
        LET d == DirOf(r)
        IN  /\ AgentRuns(r)
            /\ dirs[d].tips[Slugged(s)] = Absent
            /\ dirs' = [dirs EXCEPT ![d].head = Slugged(s), ![d].tips[Slugged(s)] = Tip(d)]
            /\ Befalls(Users(d), "strayed")
            /\ UNCHANGED <<remote, run, report, made>> /\ Same

AgentFails(r) ==
    /\ run[r].at = "agent"
    /\ Ends(r, "failed", run[r].name, Absent)
    /\ UNCHANGED <<remote, dirs, made, odd>> /\ Same

\* working_tree_clean.  Where the clone is gone the status cannot be read, which
\* passes for a clean tree.
MutantClean(r) == HasClone(r) => dirs[DirOf(r)].dirty \subseteq Runs \X {1}
Clean(r) == HasClone(r) => dirs[DirOf(r)].dirty = {}

AgentSucceeds(r) ==
    /\ run[r].at = "agent"
    /\ \/ /\ Clean(r)
          /\ Ends(r, "success", run[r].name, HeadOf(r))
       \/ /\ ~Clean(r)
          /\ run' = [run EXCEPT ![r].at = "name", ![r].ref = HeadOf(r)]
          /\ UNCHANGED report
    /\ UNCHANGED <<remote, dirs, made, odd>> /\ Same

\* So does any other error of the status, with the changes there.  HEAD may be
\* unreadable then as well.
StatusUnread(r) ==
    /\ run[r].at = "agent"
    /\ ~Clean(r)
    /\ \E ref \in {HeadOf(r), Absent} : Ends(r, "success", run[r].name, ref)
    /\ Befalls({r}, "unread")
    /\ UNCHANGED <<remote, dirs, made>> /\ Same

-----------------------------------------------------------------------------
(* Commit and push.                                                        *)

\* unique_prefixed_branch_name, among the local branches.
DesiredBranch(r, s) == IF dirs[DirOf(r)].tips[Slugged(s)] = Absent
                       THEN Slugged(s) ELSE SluggedFor(s, task[r].job)

MutantRenamed(d, n) == [d EXCEPT !.tips[n] = d.tips[d.head], !.tips[d.head] = Absent]
Renamed(d, n) == [d EXCEPT !.tips[n] = d.tips[d.head], !.tips[d.head] = Absent, !.head = n]

\* A planned branch gets the slug's name: the branch HEAD is on, that is.
\* Then commit_all.
CommitAll(r) ==
    LET d == DirOf(r)
        Commits(n, dir) ==
            /\ dirs' = [dirs EXCEPT ![d] = Committed(dir)]
            /\ run' = [run EXCEPT ![r].at = "push", ![r].name = n,
                                  ![r].ref = Committed(dir).tips[dir.head]]
    IN  /\ run[r].at = "name" /\ HasClone(r)
        /\ IF run[r].name = Planned(task[r].job)
           THEN \E s \in Slugs :
                    LET n == DesiredBranch(r, s)
                    IN  /\ dirs[d].tips[n] = Absent
                        /\ dirs[d].head # HEAD
                        /\ Commits(n, Renamed(dirs[d], n))
           ELSE Commits(run[r].name, dirs[d])
        /\ UNCHANGED <<remote, report, made, odd>> /\ Same

\* The rename, the commit or the push fails at this end.
GitFails(r) ==
    /\ run[r].at \in {"name", "push", "pushing"}
    /\ Fails(r)
    /\ UNCHANGED <<remote, dirs, made, odd>> /\ Same

\* libgit2 refuses a push that is not a fast-forward of what the server shows.
MutantFastForward(old, new) == TRUE
FastForward(old, new) == old \subseteq new

PushReads(r) ==
    LET new == IF HasClone(r) /\ run[r].name # HEAD THEN dirs[DirOf(r)].tips[run[r].name] ELSE Absent
        old == remote[run[r].name]
    IN  /\ run[r].at = "push"
        /\ \/ /\ new = old /\ new # Absent
              /\ Ends(r, "success", run[r].name, run[r].ref)
           \/ /\ new = Absent \/ ~FastForward(old, new)
              /\ Fails(r)
           \/ /\ new \notin {Absent, old} /\ FastForward(old, new)
              /\ run' = [run EXCEPT ![r].at = "pushing", ![r].saw = old, ![r].sent = new]
              /\ UNCHANGED report
        /\ UNCHANGED <<remote, dirs, made, odd>> /\ Same

\* A server updates the branch if it is still what it showed; libgit2 writes a
\* file:// repository's branch as it comes, and creates one only if there is
\* still none.
Takes(r) ==
    LET now == remote[run[r].name]
    IN  IF transport = "https" THEN now = run[r].saw ELSE run[r].saw = Absent => now = Absent

PushTaken(r) ==
    /\ run[r].at = "pushing"
    /\ Takes(r)
    /\ remote' = [remote EXCEPT ![run[r].name] = run[r].sent]
    /\ \/ Ends(r, "success", run[r].name, run[r].ref) /\ UNCHANGED odd
       \/ Fails(r) /\ Befalls({r}, "answer lost")
    /\ UNCHANGED <<dirs, made>> /\ Same

\* The branch has moved, or the server has rules of its own.  No callback asks
\* for the status of the update, and the push returns Ok.
PushRefused(r) ==
    /\ run[r].at = "pushing"
    /\ transport = "https" \/ ~Takes(r)
    /\ Ends(r, "success", run[r].name, run[r].ref)
    /\ Befalls({r}, "refused")
    /\ UNCHANGED <<remote, dirs, made>> /\ Same

-----------------------------------------------------------------------------
\* The worker dies.
Dies(r) ==
    /\ Working(r)
    /\ run' = [run EXCEPT ![r] = [NotStarted EXCEPT !.at = "done"]]
    /\ UNCHANGED <<remote, dirs, report, made, odd>> /\ Same

OthersPush ==
    /\ remote' = [remote EXCEPT ![Main] = @ \cup {<<"other", 0>>}]
    /\ remote' # remote
    /\ UNCHANGED <<dirs, run, report, made, odd>> /\ Same

Next ==
    \/ \E r \in Runs :
        \/ Prepare(r) \/ Clone(r) \/ CheckOut(r) \/ GivesUp(r)
        \/ AgentEdits(r) \/ AgentCommits(r) \/ AgentBranches(r)
        \/ AgentFails(r) \/ AgentSucceeds(r) \/ StatusUnread(r)
        \/ CommitAll(r) \/ GitFails(r) \/ PushReads(r) \/ PushTaken(r) \/ PushRefused(r)
        \/ Dies(r)
    \/ OthersPush

Spec == Init /\ [][Next]_vars

-----------------------------------------------------------------------------
Work(r) == {<<r, k>> : k \in 1 .. made[r]}

\* When a run is reported as a success, what its agent did is on the branch the
\* report names: except after one of four things the worker does not notice.
\* The agent committed or changed branches itself, the status of its changes
\* could not be read (task_execution.rs:498), the server refused the update, or
\* another run of the job was let into the work directory.
SuccessCarriesTheWork ==
    \A r \in Runs : transport = "https" /\ report[r].status = "success" /\ odd[r] = {} =>
                        Work(r) \subseteq remote[report[r].branch]

\* Nothing of a run that is reported as failed is in the repository, unless the
\* answer to its push was lost or it shared its directory.
FailedLeavesNothing ==
    \A r \in Runs : report[r].status = "failed" /\ odd[r] \cap {"answer lost", "shared"} = {} =>
                        \A n \in Names : Work(r) \cap remote[n] = {}

\* No push takes a commit out of a branch, but for two that overlap in a
\* file:// repository.
NothingOverwritten ==
    [][\A n \in Names : remote[n] \subseteq remote'[n] \/
        \E r \in Runs : transport = "file" /\ run[r].name = n /\ run[r].saw # remote[n]]_vars

==============================================================================
