------------------------------ MODULE TurnTaking ------------------------------
(***************************************************************************)
(* What the queue promises of each session that takes turns, a chat or a   *)
(* loop that runs until its sentinel, whatever happens to the workers: it  *)
(* has one turn at a time; the next one begins when the last has been      *)
(* answered or lost; a loop takes a bounded number of them; and a session  *)
(* that has completed or failed takes none any more.  One step of the      *)
(* system may move several sessions.                                       *)
(***************************************************************************)
EXTENDS Integers, FiniteSets

CONSTANTS Sessions, Jobs, Loops, MaxRounds

VARIABLES
    phase,      \* session -> its status
    turn,       \* session -> the turn under way, a set of at most one job
    done,       \* session -> the turns that were answered
    lost        \* session -> those that failed

turnVars == <<phase, turn, done, lost>>

Init ==
    /\ phase = [s \in Sessions |-> "absent"]
    /\ turn = [s \in Sessions |-> {}]
    /\ done = [s \in Sessions |-> {}]
    /\ lost = [s \in Sessions |-> {}]

\* A new turn is one that no session has had.
New(j) == \A s \in Sessions : j \notin turn[s] \cup done[s] \cup lost[s]

SamePhase(s) == phase'[s] = phase[s]
SameEnded(s) == done'[s] = done[s] /\ lost'[s] = lost[s]
Answered(s) == done'[s] = done[s] \cup turn[s] /\ lost'[s] = lost[s]
Lost(s) == lost'[s] = lost[s] \cup turn[s] /\ done'[s] = done[s]

Open(s, j) ==
    /\ phase[s] = "absent" /\ phase'[s] = "pending"
    /\ New(j) /\ turn'[s] = {j}
    /\ SameEnded(s)

\* The first turn goes to a worker.
Start(s) ==
    /\ phase[s] = "pending" /\ phase'[s] = "running"
    /\ turn[s] # {} /\ turn'[s] = turn[s]
    /\ SameEnded(s)

UnderWay(s) == phase[s] = "running" /\ turn[s] # {}

\* A chat waits for its next message ..
Answer(s) ==
    /\ UnderWay(s) /\ s \notin Loops
    /\ Answered(s) /\ turn'[s] = {}
    /\ SamePhase(s)

Post(s, j) ==
    /\ phase[s] = "running" /\ turn[s] = {} /\ s \notin Loops
    /\ New(j) /\ turn'[s] = {j}
    /\ SameEnded(s) /\ SamePhase(s)

\* .. while a loop goes on, or is over.
RoundsLeft(s) == Cardinality(done[s] \cup turn[s]) < MaxRounds

Iterate(s, j) ==
    /\ UnderWay(s) /\ s \in Loops
    /\ RoundsLeft(s)
    /\ New(j) /\ turn'[s] = {j}
    /\ Answered(s) /\ SamePhase(s)

Finish(s) ==
    /\ UnderWay(s) /\ s \in Loops
    /\ Answered(s) /\ turn'[s] = {}
    /\ phase'[s] = "completed"

\* A turn fails, and the session with it ..
Fail(s) ==
    /\ UnderWay(s)
    /\ Lost(s) /\ turn'[s] = {}
    /\ phase'[s] = "failed"

\* .. or is given up with its worker, of which the session learns nothing.
GiveUp(s) ==
    /\ UnderWay(s)
    /\ Lost(s) /\ turn'[s] = {}
    /\ SamePhase(s)

Discard(s) ==
    /\ phase[s] # "absent" /\ phase'[s] = "deleted"
    /\ turn'[s] = {} /\ done'[s] = {} /\ lost'[s] = {}

Stay(s) == turn'[s] = turn[s] /\ SameEnded(s) /\ SamePhase(s)

SessionStep(s) ==
    \/ Stay(s)
    \/ Start(s) \/ Answer(s) \/ Finish(s) \/ Fail(s) \/ GiveUp(s) \/ Discard(s)
    \/ \E j \in Jobs : Open(s, j) \/ Post(s, j) \/ Iterate(s, j)

Next ==
    /\ \A s \in Sessions : SessionStep(s)
    /\ phase' = [s \in Sessions |-> phase'[s]]
    /\ turn' = [s \in Sessions |-> turn'[s]]
    /\ done' = [s \in Sessions |-> done'[s]]
    /\ lost' = [s \in Sessions |-> lost'[s]]

Spec == Init /\ [][Next]_turnVars
===============================================================================
