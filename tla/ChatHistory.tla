------------------------------ MODULE ChatHistory ------------------------------
(***************************************************************************)
(* What an agent is told of the turns before its own.  The queue's jobs    *)
(* carry an input (jobs.task_input): a follow-up in a chat and a promoted  *)
(* inbox task store the messages and replies of the turns completed by     *)
(* then (chat_histories_for_session in crates/server/src/sessions.rs); a   *)
(* pull hands the stored input out with both lists cut to MaxTurns         *)
(* (worker_tasks.rs), and the worker writes them into one transcript       *)
(* (compose_prompt in crates/worker/src/task_execution.rs).                *)
(*                                                                         *)
(* Every step is a step of JobQueue that also writes these columns.  The   *)
(* message and the reply of a turn are named by its job.                   *)
(***************************************************************************)
EXTENDS JobQueue, SequencesExt

CONSTANT MaxTurns   \* CHAT_HISTORY_MAX_TURNS; 0: no cap

ASSUME TurnsAssumption == MaxTurns \in Nat

VARIABLES
    inputs,     \* job -> task_input
    replied     \* completed jobs with an assistant_reply that is not blank

chatVars == <<inputs, replied>>

\* followUp: there is a session_prompt, a message and the two lists.  The
\* other jobs have none of these: {"prompt": ..} for the first job of a chat.
Input == [followUp: BOOLEAN, history: Seq(Jobs), replies: Seq(Jobs), truncated: BOOLEAN]
NoInput == [followUp |-> FALSE, history |-> <<>>, replies |-> <<>>, truncated |-> FALSE]

ChatTypeOK ==
    /\ inputs \in [Jobs -> Input]
    /\ replied \subseteq {j \in Jobs : jobs[j].status = "completed"}

ChatInit ==
    /\ Init
    /\ inputs = [j \in Jobs |-> NoInput]
    /\ replied = {}

-----------------------------------------------------------------------------
(* The control plane.                                                      *)

Completed(s) == {j \in JobsOf(s) : jobs[j].status = "completed"}
\* The list of turns in the order of their jobs.
InOrder(turns) ==
    CHOOSE order \in [1 .. Cardinality(turns) -> turns] :
        \A i, k \in DOMAIN order : i < k => order[i] < order[k]

\* The turns that failed are left out, with their messages.
Messages(s) == InOrder({j \in Completed(s) : inputs[j].followUp})
Replies(s) == InOrder(Completed(s) \cap replied)

FollowUp(s) ==
    [followUp |-> TRUE, history |-> Messages(s), replies |-> Replies(s), truncated |-> FALSE]

\* Rows inserted by POST /sessions/:id/input and by the promotion of an inbox
\* task are follow-ups; those inserted with their session are not.
InputOf(j) ==
    LET s == jobs'[j].session
    IN IF sessions[s] # "absent" /\ Workflow[s] \in {"chat", "inbox"}
       THEN FollowUp(s) ELSE NoInput

StoresInputs ==
    inputs' = [j \in Jobs |->
        CASE jobs'[j].status = "deleted" -> NoInput
          [] jobs[j].status = "absent" /\ jobs'[j].status # "absent" -> InputOf(j)
          [] OTHER -> inputs[j]]

\* Workers send a reply with a success in a chat only; it may be blank.
MutantAnswers(j) == Workflow[jobs[j].session] = "chat" /\ jobs'[j].status \in Terminal
Answers(j) ==
    /\ Workflow[jobs[j].session] = "chat"
    /\ jobs[j].status = "assigned"
    /\ jobs'[j].status = "completed"

StoresReplies ==
    \E sent \in SUBSET {j \in Jobs : Answers(j)} :
        replied' = {j \in replied \cup sent : jobs'[j].status # "deleted"}

ChatNext == Next /\ StoresInputs /\ StoresReplies

ChatSpec == ChatInit /\ [][ChatNext]_<<vars, chatVars>>

-----------------------------------------------------------------------------
(* What a pull hands out.                                                  *)

TooLong(list) == MaxTurns > 0 /\ Len(list) > MaxTurns
KeepLast(list) ==
    IF TooLong(list) THEN SubSeq(list, Len(list) - MaxTurns + 1, Len(list)) ELSE list

\* Both lists lose their oldest entries, each by its own length.
MutantCapped(input) ==
    [input EXCEPT !.replies = KeepLast(@), !.truncated = TooLong(input.replies)]
Capped(input) ==
    [input EXCEPT !.history = KeepLast(@), !.replies = KeepLast(@),
                  !.truncated = TooLong(input.history) \/ TooLong(input.replies)]

Handed(j) == IF inputs[j].followUp THEN Capped(inputs[j]) ELSE inputs[j]

\* chat_history_truncated of GET /sessions/:id.
MutantDetailTruncated(s) == TooLong(Messages(s))
DetailTruncated(s) == TooLong(Messages(s)) \/ TooLong(Replies(s))

\* compose_prompt: the i-th message, then the i-th reply.
User(j) == <<"User", j>>
Assistant(j) == <<"Assistant", j>>
Line(list, i, line(_)) == IF i <= Len(list) THEN <<line(list[i])>> ELSE <<>>
Transcript(input) ==
    FlattenSeq([i \in 1..(Len(input.history) + Len(input.replies)) |->
        Line(input.history, i, User) \o Line(input.replies, i, Assistant)])

-----------------------------------------------------------------------------
(* Properties.                                                             *)

ActiveTurns == {j \in Jobs : jobs[j].status \in Active /\ Workflow[jobs[j].session] = "chat"}

\* A turn is not behind the conversation: however completions, reclaims and
\* other inputs race, what its row stored when it was inserted is what had
\* been said and answered when it is handed out, first turn included.
KnowsTheConversation ==
    \A j \in ActiveTurns :
        LET s == jobs[j].session
        IN inputs[j].history = Messages(s) /\ inputs[j].replies = Replies(s)

\* The console warns of a cut history exactly when the turn under way was
\* handed a cut one ("same rule as worker pull", sessions.rs:867): the one is
\* computed from the rows of now, the other from those of the insert.
WarnsWhenCut ==
    \A j \in ActiveTurns : DetailTruncated(jobs[j].session) = Handed(j).truncated

\* In the transcript no reply comes before the message it answers, whatever
\* the cap and whichever turns failed, as long as each completed turn left a
\* reply: the two lists are cut independently and paired by position, and
\* the first reply answers the session's prompt, which is in neither.
RepliesFollowMessages ==
    \A j \in ActiveTurns : Completed(jobs[j].session) \subseteq replied =>
        LET lines == Transcript(Handed(j))
        IN \A x, y \in DOMAIN lines :
              lines[x][1] = "Assistant" /\ lines[y] = User(lines[x][2]) => y < x
===============================================================================
