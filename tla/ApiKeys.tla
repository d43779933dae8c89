------------------------------- MODULE ApiKeys -------------------------------
(***************************************************************************)
(* API keys: the first one by POST /api-keys/bootstrap, which needs none,  *)
(* the others created and revoked by requests that present a valid one     *)
(* (crates/server/src/keys.rs, auth.rs).  The keys are the rows of the     *)
(* listing GET /api-keys; for the other listings rows come and go freely.  *)
(*                                                                         *)
(* A key is checked before its request runs, and bootstrap counts the keys *)
(* in a statement of its own: both may be out of date when a row changes.  *)
(***************************************************************************)
EXTENDS Listings

CONSTANTS Callers   \* requests in progress at once

VARIABLES
    envKeys,    \* API_KEY or API_KEYS is set in the server's environment
    callers,    \* progress of each request
    since,      \* keys that came to be valid since a bootstrap counted them
    first       \* keys that bootstrap created

keyVars == <<envKeys, callers, since, first>>
vars == <<listVars, keyVars>>

TypeOK ==
    /\ ListTypeOK
    /\ envKeys \in BOOLEAN
    /\ callers \in [Callers -> {"idle", "counted", "admitted"}]
    /\ since \in [Callers -> SUBSET Rows]
    /\ first \subseteq Rows

Init ==
    /\ ListInit
    /\ envKeys \in BOOLEAN
    /\ callers = [c \in Callers |-> "idle"]
    /\ since = [c \in Callers |-> {}]
    /\ first = {}

-----------------------------------------------------------------------------
(* Rows of the other listings.                                             *)

OtherRows ==
    /\ kind # "keys"
    /\ \E r \in Rows : Open(r) \/ Leave(r)
    /\ UNCHANGED keyVars

\* COMMIT of an INSERT, of any listing.
RowCommits(r) ==
    /\ Commit(r)
    /\ since' = [c \in Callers |-> IF callers[c] = "counted" THEN since[c] \cup {r} ELSE {}]
    /\ UNCHANGED <<envKeys, callers, first>>

-----------------------------------------------------------------------------
(* Keys.                                                                   *)

Checked(c, step) ==
    /\ kind = "keys" /\ callers[c] = "idle"
    /\ callers' = [callers EXCEPT ![c] = step]
    /\ since' = [since EXCEPT ![c] = {}]
    /\ UNCHANGED <<listVars, envKeys, first>>

Ended(c) == callers' = [callers EXCEPT ![c] = "idle"] /\ since' = [since EXCEPT ![c] = {}]

\* bootstrap_api_key: no key in the environment, none in the table.
MutantNoKeys == There \subseteq first
NoKeys == There = {}
BootstrapCounts(c) == ~envKeys /\ NoKeys /\ Checked(c, "counted")

\* require_api_key: a key of the environment, or a row that is not revoked.
Admit(c) == (envKeys \/ There # {}) /\ Checked(c, "admitted")

\* insert_new_key.
BootstrapInserts(c, r) ==
    /\ callers[c] = "counted"
    /\ Opens(r)
    /\ first' = first \cup {r}
    /\ Ended(c)
    /\ UNCHANGED <<kind, limit, now, walk, envKeys>>

CreateKey(c, r) ==
    /\ callers[c] = "admitted"
    /\ Opens(r)
    /\ Ended(c)
    /\ UNCHANGED <<kind, limit, now, walk, envKeys, first>>

\* delete_api_key: revoked_at is set once; the row stays.
RevokeKey(c, r) ==
    /\ callers[c] = "admitted"
    /\ Leave(r)
    /\ Ended(c)
    /\ UNCHANGED <<envKeys, first>>

\* A request that fails, or is about something else.
OtherRequest(c) ==
    /\ callers[c] # "idle"
    /\ Ended(c)
    /\ UNCHANGED <<listVars, envKeys, first>>

-----------------------------------------------------------------------------
Reader == (StartWalk \/ ReadPage) /\ UNCHANGED keyVars

Next ==
    \/ OtherRows
    \/ \E r \in Rows : RowCommits(r)
    \/ Tick /\ UNCHANGED keyVars
    \/ \E c \in Callers :
        \/ BootstrapCounts(c) \/ Admit(c) \/ OtherRequest(c)
        \/ \E r \in Rows : BootstrapInserts(c, r) \/ CreateKey(c, r) \/ RevokeKey(c, r)
    \/ Reader

Spec == Init /\ [][Next]_vars

-----------------------------------------------------------------------------
\* Bootstrap adds a key only where there is none, or beside keys that were
\* stored after it counted: two calls that overlap both succeed, and nothing
\* else gets a second one in.
BootstrapOnlyFirst ==
    [][\A r \in first' \ first : ~envKeys /\
        \E c \in Callers : callers[c] = "counted" /\ There \subseteq since[c]]_vars
==============================================================================
