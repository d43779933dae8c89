---------------------------- MODULE WorkerRegistry ----------------------------
(***************************************************************************)
(* The workers known to the control plane, how recently each was heard     *)
(* from, and which worker listens to the inbox of which agent: the tables  *)
(* workers, agents and inbox_listeners, and the handlers of                *)
(* crates/server/src/workers.rs that change them.                          *)
(*                                                                         *)
(* Clock time is abstracted to one bit per worker: a registered worker is  *)
(* in fresh while its last_seen_at is at or after the stale cutoff.  Time  *)
(* passing is the action GoStale, which may happen at any moment.          *)
(*                                                                         *)
(* PostgreSQL runs these handlers at READ COMMITTED.  A transaction is one *)
(* action unless it acts on something it read without locking it; a        *)
(* listener claim does, so it is two actions, and listenerLock records the *)
(* row lock that SELECT .. FOR UPDATE takes when there is a row to lock.   *)
(*                                                                         *)
(* An operator named Mutant.. is a wrong variant of the one after it.  It  *)
(* is used nowhere: put in its place, it makes a property fail.            *)
(***************************************************************************)
EXTENDS Integers, FiniteSets

CONSTANTS
    Workers,    \* worker ids
    Agents,     \* inbox agent ids
    NoWorker,   \* NULL in a column that holds a worker id
    NoAgent     \* no agent: the worker has no listener claim in progress

ASSUME NoWorkerAssumption == NoWorker \notin Workers
ASSUME NoAgentAssumption == NoAgent \notin Agents

VARIABLES
    registered,     \* the ids with a row in table workers
    fresh,          \* those whose heartbeat is not stale
    agents,         \* the ids with a row in table agents
    listener,       \* inbox_listeners: agent -> listening worker or NoWorker
    claiming,       \* worker -> agent it is claiming, past the checks
    current,        \* worker -> holder its claim read
    listenerLock    \* agent -> worker whose claim holds the row's lock

registryVars == <<registered, fresh, agents, listener, claiming, current,
                  listenerLock>>

RegistryTypeOK ==
    /\ registered \subseteq Workers
    /\ fresh \subseteq registered
    /\ agents \subseteq Agents
    /\ listener \in [Agents -> Workers \cup {NoWorker}]
    /\ claiming \in [Workers -> Agents \cup {NoAgent}]
    /\ current \in [Workers -> Workers \cup {NoWorker}]
    /\ listenerLock \in [Agents -> Workers \cup {NoWorker}]

RegistryInit ==
    /\ registered = {}
    /\ fresh = {}
    /\ agents = {}
    /\ listener = [a \in Agents |-> NoWorker]
    /\ claiming = [w \in Workers |-> NoAgent]
    /\ current = [w \in Workers |-> NoWorker]
    /\ listenerLock = [a \in Agents |-> NoWorker]

-----------------------------------------------------------------------------
\* POST /workers/register: a new row counts as seen now.  For an id that has
\* a row the INSERT fails (409) and last_seen_at keeps its value.
Register(w) ==
    /\ w \notin registered
    /\ registered' = registered \cup {w}
    /\ fresh' = fresh \cup {w}
    /\ UNCHANGED <<agents, listener, claiming, current, listenerLock>>

\* POST /workers/:id/heartbeat.
Heartbeat(w) ==
    /\ w \in registered
    /\ fresh' = fresh \cup {w}
    /\ UNCHANGED <<registered, agents, listener, claiming, current, listenerLock>>

\* The stale threshold passes without a heartbeat from w.
GoStale(w) ==
    /\ w \in fresh
    /\ fresh' = fresh \ {w}
    /\ UNCHANGED <<registered, agents, listener, claiming, current, listenerLock>>

\* INSERT INTO agents .. ON CONFLICT DO NOTHING, when an inbox session starts.
KnowAgent(a) == agents' = agents \cup {a}

Stale == registered \ fresh

\* What a claim checks about the present holder: there is none, it is the
\* claimant, or it has gone stale and may be replaced.
MayClaim(w, a) == listener[a] \in Stale \cup {w, NoWorker}

\* SELECT worker_id FROM inbox_listeners .. FOR UPDATE locks the agent's row
\* if there is one; with no row nothing is locked.
MutantLockListener(w, a) == UNCHANGED listenerLock
LockListener(w, a) ==
    listenerLock' = IF listener[a] = NoWorker THEN listenerLock
                    ELSE [listenerLock EXCEPT ![a] = w]

\* POST /workers/:id/inbox-listener up to the upsert: the checks pass.
ClaimCheck(w, a) ==
    /\ w \in fresh
    /\ a \in agents
    /\ claiming[w] = NoAgent
    /\ listenerLock[a] = NoWorker
    /\ MayClaim(w, a)
    /\ claiming' = [claiming EXCEPT ![w] = a]
    /\ current' = [current EXCEPT ![w] = listener[a]]
    /\ LockListener(w, a)
    /\ UNCHANGED <<registered, fresh, agents, listener>>

ReleaseClaim(w) ==
    /\ claiming' = [claiming EXCEPT ![w] = NoAgent]
    /\ current' = [current EXCEPT ![w] = NoWorker]
    /\ listenerLock' = [a \in Agents |-> IF listenerLock[a] = w THEN NoWorker
                                         ELSE listenerLock[a]]

\* .. and the upsert and commit.  ON CONFLICT DO UPDATE overwrites whatever
\* holder the row has by then; it waits for a row another claim has locked,
\* and its foreign key needs the worker's row.
ClaimCommit(w) ==
    /\ claiming[w] # NoAgent
    /\ listenerLock[claiming[w]] \in {NoWorker, w}
    /\ w \in registered
    /\ listener' = [listener EXCEPT ![claiming[w]] = w]
    /\ ReleaseClaim(w)
    /\ UNCHANGED <<registered, fresh, agents>>

\* A database error or a server crash rolls the claim back.
ClaimAbort(w) ==
    /\ claiming[w] # NoAgent
    /\ ReleaseClaim(w)
    /\ UNCHANGED <<registered, fresh, agents, listener>>

\* inbox_listeners.worker_id REFERENCES workers ON DELETE CASCADE.
MutantDropListeners(w) == UNCHANGED listener
DropListeners(w) ==
    listener' = [a \in Agents |-> IF listener[a] = w THEN NoWorker ELSE listener[a]]

\* DELETE FROM workers: the worker's listener rows go with it, once no claim
\* holds the lock of one of them.
Unregister(w) ==
    /\ w \in registered
    /\ \A a \in Agents : listener[a] = w => listenerLock[a] = NoWorker
    /\ registered' = registered \ {w}
    /\ fresh' = fresh \ {w}
    /\ DropListeners(w)
    /\ UNCHANGED <<agents, claiming, current, listenerLock>>

-----------------------------------------------------------------------------
\* The registry on its own: agents become known one at a time and workers
\* are deleted in one step.  JobQueue composes the same actions with jobs.
RegistryStep(w) ==
    \/ Register(w)
    \/ Heartbeat(w)
    \/ GoStale(w)
    \/ \E a \in Agents : ClaimCheck(w, a)
    \/ ClaimCommit(w)
    \/ ClaimAbort(w)

RegistryNext ==
    \/ \E w \in Workers : RegistryStep(w) \/ Unregister(w)
    \/ \E a \in Agents : /\ KnowAgent(a)
                         /\ UNCHANGED <<registered, fresh, listener, claiming,
                                        current, listenerLock>>

RegistrySpec == RegistryInit /\ [][RegistryNext]_registryVars

-----------------------------------------------------------------------------
\* A claim replaces exactly the holder it judged: when two workers take over
\* from a stale one, the second to check meets the first, not the stale row.
\* (With no row to judge there is nothing to lock, and two first claims both
\* succeed, the second displacing the first.)
ReplacesWhatItJudged ==
    [][\A w \in Workers :
          /\ claiming[w] # NoAgent
          /\ current[w] # NoWorker
          /\ listener'[claiming[w]] = w
          /\ listener[claiming[w]] # w
          => listener[claiming[w]] = current[w]]_registryVars

\* A deleted worker listens to no inbox, and a claim of its own that is still
\* in progress when it is deleted does not bring it back.
ListenersRegistered ==
    \A a \in Agents : listener[a] \in registered \cup {NoWorker}
===============================================================================
