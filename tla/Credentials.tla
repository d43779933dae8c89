----------------------------- MODULE Credentials -----------------------------
(***************************************************************************)
(* The git credentials of one identity (table identities): the OAuth       *)
(* callback stores them, a PATCH by the user replaces them, and whoever    *)
(* uses them (a pull, the repository listing) refreshes them first when    *)
(* they are about to expire (crates/server/src/oauth.rs, identities.rs).   *)
(*                                                                         *)
(* No handler locks the row.  A refresh reads it, calls the provider and   *)
(* updates three columns; a PATCH reads it and writes every column back.   *)
(* Both are split at their awaits here, the callback between its exchange  *)
(* and its UPDATE.                                                         *)
(*                                                                         *)
(* An access token and the refresh token issued with it are one value, the *)
(* n-th the providers issued.  git_base_url is left out: it is written by  *)
(* the statements that write git_provider, and follows it.  The agent      *)
(* token is left out too; a PATCH of nothing else keeps both columns here. *)
(*                                                                         *)
(* An operator named Mutant.. is a wrong variant of the one after it.  It  *)
(* is used nowhere: put in its place, it makes a property fail.            *)
(***************************************************************************)
EXTENDS Integers

CONSTANTS
    Providers,      \* values of git_provider that the server can refresh
    Expiring,       \* those that answer with expires_in and a refresh token
    Rotating,       \* those whose refresh tokens are good for one use
    Patches,        \* the changes users make
    Handlers,       \* requests in progress at once
    MaxTokens       \* bound: how many tokens the providers issue

ASSUME ProviderAssumption ==
    /\ Rotating \subseteq Expiring /\ Expiring \subseteq Providers
    /\ "user" \notin Providers /\ "nobody" \notin Providers
    /\ "manual" \notin Providers /\ "none" \notin Providers
    /\ MaxTokens \in Nat

Patch == [git : {"keep", "clear", "set", "blank"}, refresh : {"keep", "clear", "set"}]
KeepAll == [git |-> "keep", refresh |-> "keep"]

ASSUME PatchAssumption == Patches \subseteq Patch

VARIABLES
    row,        \* the identity's columns
    handlers,   \* what the requests in progress have read and received
    issued,     \* how many tokens the providers have issued
    live,       \* the refresh tokens the providers still accept
    due,        \* tokens within 5 minutes of their expiry, or past it
    expired     \* tokens past their expiry

vars == <<row, handlers, issued, live, due, expired>>

Token == [by : Providers \cup {"user", "nobody"}, n : 0 .. MaxTokens]
NoToken == [by |-> "nobody", n |-> 0]
UserToken == [by |-> "user", n |-> 0]

\* expires names the token that token_expires_at is the expiry of.
Row == [git : Token, refresh : Token, expires : Token,
        provider : Providers \cup {"manual", "none"}]
EmptyRow == [git |-> NoToken, refresh |-> NoToken, expires |-> NoToken, provider |-> "none"]

Steps == {"idle", "refresh", "refreshed", "answer", "patch", "exchanged"}

\* good: the token was 5 minutes or more from its expiry when it was read or
\* received.
Handler == [at : Steps, read : Row, good : BOOLEAN, got : Token, patch : Patch]
Idle == [at |-> "idle", read |-> EmptyRow, good |-> FALSE, got |-> NoToken, patch |-> KeepAll]

\* Types; and token_expires_at is the expiry of the git_token beside it.
TypeOK ==
    /\ row \in Row
    /\ row.expires \in {NoToken, row.git}
    /\ handlers \in [Handlers -> Handler]
    /\ issued \in 0 .. MaxTokens
    /\ live \subseteq Token
    /\ due \subseteq Token
    /\ expired \subseteq due

Init ==
    /\ row = EmptyRow
    /\ handlers = [h \in Handlers |-> Idle]
    /\ issued = 0
    /\ live = {} /\ due = {} /\ expired = {}

-----------------------------------------------------------------------------
(* The provider's answers.                                                 *)

Fresh(p) == [by |-> p, n |-> issued + 1]

\* Columns that follow from an answer t.
RefreshOf(t) == IF t.by \in Expiring THEN t ELSE NoToken
ExpiryOf(t) == IF t.by \in Expiring THEN t ELSE NoToken

\* The provider takes refresh token r for provider p.
Accepts(p, r) == r \in live /\ r.by = p

\* .. and issues t; one that does not rotate answers without a refresh token.
Spent(p, r) ==
    /\ issued < MaxTokens
    /\ issued' = issued + 1
    /\ live' = IF p \in Rotating THEN (live \ {r}) \cup {Fresh(p)} ELSE live

-----------------------------------------------------------------------------
(* Uses: a pull's credentials, the repository listing.                     *)

\* token_needs_refresh, for the providers that can be refreshed.
MutantNeedsRefresh(r) == r.provider \in Providers /\ r.expires # NoToken /\ r.expires \in expired
NeedsRefresh(r) == r.provider \in Providers /\ r.expires # NoToken /\ r.expires \in due

\* Without a refresh token the use ends here with git_token_expired.
UseReads(h) ==
    /\ handlers[h].at = "idle"
    /\ row.git # NoToken
    /\ NeedsRefresh(row) => row.refresh # NoToken
    /\ handlers' = [handlers EXCEPT ![h] = [Idle EXCEPT
            !.at = IF NeedsRefresh(row) THEN "refresh" ELSE "answer",
            !.read = row, !.good = row.git \notin due]]
    /\ UNCHANGED <<row, issued, live, due, expired>>

Refresh(h) ==
    /\ handlers[h].at = "refresh"
    /\ Accepts(handlers[h].read.provider, handlers[h].read.refresh)
    /\ Spent(handlers[h].read.provider, handlers[h].read.refresh)
    /\ handlers' = [handlers EXCEPT ![h].at = "refreshed",
                                    ![h].got = Fresh(handlers[h].read.provider)]
    /\ UNCHANGED <<row, due, expired>>

\* The refresh took place and its answer is lost: bad_gateway.
RefreshLost(h) ==
    /\ handlers[h].at = "refresh"
    /\ Accepts(handlers[h].read.provider, handlers[h].read.refresh)
    /\ Spent(handlers[h].read.provider, handlers[h].read.refresh)
    /\ handlers' = [handlers EXCEPT ![h] = Idle]
    /\ UNCHANGED <<row, due, expired>>

\* The refresh token to store: the new one, or else the one that was read.
MutantNewRefresh(q) == q.read.refresh
NewRefresh(q) == IF q.got.by \in Rotating THEN q.got ELSE q.read.refresh

Refreshed(r, q) == [r EXCEPT !.git = q.got, !.refresh = NewRefresh(q), !.expires = ExpiryOf(q.got)]

\* UPDATE of the three columns, of whatever row there is by now.
StoreRefreshed(h) ==
    /\ handlers[h].at = "refreshed"
    /\ row' = Refreshed(row, handlers[h])
    /\ handlers' = [handlers EXCEPT ![h].at = "answer", ![h].got = NoToken,
                                    ![h].good = TRUE,
                                    ![h].read = Refreshed(handlers[h].read, handlers[h])]
    /\ UNCHANGED <<issued, live, due, expired>>

\* GET /identities/:id/auth-status: what the user is told of row r when the
\* tokens in soon are 5 minutes or less from their expiry, those in past past it.
GitAuth(r, soon, past) ==
    CASE r.git = NoToken -> "not_configured"
      [] r.git # NoToken /\ (r.expires = NoToken \/ r.expires \notin soon) -> "healthy"
      [] r.git # NoToken /\ r.expires # NoToken /\ r.expires \in soon \ past -> "expiring_soon"
      [] r.git # NoToken /\ r.expires # NoToken /\ r.expires \in soon \cap past ->
            IF r.refresh # NoToken THEN "expired_refreshable"
            ELSE IF r.provider \in Providers THEN "expired_needs_reauth" ELSE "unknown"

\* The response with read.git goes out.
Answer(h) ==
    /\ handlers[h].at = "answer"
    /\ handlers' = [handlers EXCEPT ![h] = Idle]
    /\ UNCHANGED <<row, issued, live, due, expired>>

-----------------------------------------------------------------------------
(* PATCH /identities/:id and the OAuth callback.                           *)

PatchReads(h) ==
    /\ handlers[h].at = "idle"
    /\ \E p \in Patches : handlers' = [handlers EXCEPT ![h] =
                            [Idle EXCEPT !.at = "patch", !.read = row, !.patch = p]]
    /\ UNCHANGED <<row, issued, live, due, expired>>

\* merge_token_field of git_token (a blank one is null).
MergeGit(r, p) == CASE p.git = "keep" -> r.git
                    [] p.git = "set" -> UserToken
                    [] OTHER -> NoToken

\* .. and of refresh_token, which a change of git_token clears unless it is
\* given with a new one.
MergeRefresh(r, p) ==
    CASE p.git = "clear" -> NoToken
      [] p.refresh = "clear" -> NoToken
      [] p.git # "clear" /\ p.refresh = "set" -> UserToken
      [] p.git \in {"set", "blank"} /\ p.refresh = "keep" -> NoToken
      [] OTHER -> r.refresh

MutantProviderAfter(r, p) == IF p.git = "clear" THEN "none" ELSE r.provider
ProviderAfter(r, p) == CASE p.git = "keep" -> r.provider
                         [] p.git = "clear" -> "none"
                         [] OTHER -> "manual"

MutantExpiresAfter(r, p) == r.expires
ExpiresAfter(r, p) == IF p.git = "keep" THEN r.expires ELSE NoToken

Patched(r, p) ==
    [git |-> MergeGit(r, p), refresh |-> MergeRefresh(r, p), provider |-> ProviderAfter(r, p),
     expires |-> ExpiresAfter(r, p)]

\* Every column is written back, from the row that was read.
PatchWrites(h) ==
    /\ handlers[h].at = "patch"
    /\ row' = Patched(handlers[h].read, handlers[h].patch)
    /\ handlers' = [handlers EXCEPT ![h] = Idle]
    /\ UNCHANGED <<issued, live, due, expired>>

\* The callback's code is exchanged for the tokens of a new authorization.
CallbackExchanges(h, p) ==
    /\ handlers[h].at = "idle"
    /\ issued < MaxTokens
    /\ issued' = issued + 1
    /\ live' = live \cup ({RefreshOf(Fresh(p))} \ {NoToken})
    /\ handlers' = [handlers EXCEPT ![h] = [Idle EXCEPT !.at = "exchanged", !.got = Fresh(p)]]
    /\ UNCHANGED <<row, due, expired>>

CallbackStores(h) ==
    /\ handlers[h].at = "exchanged"
    /\ row' = [git |-> handlers[h].got, refresh |-> RefreshOf(handlers[h].got),
               expires |-> ExpiryOf(handlers[h].got), provider |-> handlers[h].got.by]
    /\ handlers' = [handlers EXCEPT ![h] = Idle]
    /\ UNCHANGED <<issued, live, due, expired>>

-----------------------------------------------------------------------------
\* A request ends early: the provider refuses or fails before it acts, the
\* database fails, the caller is gone, the server restarts.
Dropped(h) ==
    /\ handlers[h].at # "idle"
    /\ handlers' = [handlers EXCEPT ![h] = Idle]
    /\ UNCHANGED <<row, issued, live, due, expired>>

\* Time.  A request that found its token good for 5 minutes, or received it
\* fresh, is answered before the token expires.
ComesDue(t) ==
    /\ t \notin due
    /\ due' = due \cup {t}
    /\ UNCHANGED <<row, handlers, issued, live, expired>>

Expires(t) ==
    /\ t \in due \ expired
    /\ \A h \in Handlers :
        /\ handlers[h].at = "answer" /\ handlers[h].good => handlers[h].read.git # t
        /\ handlers[h].got # t
    /\ expired' = expired \cup {t}
    /\ UNCHANGED <<row, handlers, issued, live, due>>

\* The tokens whose time matters: those the row or a request still has.
InUse == {t \in {row.git} \cup {handlers[h].read.git : h \in Handlers}
                        \cup {handlers[h].got : h \in Handlers} : t.by \in Expiring}

Next ==
    \/ \E h \in Handlers :
        \/ UseReads(h) \/ Refresh(h) \/ RefreshLost(h) \/ StoreRefreshed(h) \/ Answer(h)
        \/ PatchReads(h) \/ PatchWrites(h)
        \/ \E p \in Providers : CallbackExchanges(h, p)
        \/ CallbackStores(h)
        \/ Dropped(h)
    \/ \E t \in InUse : ComesDue(t) \/ Expires(t)

Spec == Init /\ [][Next]_vars

-----------------------------------------------------------------------------
\* git_provider names who issued git_token.
Labelled(r) ==
    CASE r.git.by = "nobody" -> TRUE
      [] r.git.by = "user" -> r.provider = "manual"
      [] OTHER -> r.provider = r.git.by

\* An expired token is handed out only from a row that is labelled wrongly,
\* for instance as manual, which is never refreshed (maybe_refresh_oauth_git_token,
\* called before a token is used).
ServedIsAlive ==
    \A h \in Handlers : handlers[h].at = "answer" /\ handlers[h].read.git \in expired =>
                            ~Labelled(handlers[h].read)

\* A row gets a wrong label in one way: by a refresh that stores its tokens
\* after a callback or a PATCH, since it was read, changed the provider.  (A
\* PATCH can bring such a row back after it was mended.)
MislabelledByOverlap ==
    [][Labelled(row) /\ ~Labelled(row') =>
        \E h \in Handlers :
            \/ /\ handlers[h].at = "refreshed" /\ handlers'[h].at = "answer"
               /\ handlers[h].read.provider # row.provider
            \/ /\ handlers[h].at = "patch" /\ handlers'[h].at = "idle"
               /\ ~Labelled(handlers[h].read)]_vars

\* A refresh token is kept in the row, or by a handler about to store it.
Held(t) == \/ row.refresh = t
           \/ \E h \in Handlers : /\ handlers[h].at \in {"refreshed", "exchanged"}
                                  /\ handlers[h].got = t

\* A refresh token that still works is let go of only by a new sign-in, by a
\* PATCH that says so, by a request that is dropped with it in hand, or by one
\* that writes what it computed from a row that has changed since: a PATCH of
\* the agent token alone can bring back a spent refresh token, a refresh can
\* overwrite a new sign-in.
LostOnlyByOverlap ==
    [][\A t \in live : t \in live' /\ Held(t) /\ ~Held(t)' =>
        \E h \in Handlers :
            /\ handlers'[h] # handlers[h]
            /\ \/ handlers[h].at = "exchanged"
               \/ handlers[h].at = "refreshed" /\ handlers'[h].at = "idle"
               \/ handlers[h].at = "patch" /\ handlers[h].patch # KeepAll
               \/ handlers[h].at \in {"patch", "refreshed"} /\ handlers[h].read # row]_vars

\* The row is rightly labelled, and the user will be told of its token, once it
\* has expired, that "it will be refreshed automatically on the next use"
\* (identities.rs:173).
Promised(r) == Labelled(r) /\ GitAuth(r, {r.expires}, {r.expires}) = "expired_refreshable"

\* Such a use will succeed, as far as the stored refresh token goes.
PromiseHolds == Promised(row) => Accepts(row.provider, row.refresh)

\* The promise is broken in these ways only: a refresh spends the row's refresh
\* token, until it has stored the new one (for good if the answer is lost or
\* the request dropped); the user stores a refresh token of his own; or a PATCH
\* or a refresh writes what it computed from a row that has changed since.
PromiseBrokenByOverlap ==
    [][~PromiseHolds' =>
        \/ ~PromiseHolds /\ row' = row
        \/ \E h \in Handlers :
            /\ handlers'[h] # handlers[h]
            /\ \/ handlers[h].at = "refresh" /\ handlers[h].read.refresh = row.refresh
               \/ handlers[h].at = "patch" /\ handlers[h].patch.refresh = "set"
               \/ handlers[h].at \in {"patch", "refreshed"} /\ handlers[h].read # row]_vars
===============================================================================
