-------------------------- MODULE CredentialsProofs --------------------------
(***************************************************************************)
(* Proofs about Credentials.                                               *)
(***************************************************************************)
EXTENDS Credentials, TLAPS

\* A row as any handler writes it: its tokens were issued, and its expiry is
\* that of its token.
SoundRow(r) ==
    /\ r \in Row
    /\ r.expires = ExpiryOf(r.git)
    /\ r.git.n <= issued /\ r.refresh.n <= issued

\* What a request has read and received, by the step it is at.
SoundHandler(q) ==
    /\ q \in Handler
    /\ SoundRow(q.read)
    /\ q.got.n <= issued
    /\ q.at = "refresh" => q.read.provider \in Providers
    /\ q.at \in {"refreshed", "exchanged"} => q.got.by \in Providers /\ q.got \notin expired
    /\ q.at = "refreshed" => /\ q.got.by = q.read.provider
                             /\ IF q.got.by \in Rotating THEN q.read.refresh \notin live
                                                         ELSE q.got \notin live
    /\ q.at = "answer" /\ q.good => q.read.git \notin expired
    /\ q.at = "answer" /\ Labelled(q.read) /\ q.read.git.by \in Expiring => q.good

CredInv ==
    /\ SoundRow(row)
    /\ handlers \in [Handlers -> Handler]
    /\ \A h \in Handlers : SoundHandler(handlers[h])
    /\ issued \in 0 .. MaxTokens
    /\ live \subseteq Token /\ (\A t \in live : t.n <= issued)
    /\ due \subseteq Token
    /\ \A t \in due : t.by \in Expiring /\ t.n <= issued
    /\ expired \subseteq due

USE ProviderAssumption, PatchAssumption

LEMMA CredTypes ==
    /\ NoToken \in Token /\ UserToken \in Token
    /\ NoToken.by = "nobody" /\ UserToken.by = "user" /\ NoToken.n = 0 /\ UserToken.n = 0
    /\ EmptyRow \in Row /\ Idle \in Handler /\ KeepAll \in Patch
    /\ "nobody" \notin Expiring /\ "user" \notin Expiring
    /\ \A t \in Token : t.by \in Expiring => t # NoToken
BY DEF Token, NoToken, UserToken, EmptyRow, Row, Idle, Handler, Steps, KeepAll, Patch

\* A row that is labelled rightly names the provider its OAuth token is from.
LEMMA LabelNames ==
    ASSUME NEW r \in Row
    PROVE  /\ r.git.by \in Providers => (Labelled(r) <=> r.provider = r.git.by)
           /\ r.git.by = "user" => (Labelled(r) <=> r.provider = "manual")
           /\ r.git.by = "nobody" => Labelled(r)
BY DEF Labelled, Row, Token

LEMMA IdleSound ==
    ASSUME issued \in Nat
    PROVE  SoundHandler(Idle)
BY CredTypes DEF SoundHandler, SoundRow, Idle, EmptyRow, ExpiryOf, NoToken

LEMMA CredInit == Init => CredInv
<1> SUFFICES ASSUME Init PROVE CredInv
  OBVIOUS
<1>1. issued = 0 /\ row = EmptyRow /\ live = {} /\ due = {} /\ expired = {}
  BY DEF Init
<1>2. SoundRow(row)
  BY <1>1, CredTypes DEF SoundRow, EmptyRow, ExpiryOf, NoToken
<1>3. \A h \in Handlers : handlers[h] = Idle /\ SoundHandler(handlers[h])
  BY <1>1, IdleSound DEF Init
<1>4. handlers \in [Handlers -> Handler]
  BY CredTypes DEF Init
<1> QED
  BY <1>1, <1>2, <1>3, <1>4 DEF CredInv

\* A step of one request that issues no token and lets no time pass.
LEMMA OneMoves ==
    ASSUME CredInv, NEW h \in Handlers, NEW q,
           handlers' = [handlers EXCEPT ![h] = q],
           SoundHandler(q), SoundRow(row'),
           UNCHANGED <<issued, live, due, expired>>
    PROVE  CredInv'
<1>1. q \in Handler
  BY DEF SoundHandler
<1>2. handlers' \in [Handlers -> Handler]
  BY <1>1 DEF CredInv
<1>3. \A g \in Handlers : handlers'[g] = q \/ handlers'[g] = handlers[g]
  BY DEF CredInv
<1>4. \A g \in Handlers : SoundHandler(handlers'[g])
  BY <1>3 DEF CredInv
<1>5. \A g \in Handlers : SoundHandler(handlers[g])'
  BY <1>4 DEF SoundHandler, SoundRow
<1>6. SoundRow(row)'
  BY DEF SoundRow
<1> QED
  BY <1>2, <1>5, <1>6 DEF CredInv

\* A step that issues a token: what was sound stays so, for the new token has
\* a number of its own.
LEMMA OneIsIssued ==
    ASSUME CredInv, NEW h \in Handlers, NEW q, NEW p \in Providers,
           handlers' = [handlers EXCEPT ![h] = q],
           issued < MaxTokens, issued' = issued + 1,
           live' \subseteq live \cup {Fresh(p)},
           SoundHandler(handlers[h])',
           UNCHANGED <<row, due, expired>>
    PROVE  CredInv'
<1>1. handlers'[h] \in Handler /\ issued \in Nat /\ MaxTokens \in Nat
  BY DEF SoundHandler, CredInv
<1>2. handlers' \in [Handlers -> Handler]
  BY <1>1 DEF CredInv
<1>3. \A r \in Row : SoundRow(r) => SoundRow(r)'
  BY <1>1 DEF SoundRow, Row, Token
<1>4. SoundRow(row)'
  BY <1>3 DEF CredInv, SoundRow
<1>5. Fresh(p).n = issued + 1 /\ Fresh(p) \in Token
  BY <1>1 DEF Fresh, Token
<1>6. ASSUME NEW g \in Handlers, g # h
      PROVE  SoundHandler(handlers[g])'
  <2>1. handlers'[g] = handlers[g]
    BY <1>6 DEF CredInv
  <2>2. SoundHandler(handlers[g])
    BY DEF CredInv
  <2>3. /\ handlers[g] \in Handler
        /\ handlers[g].read.refresh.n <= issued /\ handlers[g].got.n <= issued
    BY <2>2 DEF SoundHandler, SoundRow
  <2>4. handlers[g].read.refresh # Fresh(p) /\ handlers[g].got # Fresh(p)
    BY <1>1, <1>5, <2>3
  <2>5. SoundRow(handlers[g].read)'
    BY <2>1, <2>2, <1>3, <2>3 DEF SoundHandler, SoundRow
  <2> QED
    BY <1>1, <2>1, <2>2, <2>3, <2>4, <2>5 DEF SoundHandler, Handler, Token
<1>7. \A g \in Handlers : SoundHandler(handlers[g])'
  BY <1>6
<1>8. live' \subseteq Token /\ (\A t \in live' : t.n <= issued')
  BY <1>1, <1>5 DEF CredInv, Token
<1>9. due' \subseteq Token /\ (\A t \in due' : t.by \in Expiring /\ t.n <= issued')
  BY <1>1 DEF CredInv, Token
<1>10. issued' \in 0 .. MaxTokens /\ expired' \subseteq due'
  BY <1>1 DEF CredInv
<1> QED
  BY <1>2, <1>4, <1>7, <1>8, <1>9, <1>10 DEF CredInv
-----------------------------------------------------------------------------
(* Every step keeps the invariant.                                         *)

LEMMA UseSteps ==
    ASSUME CredInv, NEW h \in Handlers, UseReads(h)
    PROVE  CredInv'
<1> DEFINE q == [Idle EXCEPT !.at = IF NeedsRefresh(row) THEN "refresh" ELSE "answer",
                             !.read = row, !.good = row.git \notin due]
<1>1. SoundRow(row) /\ row \in Row /\ issued \in Nat
  BY DEF CredInv, SoundRow
<1>2. /\ q.at = (IF NeedsRefresh(row) THEN "refresh" ELSE "answer")
      /\ q.read = row /\ q.good = (row.git \notin due) /\ q.got = NoToken
  BY DEF Idle
<1>3. q \in Handler
  BY <1>1, CredTypes DEF Handler, Steps
<1>4. NeedsRefresh(row) => row.provider \in Providers
  BY DEF NeedsRefresh
<1>5. q.good => row.git \notin expired
  BY <1>2 DEF CredInv
<1>6. ~NeedsRefresh(row) /\ Labelled(row) /\ row.git.by \in Expiring => row.git \notin due
  <2> SUFFICES ASSUME ~NeedsRefresh(row), Labelled(row), row.git.by \in Expiring
               PROVE  row.git \notin due
    OBVIOUS
  <2>1. row.provider \in Providers
    BY <1>1, LabelNames
  <2>2. row.expires = row.git /\ row.git # NoToken
    BY <1>1, CredTypes DEF SoundRow, ExpiryOf, Row
  <2> QED
    BY <2>1, <2>2 DEF NeedsRefresh
<1>7. SoundHandler(q)
  <2>1. q.read = row /\ q.got = NoToken /\ q.got.n = 0
    BY <1>2, CredTypes
  <2>2. q.at \in {"refresh", "answer"} /\ (q.at = "answer" <=> ~NeedsRefresh(row))
    BY <1>2
  <2>3. q.good = (row.git \notin due)
    BY <1>2
  <2> HIDE DEF q
  <2>4. q.at = "answer" /\ q.good => q.read.git \notin expired
    BY <1>5, <2>1
  <2>5. q.at = "answer" /\ Labelled(q.read) /\ q.read.git.by \in Expiring => q.good
    BY <1>6, <2>1, <2>2, <2>3
  <2>6. q.at = "refresh" => q.read.provider \in Providers
    BY <1>4, <2>1, <2>2
  <2>7. SoundRow(q.read) /\ q.got.n <= issued
    BY <1>1, <2>1
  <2>8. q.at # "refreshed" /\ q.at # "exchanged"
    BY <2>2
  <2> QED
    BY <1>3, <2>4, <2>5, <2>6, <2>7, <2>8 DEF SoundHandler
<1>8. handlers' = [handlers EXCEPT ![h] = q]
  BY DEF UseReads
<1>9. UNCHANGED <<row, issued, live, due, expired>>
  BY DEF UseReads
<1> HIDE DEF q
<1>10. SoundRow(row')
  BY <1>1, <1>9
<1> QED
  BY <1>7, <1>8, <1>9, <1>10, OneMoves

\* A request that ends leaves nothing behind.
LEMMA GoesIdle ==
    ASSUME CredInv, NEW h \in Handlers, handlers' = [handlers EXCEPT ![h] = Idle],
           SoundRow(row'), UNCHANGED <<issued, live, due, expired>>
    PROVE  CredInv'
<1>1. SoundHandler(Idle)
  BY IdleSound DEF CredInv
<1> QED
  BY <1>1, OneMoves

\* What an update of the row from tokens q received, over a sound row, leaves.
LEMMA RefreshedSound ==
    ASSUME NEW r, SoundRow(r), NEW q, SoundHandler(q), q.at = "refreshed"
    PROVE  SoundRow(Refreshed(r, q))
<1>1. q.got \in Token /\ q.read.refresh \in Token /\ r \in Row
  BY DEF SoundHandler, SoundRow, Handler, Row
<1>2. q.got.n <= issued /\ q.read.refresh.n <= issued
  BY DEF SoundHandler, SoundRow
<1>3. NewRefresh(q) \in Token /\ NewRefresh(q).n <= issued
  BY <1>1, <1>2 DEF NewRefresh
<1>4. ExpiryOf(q.got) \in Token
  BY <1>1, CredTypes DEF ExpiryOf
<1>5. /\ Refreshed(r, q) \in Row
      /\ Refreshed(r, q).git = q.got /\ Refreshed(r, q).refresh = NewRefresh(q)
      /\ Refreshed(r, q).expires = ExpiryOf(q.got)
  BY <1>1, <1>3, <1>4 DEF Refreshed, Row
<1> QED
  BY <1>1, <1>2, <1>3, <1>4, <1>5 DEF SoundRow

LEMMA StoreSteps ==
    ASSUME CredInv, NEW h \in Handlers, StoreRefreshed(h)
    PROVE  CredInv'
<1> DEFINE p == handlers[h]
           q == [p EXCEPT !.at = "answer", !.got = NoToken, !.good = TRUE,
                          !.read = Refreshed(p.read, p)]
<1>1. SoundHandler(p) /\ p.at = "refreshed" /\ SoundRow(row) /\ p \in Handler
  BY DEF CredInv, StoreRefreshed
<1>2. SoundRow(p.read) /\ p.got \notin expired /\ issued \in Nat
  BY <1>1 DEF SoundHandler, CredInv
<1>3. SoundRow(Refreshed(row, p)) /\ SoundRow(Refreshed(p.read, p))
  BY <1>1, <1>2, RefreshedSound
<1>4. Refreshed(p.read, p).git = p.got
  BY <1>2 DEF Refreshed, SoundRow, Row
<1>5. q \in Handler /\ q.at = "answer" /\ q.good = TRUE /\ q.got = NoToken
      /\ q.read = Refreshed(p.read, p)
  BY <1>1, <1>3, CredTypes DEF Handler, Steps, SoundRow
<1>6. handlers' = [handlers EXCEPT ![h] = q]
  BY DEF StoreRefreshed, CredInv
<1>7. row' = Refreshed(row, p) /\ UNCHANGED <<issued, live, due, expired>>
  BY DEF StoreRefreshed
<1> HIDE DEF p, q
<1>8. SoundHandler(q)
  BY <1>2, <1>3, <1>4, <1>5, CredTypes DEF SoundHandler
<1> QED
  BY <1>3, <1>6, <1>7, <1>8, OneMoves

LEMMA PatchedSound ==
    ASSUME NEW r, SoundRow(r), NEW p \in Patch, issued \in Nat
    PROVE  SoundRow(Patched(r, p)) /\ (Labelled(r) => Labelled(Patched(r, p)))
<1> DEFINE x == Patched(r, p)
<1>1. r \in Row /\ r.expires = ExpiryOf(r.git) /\ r.git.n <= issued /\ r.refresh.n <= issued
  BY DEF SoundRow
<1>2. x = [git |-> MergeGit(r, p), refresh |-> MergeRefresh(r, p),
           provider |-> ProviderAfter(r, p), expires |-> ExpiresAfter(r, p)]
  BY DEF Patched
<1>3. MergeRefresh(r, p) \in {NoToken, UserToken, r.refresh}
  BY DEF MergeRefresh
<1>4. CASE p.git = "keep"
  <2>1. x.git = r.git /\ x.provider = r.provider /\ x.expires = r.expires
    BY <1>2, <1>4 DEF MergeGit, ProviderAfter, ExpiresAfter
  <2>2. x = [git |-> r.git, refresh |-> MergeRefresh(r, p), provider |-> r.provider,
             expires |-> r.expires]
    BY <1>2, <2>1
  <2>3. MergeRefresh(r, p) \in Token /\ MergeRefresh(r, p).n <= issued
    BY <1>1, <1>3, CredTypes DEF Row
  <2>4. x \in Row /\ x.refresh.n <= issued
    BY <1>1, <2>2, <2>3 DEF Row
  <2> HIDE DEF x
  <2>5. Labelled(r) => Labelled(x)
    BY <2>1 DEF Labelled
  <2> QED
    BY <1>1, <2>1, <2>4, <2>5 DEF SoundRow, x
<1>5. CASE p.git # "keep"
  <2>1. MergeGit(r, p) \in {NoToken, UserToken} /\ ExpiresAfter(r, p) = NoToken
    BY <1>5 DEF MergeGit, ExpiresAfter
  <2>2. ProviderAfter(r, p) \in {"none", "manual"}
    BY <1>5 DEF ProviderAfter
  <2>3. MergeGit(r, p) = UserToken => ProviderAfter(r, p) = "manual"
    BY <1>5, CredTypes DEF MergeGit, ProviderAfter
  <2>4. x \in Row /\ x.git.n <= issued /\ x.refresh.n <= issued
    BY <1>1, <1>2, <1>3, <2>1, <2>2, CredTypes DEF Row
  <2>5. x.git = MergeGit(r, p) /\ x.expires = NoToken /\ x.provider = ProviderAfter(r, p)
    BY <1>2, <2>1
  <2> HIDE DEF x
  <2>6. ExpiryOf(x.git) = NoToken
    BY <2>1, <2>5, CredTypes DEF ExpiryOf
  <2>7. Labelled(x)
    BY <2>1, <2>3, <2>4, <2>5, CredTypes, LabelNames
  <2> QED
    BY <2>4, <2>5, <2>6, <2>7 DEF SoundRow, x
<1> QED
  BY <1>4, <1>5
LEMMA PatchSteps ==
    ASSUME CredInv, NEW h \in Handlers, PatchReads(h) \/ PatchWrites(h)
    PROVE  CredInv'
<1>1. SoundRow(row) /\ row \in Row /\ issued \in Nat /\ SoundHandler(handlers[h])
  BY DEF CredInv, SoundRow
<1>2. CASE PatchReads(h)
  <2>1. PICK p \in Patches : handlers' = [handlers EXCEPT ![h] =
                                [Idle EXCEPT !.at = "patch", !.read = row, !.patch = p]]
    BY <1>2 DEF PatchReads
  <2> DEFINE q == [Idle EXCEPT !.at = "patch", !.read = row, !.patch = p]
  <2>2. q.at = "patch" /\ q.read = row /\ q.got = NoToken
    BY DEF Idle
  <2>3. q \in Handler
    BY <1>1, CredTypes DEF Handler, Steps
  <2>4. handlers' = [handlers EXCEPT ![h] = q]
    BY <2>1
  <2> HIDE DEF q
  <2>5. SoundHandler(q)
    BY <1>1, <2>2, <2>3, CredTypes DEF SoundHandler
  <2>6. SoundRow(row') /\ UNCHANGED <<issued, live, due, expired>>
    BY <1>1, <1>2 DEF PatchReads
  <2> QED
    BY <2>4, <2>5, <2>6, OneMoves
<1>3. CASE PatchWrites(h)
  <2>1. SoundRow(handlers[h].read) /\ handlers[h].patch \in Patch
    BY <1>1 DEF SoundHandler, Handler
  <2>2. SoundRow(row')
    BY <1>1, <1>3, <2>1, PatchedSound DEF PatchWrites
  <2> QED
    BY <1>3, <2>2, GoesIdle DEF PatchWrites
<1> QED
  BY <1>2, <1>3

LEMMA CallbackStoreSteps ==
    ASSUME CredInv, NEW h \in Handlers, CallbackStores(h)
    PROVE  CredInv' /\ Labelled(row')
<1> DEFINE t == handlers[h].got
<1>1. t \in Token /\ t.n <= issued /\ t.by \in Providers /\ issued \in Nat
  BY DEF CredInv, CallbackStores, SoundHandler, Handler
<1>2. row' = [git |-> t, refresh |-> RefreshOf(t), expires |-> ExpiryOf(t),
              provider |-> t.by]
  BY DEF CallbackStores
<1>3. /\ RefreshOf(t) \in Token /\ RefreshOf(t).n <= issued
      /\ ExpiryOf(t) \in Token
  BY <1>1, CredTypes DEF RefreshOf, ExpiryOf
<1> HIDE DEF t
<1>4. row' \in Row /\ row'.git = t /\ row'.expires = ExpiryOf(t) /\ row'.provider = t.by
      /\ row'.refresh = RefreshOf(t)
  BY <1>1, <1>2, <1>3 DEF Row
<1>5. SoundRow(row')
  BY <1>1, <1>3, <1>4 DEF SoundRow
<1>6. Labelled(row')
  BY <1>1, <1>4, LabelNames
<1> QED
  BY <1>5, <1>6, GoesIdle DEF CallbackStores

\* A token of the provider's answer has not come due.
LEMMA FreshFacts ==
    ASSUME CredInv, issued < MaxTokens, NEW p \in Providers
    PROVE  /\ Fresh(p) \in Token /\ Fresh(p).by = p /\ Fresh(p).n = issued + 1
           /\ Fresh(p) \notin expired /\ Fresh(p) \notin live
<1>1. issued \in Nat /\ MaxTokens \in Nat
  BY DEF CredInv
<1>2. Fresh(p) \in Token /\ Fresh(p).by = p /\ Fresh(p).n = issued + 1
  BY <1>1 DEF Fresh, Token
<1>3. \A t \in expired \cup live : t.n <= issued /\ t \in Token
  BY DEF CredInv
<1> QED
  BY <1>1, <1>2, <1>3 DEF Token

LEMMA ExchangeSteps ==
    ASSUME CredInv, NEW h \in Handlers, NEW p \in Providers, CallbackExchanges(h, p)
    PROVE  CredInv'
<1> DEFINE q == [Idle EXCEPT !.at = "exchanged", !.got = Fresh(p)]
<1>1. /\ Fresh(p) \in Token /\ Fresh(p).by = p /\ Fresh(p).n = issued + 1
      /\ Fresh(p) \notin expired
  BY FreshFacts DEF CallbackExchanges
<1>2. q.at = "exchanged" /\ q.read = EmptyRow /\ q.got = Fresh(p)
  BY DEF Idle
<1>3. q \in Handler
  BY <1>1, CredTypes DEF Handler, Steps, Idle
<1>4. /\ handlers' = [handlers EXCEPT ![h] = q]
      /\ issued < MaxTokens /\ issued' = issued + 1 /\ UNCHANGED <<row, due, expired>>
  BY DEF CallbackExchanges
<1>5. live' \subseteq live \cup {Fresh(p)}
  BY DEF CallbackExchanges, RefreshOf
<1>6. issued \in Nat /\ handlers'[h] = q
  BY <1>4 DEF CredInv
<1> HIDE DEF q
<1>7. SoundRow(handlers[h].read)'
  BY <1>2, <1>4, <1>6, CredTypes DEF SoundRow, EmptyRow, ExpiryOf
<1>8. SoundHandler(handlers[h])'
  BY <1>1, <1>2, <1>3, <1>4, <1>6, <1>7 DEF SoundHandler
<1> QED
  BY <1>4, <1>5, <1>8, OneIsIssued

LEMMA RefreshSteps ==
    ASSUME CredInv, NEW h \in Handlers, Refresh(h) \/ RefreshLost(h)
    PROVE  CredInv'
<1> DEFINE p == handlers[h].read.provider
           r == handlers[h].read.refresh
<1>1. /\ handlers[h].at = "refresh" /\ Accepts(p, r) /\ Spent(p, r)
      /\ UNCHANGED <<row, due, expired>>
  BY DEF Refresh, RefreshLost
<1>2. SoundHandler(handlers[h]) /\ handlers[h] \in Handler /\ issued \in Nat
  BY DEF CredInv
<1>3. p \in Providers /\ SoundRow(handlers[h].read)
  BY <1>1, <1>2 DEF SoundHandler
<1>4. issued < MaxTokens /\ issued' = issued + 1
  BY <1>1 DEF Spent
<1>5. live' \subseteq live \cup {Fresh(p)}
  BY <1>1 DEF Spent
<1>6. /\ Fresh(p) \in Token /\ Fresh(p).by = p /\ Fresh(p).n = issued + 1
      /\ Fresh(p) \notin expired
  BY <1>3, <1>4, FreshFacts
<1>7. r \in Token /\ r.n <= issued /\ r # Fresh(p)
  BY <1>2, <1>3, <1>6 DEF SoundRow, Row, Token
<1>8. CASE Refresh(h)
  <2> DEFINE q == [handlers[h] EXCEPT !.at = "refreshed", !.got = Fresh(p)]
  <2>1. q.at = "refreshed" /\ q.got = Fresh(p) /\ q.read = handlers[h].read
    BY <1>2 DEF Handler
  <2>2. q \in Handler
    BY <1>2, <1>6 DEF Handler, Steps
  <2>3. handlers' = [handlers EXCEPT ![h] = q] /\ handlers'[h] = q
    BY <1>8 DEF Refresh, CredInv
  <2>4. IF p \in Rotating THEN r \notin live' ELSE Fresh(p) \notin live'
    <3>1. CASE p \in Rotating
      BY <1>1, <1>7, <3>1 DEF Spent
    <3>2. CASE p \notin Rotating
      <4>1. live' = live
        BY <1>1, <3>2 DEF Spent
      <4> QED
        BY <4>1, <3>2, FreshFacts, <1>3, <1>4
    <3> QED
      BY <3>1, <3>2
  <2>5. SoundRow(handlers[h].read)'
    BY <1>2, <1>3, <1>4, <2>1, <2>3 DEF SoundRow, Row, Token
  <2>6. q.got.by = q.read.provider /\ q.got.n <= issued'
    BY <1>2, <1>4, <1>6, <2>1
  <2>7. IF q.got.by \in Rotating THEN q.read.refresh \notin live' ELSE q.got \notin live'
    BY <1>6, <2>1, <2>4
  <2>8. q.got.by \in Providers /\ q.got \notin expired'
    BY <1>1, <1>3, <1>6, <2>1
  <2> HIDE DEF q
  <2>9. SoundHandler(handlers[h])'
    BY <2>1, <2>2, <2>3, <2>5, <2>6, <2>7, <2>8 DEF SoundHandler
  <2> QED
    BY <1>1, <1>3, <1>4, <1>5, <2>3, <2>9, OneIsIssued
<1>9. CASE RefreshLost(h)
  <2>1. handlers' = [handlers EXCEPT ![h] = Idle] /\ handlers'[h] = Idle
    BY <1>9 DEF RefreshLost, CredInv
  <2>2. SoundHandler(handlers[h])'
    BY <1>2, <1>4, <2>1, CredTypes
    DEF SoundHandler, SoundRow, Idle, EmptyRow, ExpiryOf, NoToken
  <2> QED
    BY <1>1, <1>3, <1>4, <1>5, <2>1, <2>2, OneIsIssued
<1> QED
  BY <1>8, <1>9

\* Time.
LEMMA TimeSteps ==
    ASSUME CredInv, NEW t \in InUse, ComesDue(t) \/ Expires(t)
    PROVE  CredInv'
<1>1. t \in Token /\ t.by \in Expiring /\ t.n <= issued
  BY DEF InUse, CredInv, SoundRow, Row, SoundHandler, Handler
<1>2. UNCHANGED <<row, handlers, issued, live>> /\ (expired' = expired \/ Expires(t))
  BY DEF ComesDue, Expires
<1>3. /\ due' \subseteq Token /\ (\A u \in due' : u.by \in Expiring /\ u.n <= issued)
      /\ expired' \subseteq due'
  BY <1>1 DEF ComesDue, Expires, CredInv
<1>4. \A r : SoundRow(r) => SoundRow(r)'
  BY <1>2 DEF SoundRow
<1>5. ASSUME NEW h \in Handlers
      PROVE  SoundHandler(handlers[h])'
  <2>1. SoundHandler(handlers[h]) /\ handlers[h] \in Handler
    BY DEF CredInv
  <2>2. handlers[h].at \in {"refreshed", "exchanged"} => handlers[h].got \notin expired'
    BY <2>1, <1>2 DEF SoundHandler, Expires
  <2>3. handlers[h].at = "answer" /\ handlers[h].good => handlers[h].read.git \notin expired'
    BY <2>1, <1>2 DEF SoundHandler, Expires
  <2>4. SoundRow(handlers[h].read)'
    BY <1>2, <2>1 DEF SoundHandler, SoundRow
  <2> QED
    BY <1>2, <2>1, <2>2, <2>3, <2>4 DEF SoundHandler
<1>6. SoundRow(row)'
  BY <1>2 DEF SoundRow, CredInv
<1>7. \A h \in Handlers : SoundHandler(handlers[h])'
  BY <1>5
<1>8. /\ handlers' \in [Handlers -> Handler] /\ issued' \in 0 .. MaxTokens
      /\ live' \subseteq Token /\ (\A u \in live' : u.n <= issued')
  BY <1>2 DEF CredInv
<1>9. \A u \in due' : u.by \in Expiring /\ u.n <= issued'
  BY <1>2, <1>3
<1> QED
  BY <1>3, <1>6, <1>7, <1>8, <1>9 DEF CredInv

LEMMA CredStep == CredInv /\ [Next]_vars => CredInv'
<1> SUFFICES ASSUME CredInv, [Next]_vars PROVE CredInv'
  OBVIOUS
<1>1. ASSUME NEW h \in Handlers, Answer(h) \/ Dropped(h)
      PROVE  CredInv'
  <2>1. SoundRow(row') /\ UNCHANGED <<issued, live, due, expired>>
    BY <1>1 DEF Answer, Dropped, CredInv
  <2> QED
    BY <1>1, <2>1, GoesIdle DEF Answer, Dropped
<1>2. CASE UNCHANGED vars
  BY <1>2 DEF vars, CredInv, SoundHandler, SoundRow
<1> QED
  BY <1>1, <1>2, UseSteps, RefreshSteps, StoreSteps, PatchSteps, ExchangeSteps,
     CallbackStoreSteps, TimeSteps DEF Next
LEMMA CredInvHolds == Spec => []CredInv
BY CredInit, CredStep, PTL DEF Spec

-----------------------------------------------------------------------------
(* The theorems.                                                           *)

\* TypeOK of Credentials: whatever requests overlap, token_expires_at is null
\* or the expiry of the git_token beside it, in the row as in every copy of it.
THEOREM ExpiryFollowsToken == Spec => []TypeOK
<1>1. CredInv => TypeOK
  BY DEF CredInv, SoundRow, ExpiryOf, TypeOK
<1> QED
  BY <1>1, CredInvHolds, PTL

\* ServedIsAlive of Credentials: maybe_refresh_oauth_git_token lets an expired
\* token through only from a row whose git_provider is wrong.
THEOREM NoExpiredTokenServed == Spec => []ServedIsAlive
<1>1. CredInv => ServedIsAlive
  <2> SUFFICES ASSUME CredInv, NEW h \in Handlers, handlers[h].at = "answer",
                      handlers[h].read.git \in expired, Labelled(handlers[h].read)
               PROVE  FALSE
    BY DEF ServedIsAlive
  <2>1. handlers[h].read.git.by \in Expiring
    BY DEF CredInv
  <2>2. SoundHandler(handlers[h])
    BY DEF CredInv
  <2> QED
    BY <2>1, <2>2 DEF SoundHandler
<1> QED
  BY <1>1, CredInvHolds, PTL

LEMMA MislabelStep ==
    ASSUME CredInv, [Next]_vars, Labelled(row), ~Labelled(row')
    PROVE  \E h \in Handlers :
               \/ /\ handlers[h].at = "refreshed" /\ handlers'[h].at = "answer"
                  /\ handlers[h].read.provider # row.provider
               \/ /\ handlers[h].at = "patch" /\ handlers'[h].at = "idle"
                  /\ ~Labelled(handlers[h].read)
<1>1. row' # row
  OBVIOUS
<1>2. PICK h \in Handlers : StoreRefreshed(h) \/ PatchWrites(h) \/ CallbackStores(h)
  BY <1>1 DEF Next, vars, UseReads, Refresh, RefreshLost, Answer, PatchReads,
     CallbackExchanges, Dropped, ComesDue, Expires
<1>3. SoundHandler(handlers[h]) /\ handlers[h] \in Handler /\ issued \in Nat
      /\ handlers[h].read \in Row /\ row \in Row
  BY DEF CredInv, SoundHandler, SoundRow
<1>4. CASE StoreRefreshed(h)
  <2>1. handlers[h].got.by = handlers[h].read.provider /\ handlers[h].got.by \in Providers
    BY <1>3, <1>4 DEF StoreRefreshed, SoundHandler
  <2>2. row'.git = handlers[h].got /\ row'.provider = row.provider /\ row' \in Row
    <3>1. SoundRow(Refreshed(row, handlers[h]))
      BY <1>3, <1>4, RefreshedSound DEF StoreRefreshed, CredInv
    <3> QED
      BY <1>3, <1>4, <3>1 DEF StoreRefreshed, Refreshed, SoundRow, Row
  <2>3. handlers[h].at = "refreshed" /\ handlers'[h].at = "answer"
    BY <1>3, <1>4 DEF StoreRefreshed, CredInv, Handler
  <2> QED
    BY <2>1, <2>2, <2>3, LabelNames
<1>5. CASE PatchWrites(h)
  <2>1. handlers[h].at = "patch" /\ handlers'[h].at = "idle"
    BY <1>5 DEF PatchWrites, CredInv, Idle
  <2>2. Labelled(handlers[h].read) => Labelled(row')
    BY <1>3, <1>5, PatchedSound DEF PatchWrites, SoundHandler, Handler
  <2> QED
    BY <2>1, <2>2
<1>6. CASE CallbackStores(h)
  BY <1>6, CallbackStoreSteps
<1> QED
  BY <1>2, <1>4, <1>5, <1>6

\* MislabelledByOverlap of Credentials: git_provider comes to name the wrong
\* provider only when a refresh stores its tokens over a change of the
\* provider, or a PATCH brings back a row that was wrong.
THEOREM LabelsLostByOverlap == Spec => MislabelledByOverlap
<1>1. CredInv /\ [Next]_vars =>
        [Labelled(row) /\ ~Labelled(row') =>
            \E h \in Handlers :
               \/ /\ handlers[h].at = "refreshed" /\ handlers'[h].at = "answer"
                  /\ handlers[h].read.provider # row.provider
               \/ /\ handlers[h].at = "patch" /\ handlers'[h].at = "idle"
                  /\ ~Labelled(handlers[h].read)]_vars
  BY MislabelStep
<1> QED
  BY <1>1, CredInvHolds, PTL DEF Spec, MislabelledByOverlap

LEMMA LossStep ==
    ASSUME CredInv, [Next]_vars, NEW t \in live, t \in live', Held(t), ~Held(t)'
    PROVE  \E h \in Handlers :
               /\ handlers'[h] # handlers[h]
               /\ \/ handlers[h].at = "exchanged"
                  \/ handlers[h].at = "refreshed" /\ handlers'[h].at = "idle"
                  \/ handlers[h].at = "patch" /\ handlers[h].patch # KeepAll
                  \/ handlers[h].at \in {"patch", "refreshed"} /\ handlers[h].read # row
<1>1. PICK h \in Handlers :
         /\ \A g \in Handlers : g # h => handlers'[g] = handlers[g]
         /\ \/ handlers[h].at \in {"idle", "refresh", "answer"} /\ row' = row
            \/ StoreRefreshed(h) \/ PatchWrites(h) \/ CallbackStores(h) \/ Dropped(h)
  <2>1. ~ UNCHANGED <<row, handlers>>
    BY DEF Held
  <2>2. PICK h \in Handlers :
           \/ UseReads(h) \/ Refresh(h) \/ RefreshLost(h) \/ StoreRefreshed(h) \/ Answer(h)
           \/ PatchReads(h) \/ PatchWrites(h)
           \/ \E p \in Providers : CallbackExchanges(h, p)
           \/ CallbackStores(h) \/ Dropped(h)
    BY <2>1 DEF Next, vars, ComesDue, Expires
  <2>3. \A g \in Handlers : g # h => handlers'[g] = handlers[g]
    BY <2>2 DEF UseReads, Refresh, RefreshLost, StoreRefreshed, Answer, PatchReads,
       PatchWrites, CallbackExchanges, CallbackStores, Dropped, CredInv
  <2> QED
    BY <2>2, <2>3 DEF UseReads, Refresh, RefreshLost, Answer, PatchReads, CallbackExchanges
<1>2. /\ \A g \in Handlers : g # h => handlers'[g] = handlers[g]
      /\ SoundHandler(handlers[h]) /\ handlers[h] \in Handler
      /\ handlers[h].read \in Row /\ row \in Row
  BY <1>1 DEF CredInv, SoundHandler, SoundRow
\* Nobody else holds t, and the row does not after the step.
<1>3. \/ row.refresh = t
      \/ handlers[h].at \in {"refreshed", "exchanged"} /\ handlers[h].got = t
  BY <1>2 DEF Held
<1>4. row'.refresh # t
  BY DEF Held
<1>5. CASE handlers[h].at \in {"idle", "refresh", "answer"} /\ row' = row
  BY <1>3, <1>4, <1>5
<1>6. CASE Dropped(h)
  <2>1. row' = row /\ handlers'[h] = Idle
    BY <1>6 DEF Dropped, CredInv
  <2>2. handlers'[h].at = "idle" /\ handlers'[h] # handlers[h]
    BY <1>6, <2>1 DEF Dropped, Idle
  <2> QED
    BY <1>3, <1>4, <2>1, <2>2
<1>7. CASE CallbackStores(h)
  <2>1. handlers[h].at = "exchanged" /\ handlers'[h] = Idle
    BY <1>7 DEF CallbackStores, CredInv
  <2>2. Idle.at = "idle"
    BY DEF Idle
  <2> QED
    BY <2>1, <2>2
<1>8. CASE PatchWrites(h)
  <2>1. handlers[h].at = "patch" /\ handlers'[h] = Idle /\ Idle.at = "idle"
    BY <1>8 DEF PatchWrites, CredInv, Idle
  <2>2. ASSUME handlers[h].patch = KeepAll, handlers[h].read = row
        PROVE  FALSE
    <3>1. row'.refresh = MergeRefresh(row, KeepAll)
      BY <1>8, <2>2 DEF PatchWrites, Patched
    <3>2. MergeRefresh(row, KeepAll) = row.refresh
      BY DEF MergeRefresh, KeepAll
    <3> QED
      BY <1>3, <1>4, <2>1, <3>1, <3>2
  <2> QED
    BY <2>1, <2>2
<1>9. CASE StoreRefreshed(h)
  <2>1. handlers[h].at = "refreshed" /\ handlers'[h].at = "answer"
    BY <1>2, <1>9 DEF StoreRefreshed, CredInv, Handler
  <2>2. ASSUME handlers[h].read = row
        PROVE  FALSE
    <3>1. row'.refresh = NewRefresh(handlers[h])
      BY <1>2, <1>9 DEF StoreRefreshed, Refreshed, Row
    <3>2. IF handlers[h].got.by \in Rotating THEN row.refresh \notin live
                                             ELSE handlers[h].got \notin live
      BY <1>2, <2>1, <2>2 DEF SoundHandler
    <3> QED
      BY <1>3, <1>4, <2>2, <3>1, <3>2 DEF NewRefresh
  <2> QED
    BY <2>1, <2>2
<1> QED
  BY <1>1, <1>5, <1>6, <1>7, <1>8, <1>9

\* LostOnlyByOverlap of Credentials: the handlers lose a refresh token that
\* still works only by writing over a row that changed after they read it, or
\* where the user or the end of the request says so.
THEOREM TokensLostByOverlap == Spec => LostOnlyByOverlap
<1>1. CredInv /\ [Next]_vars =>
        [\A t \in live : t \in live' /\ Held(t) /\ ~Held(t)' =>
            \E h \in Handlers :
               /\ handlers'[h] # handlers[h]
               /\ \/ handlers[h].at = "exchanged"
                  \/ handlers[h].at = "refreshed" /\ handlers'[h].at = "idle"
                  \/ handlers[h].at = "patch" /\ handlers[h].patch # KeepAll
                  \/ handlers[h].at \in {"patch", "refreshed"} /\ handlers[h].read # row]_vars
  BY LossStep
<1> QED
  BY <1>1, CredInvHolds, PTL DEF Spec, LostOnlyByOverlap

-----------------------------------------------------------------------------
(* What auth-status promises.                                              *)

\* A request with an answer of the provider that it has yet to store.
Storing(q) == q.at \in {"refreshed", "exchanged"}

\* What it will leave in the row can be spent: the token it got, or the one it
\* read when the provider does not rotate.
CanBeSpent(q) ==
    /\ q.got.by \in Rotating => q.got \in live
    /\ q.at = "exchanged" /\ q.got.by \in Expiring => q.got \in live
    /\ q.at = "refreshed" /\ q.got.by \notin Rotating =>
          q.read.refresh \in live /\ q.read.refresh.by = q.got.by

\* Nobody can spend it before: it is in no row that was read, nor got twice.
StoringInv ==
    \A h \in Handlers : Storing(handlers[h]) =>
        /\ CanBeSpent(handlers[h])
        /\ row.refresh # handlers[h].got
        /\ \A g \in Handlers : /\ handlers[g].read.refresh # handlers[h].got
                               /\ g # h /\ Storing(handlers[g])
                                    => handlers[g].got # handlers[h].got

\* The refresh tokens that request h can write into the row or a copy of it.
Known(h) == {NoToken, UserToken, row.refresh, handlers[h].read.refresh}
                \cup (IF Storing(handlers[h]) THEN {handlers[h].got} ELSE {})

\* Any step of one request after which it has nothing to store.
LEMMA StoringKept ==
    ASSUME CredInv, StoringInv, NEW h \in Handlers, NEW q,
           handlers' = [handlers EXCEPT ![h] = q], ~Storing(q),
           row'.refresh \in Known(h), q.read.refresh \in Known(h),
           \A t \in live \ live' : t = handlers[h].read.refresh /\ t.by \in Rotating
    PROVE  StoringInv'
<1>1. handlers'[h] = q /\ \A g \in Handlers : g # h => handlers'[g] = handlers[g]
  BY DEF CredInv
<1> SUFFICES ASSUME NEW k \in Handlers, Storing(handlers'[k])
             PROVE  /\ CanBeSpent(handlers[k])'
                    /\ row'.refresh # handlers'[k].got
                    /\ \A g \in Handlers : /\ handlers'[g].read.refresh # handlers'[k].got
                                           /\ g # k /\ Storing(handlers'[g])
                                                => handlers'[g].got # handlers'[k].got
  BY DEF StoringInv, Storing
<1>2. k # h /\ handlers'[k] = handlers[k] /\ Storing(handlers[k])
  BY <1>1
<1>3. handlers[k].got.by \in Providers
  BY <1>2 DEF CredInv, SoundHandler, Storing
<1>4. \A t \in Known(h) : t # handlers[k].got
  BY <1>2, <1>3, CredTypes DEF StoringInv, Known
<1>5. CanBeSpent(handlers[k]) /\ handlers[h].read.refresh # handlers[k].got
  BY <1>2 DEF StoringInv
<1>6. CanBeSpent(handlers[k])'
  <2>1. handlers[k].got \in live => handlers[k].got \in live'
    BY <1>5
  <2>2. /\ handlers[k].got.by \notin Rotating
        /\ handlers[k].read.refresh \in live /\ handlers[k].read.refresh.by = handlers[k].got.by
        => handlers[k].read.refresh \in live'
    OBVIOUS
  <2> QED
    BY <1>2, <1>5, <2>1, <2>2 DEF CanBeSpent
<1>7. \A g \in Handlers : handlers'[g].read.refresh # handlers[k].got
  BY <1>1, <1>2, <1>4 DEF StoringInv
<1>8. \A g \in Handlers : g # k /\ Storing(handlers'[g]) => handlers'[g].got # handlers[k].got
  BY <1>1, <1>2 DEF StoringInv
<1> QED
  BY <1>2, <1>4, <1>6, <1>7, <1>8

\* A step after which a request has a new token to store.
LEMMA StoringGot ==
    ASSUME CredInv, StoringInv, NEW h \in Handlers, NEW q, NEW p \in Providers,
           handlers' = [handlers EXCEPT ![h] = q],
           q.got = Fresh(p), CanBeSpent(handlers[h])',
           q.read.refresh \in {NoToken, handlers[h].read.refresh},
           row' = row, issued < MaxTokens,
           \A t \in live \ live' : t = handlers[h].read.refresh /\ t.by \in Rotating
    PROVE  StoringInv'
<1>1. handlers'[h] = q /\ \A g \in Handlers : g # h => handlers'[g] = handlers[g]
  BY DEF CredInv
<1>2. issued \in Nat /\ Fresh(p).n = issued + 1
  BY DEF CredInv, Fresh
<1>3. /\ row.refresh.n \in Nat /\ row.refresh.n <= issued
      /\ \A g \in Handlers : /\ handlers[g].got.n \in Nat /\ handlers[g].got.n <= issued
                             /\ handlers[g].read.refresh.n \in Nat
                             /\ handlers[g].read.refresh.n <= issued
  BY DEF CredInv, SoundRow, SoundHandler, Handler, Row, Token
<1>4. /\ row.refresh # Fresh(p) /\ NoToken # Fresh(p)
      /\ \A g \in Handlers : handlers[g].got # Fresh(p) /\ handlers[g].read.refresh # Fresh(p)
  BY <1>2, <1>3, CredTypes
<1> SUFFICES ASSUME NEW k \in Handlers, Storing(handlers'[k])
             PROVE  /\ CanBeSpent(handlers[k])'
                    /\ row'.refresh # handlers'[k].got
                    /\ \A g \in Handlers : /\ handlers'[g].read.refresh # handlers'[k].got
                                           /\ g # k /\ Storing(handlers'[g])
                                                => handlers'[g].got # handlers'[k].got
  BY DEF StoringInv, Storing
<1>5. CASE k = h
  BY <1>1, <1>4, <1>5
<1>6. CASE k # h
  <2>1. handlers'[k] = handlers[k] /\ Storing(handlers[k])
    BY <1>1, <1>6
  <2>2. CanBeSpent(handlers[k]) /\ row.refresh # handlers[k].got
        /\ (\A g \in Handlers : handlers[g].read.refresh # handlers[k].got)
    BY <2>1 DEF StoringInv
  <2>3. handlers[k].got.by \in Providers
    BY <2>1 DEF CredInv, SoundHandler, Storing
  <2>4. CanBeSpent(handlers[k])'
    <3>1. handlers[k].got \in live => handlers[k].got \in live'
      BY <2>2
    <3>2. /\ handlers[k].got.by \notin Rotating
          /\ handlers[k].read.refresh \in live
          /\ handlers[k].read.refresh.by = handlers[k].got.by
          => handlers[k].read.refresh \in live'
      OBVIOUS
    <3> QED
      BY <2>1, <2>2, <3>1, <3>2 DEF CanBeSpent
  <2>5. \A g \in Handlers : handlers'[g].read.refresh # handlers[k].got
    BY <1>1, <2>2, <2>3, CredTypes
  <2>6. \A g \in Handlers : g # k /\ Storing(handlers'[g])
            => handlers'[g].got # handlers[k].got
    BY <1>1, <1>4, <2>1 DEF StoringInv
  <2> QED
    BY <2>1, <2>2, <2>4, <2>5, <2>6
<1> QED
  BY <1>5, <1>6


LEMMA StoringStep == CredInv /\ StoringInv /\ [Next]_vars => StoringInv'
<1> SUFFICES ASSUME CredInv, StoringInv, [Next]_vars PROVE StoringInv'
  OBVIOUS
<1>0. ASSUME NEW h \in Handlers
      PROVE  /\ ~Storing(Idle) /\ Idle.read.refresh \in Known(h)
             /\ row.refresh \in Known(h)
  BY DEF Storing, Idle, EmptyRow, Known
<1>1. ASSUME NEW h \in Handlers, Answer(h) \/ Dropped(h)
      PROVE  StoringInv'
  <2>1. handlers' = [handlers EXCEPT ![h] = Idle] /\ row' = row /\ live' = live
    BY <1>1 DEF Answer, Dropped
  <2>2. row'.refresh \in Known(h)
    BY <2>1, <1>0
  <2> QED
    BY <2>1, <2>2, <1>0, StoringKept
<1>2. ASSUME NEW h \in Handlers, UseReads(h) \/ PatchReads(h)
      PROVE  StoringInv'
  <2> DEFINE q == handlers'[h]
  <2>1. handlers \in [Handlers -> Handler]
    BY DEF CredInv
  <2>2. /\ handlers' = [handlers EXCEPT ![h] = q]
        /\ ~Storing(q) /\ q.read = row /\ row' = row /\ live' = live
    BY <1>2, <2>1 DEF UseReads, PatchReads, Idle, Storing
  <2>3. row'.refresh \in Known(h) /\ q.read.refresh \in Known(h)
    BY <2>2, <1>0
  <2> HIDE DEF q
  <2> QED
    BY <2>2, <2>3, StoringKept
<1>3. ASSUME NEW h \in Handlers, PatchWrites(h)
      PROVE  StoringInv'
  <2>1. handlers' = [handlers EXCEPT ![h] = Idle] /\ live' = live
        /\ row' = Patched(handlers[h].read, handlers[h].patch)
    BY <1>3 DEF PatchWrites
  <2>2. row'.refresh \in {NoToken, UserToken, handlers[h].read.refresh}
    BY <2>1 DEF Patched, MergeRefresh
  <2>3. row'.refresh \in Known(h)
    BY <2>2 DEF Known
  <2> QED
    BY <2>1, <2>3, <1>0, StoringKept
<1>4. ASSUME NEW h \in Handlers, CallbackStores(h)
      PROVE  StoringInv'
  <2>1. /\ handlers' = [handlers EXCEPT ![h] = Idle] /\ live' = live
        /\ row'.refresh = RefreshOf(handlers[h].got) /\ Storing(handlers[h])
    BY <1>4 DEF CallbackStores, Storing
  <2>2. row'.refresh \in Known(h)
    BY <2>1 DEF RefreshOf, Known
  <2> QED
    BY <2>1, <2>2, <1>0, StoringKept
<1>5. ASSUME NEW h \in Handlers, StoreRefreshed(h)
      PROVE  StoringInv'
  <2> DEFINE q == [handlers[h] EXCEPT !.at = "answer", !.got = NoToken, !.good = TRUE,
                                      !.read = Refreshed(handlers[h].read, handlers[h])]
  <2>1. handlers[h] \in Handler /\ handlers[h].read \in Row /\ row \in Row
    BY DEF CredInv, SoundHandler, SoundRow
  <2>2. /\ handlers' = [handlers EXCEPT ![h] = q] /\ live' = live
        /\ row' = Refreshed(row, handlers[h]) /\ Storing(handlers[h])
    BY <1>5 DEF StoreRefreshed, Storing
  <2>3. row'.refresh = NewRefresh(handlers[h])
    BY <2>1, <2>2 DEF Refreshed, Row
  <2>4. ~Storing(q) /\ q.read = Refreshed(handlers[h].read, handlers[h])
    BY <2>1 DEF Handler, Storing
  <2>5. q.read.refresh = NewRefresh(handlers[h])
    BY <2>1, <2>4 DEF Refreshed, Row
  <2>6. NewRefresh(handlers[h]) \in Known(h)
    BY <2>2 DEF NewRefresh, Known
  <2> HIDE DEF q
  <2> QED
    BY <2>2, <2>3, <2>4, <2>5, <2>6, StoringKept
<1>6. ASSUME NEW h \in Handlers, NEW p \in Providers, CallbackExchanges(h, p)
      PROVE  StoringInv'
  <2> DEFINE q == [Idle EXCEPT !.at = "exchanged", !.got = Fresh(p)]
  <2>1. handlers' = [handlers EXCEPT ![h] = q] /\ row' = row /\ issued < MaxTokens
        /\ live' = live \cup ({RefreshOf(Fresh(p))} \ {NoToken})
        /\ (\A t \in live \ live' : t = handlers[h].read.refresh /\ t.by \in Rotating)
    BY <1>6 DEF CallbackExchanges
  <2>2. q.at = "exchanged" /\ q.got = Fresh(p) /\ q.read.refresh = NoToken
    BY DEF Idle, EmptyRow
  <2>3. handlers'[h] = q
    BY <2>1 DEF CredInv
  <2>4. Fresh(p).by = p /\ (p \in Expiring => Fresh(p) # NoToken)
    BY CredTypes DEF Fresh
  <2>5. p \in Expiring => Fresh(p) \in live'
    BY <2>1, <2>4 DEF RefreshOf
  <2> HIDE DEF q
  <2>6. CanBeSpent(handlers[h])'
    BY <2>2, <2>3, <2>4, <2>5 DEF CanBeSpent
  <2> QED
    BY <2>1, <2>2, <2>6, StoringGot
<1>7. ASSUME NEW h \in Handlers, Refresh(h) \/ RefreshLost(h)
      PROVE  StoringInv'
  <2> DEFINE p == handlers[h].read.provider
             r == handlers[h].read.refresh
  <2>1. /\ handlers[h].at = "refresh" /\ Accepts(p, r) /\ Spent(p, r) /\ row' = row
    BY <1>7 DEF Refresh, RefreshLost
  <2>2. handlers[h] \in Handler /\ p \in Providers
    BY <2>1 DEF CredInv, SoundHandler
  <2>3. /\ issued < MaxTokens
        /\ \A t \in live \ live' : t = r /\ t.by \in Rotating
    BY <2>1 DEF Spent, Accepts
  <2>4. Fresh(p).by = p
    BY DEF Fresh
  <2>5. CASE RefreshLost(h)
    <3>1. handlers' = [handlers EXCEPT ![h] = Idle]
      BY <2>5 DEF RefreshLost
    <3>2. row'.refresh \in Known(h)
      BY <2>1, <1>0
    <3> QED
      BY <2>3, <3>1, <3>2, <1>0, StoringKept
  <2>6. CASE Refresh(h)
    <3> DEFINE q == [handlers[h] EXCEPT !.at = "refreshed", !.got = Fresh(p)]
    <3>1. handlers' = [handlers EXCEPT ![h] = q] /\ handlers'[h] = q
      BY <2>6 DEF Refresh, CredInv
    <3>2. q.at = "refreshed" /\ q.got = Fresh(p) /\ q.read.refresh = r
      BY <2>2 DEF Handler
    <3>3. p \in Rotating => Fresh(p) \in live'
      BY <2>1 DEF Spent
    <3>4. p \notin Rotating => r \in live' /\ r.by = p
      BY <2>1 DEF Spent, Accepts
    <3> HIDE DEF q
    <3>5. CanBeSpent(handlers[h])'
      BY <2>4, <3>1, <3>2, <3>3, <3>4 DEF CanBeSpent
    <3> QED
      BY <2>1, <2>2, <2>3, <3>1, <3>2, <3>5, StoringGot
  <2> QED
    BY <1>7, <2>5, <2>6
<1>8. CASE UNCHANGED <<row, handlers, live>>
  BY <1>8 DEF StoringInv, Storing, CanBeSpent
<1> QED
  BY <1>1, <1>2, <1>3, <1>4, <1>5, <1>6, <1>7, <1>8 DEF Next, vars, ComesDue, Expires

\* What a row that makes the promise looks like.
LEMMA PromisedRow ==
    ASSUME NEW r \in Row, r.expires = ExpiryOf(r.git), Promised(r)
    PROVE  /\ r.git.by \in Expiring /\ r.provider = r.git.by
           /\ r.expires # NoToken /\ r.refresh # NoToken
<1>1. r.expires # NoToken /\ r.refresh # NoToken
  BY DEF Promised, GitAuth
<1>2. r.git.by \in Expiring
  BY <1>1 DEF ExpiryOf
<1> QED
  BY <1>1, <1>2, LabelNames DEF Promised

LEMMA PromiseStep ==
    ASSUME CredInv, StoringInv, [Next]_vars, ~PromiseHolds', PromiseHolds \/ row' # row
    PROVE  \E h \in Handlers :
               /\ handlers'[h] # handlers[h]
               /\ \/ handlers[h].at = "refresh" /\ handlers[h].read.refresh = row.refresh
                  \/ handlers[h].at = "patch" /\ handlers[h].patch.refresh = "set"
                  \/ handlers[h].at \in {"patch", "refreshed"} /\ handlers[h].read # row
<1>1. CredInv' /\ SoundRow(row)' /\ row' \in Row
  BY CredStep DEF CredInv, SoundRow
<1>2. Promised(row') /\ ~(row'.refresh \in live' /\ row'.refresh.by = row'.provider)
  BY DEF PromiseHolds, Accepts, Promised, Labelled, GitAuth
<1>3. /\ row'.git.by \in Expiring /\ row'.provider = row'.git.by
      /\ row'.expires # NoToken /\ row'.refresh # NoToken
  BY <1>1, <1>2, PromisedRow DEF SoundRow
<1>4. CASE row' = row
  <2>1. row.refresh \in live \ live'
    BY <1>2, <1>4 DEF PromiseHolds, Accepts
  <2>2. PICK h \in Handlers : Refresh(h) \/ RefreshLost(h)
    BY <2>1 DEF Next, vars, UseReads, StoreRefreshed, Answer, PatchReads, PatchWrites,
       CallbackExchanges, CallbackStores, Dropped, ComesDue, Expires
  <2>3. handlers[h].at = "refresh" /\ handlers[h].read.refresh = row.refresh
    BY <2>1, <2>2 DEF Refresh, RefreshLost, Spent
  <2>4. handlers[h] \in Handler /\ handlers'[h].at # "refresh"
    BY <2>2 DEF Refresh, RefreshLost, CredInv, Idle, Handler
  <2> QED
    BY <2>3, <2>4
<1>5. CASE row' # row
  <2>1. PICK h \in Handlers : StoreRefreshed(h) \/ PatchWrites(h) \/ CallbackStores(h)
    BY <1>5 DEF Next, vars, UseReads, Refresh, RefreshLost, Answer, PatchReads,
       CallbackExchanges, Dropped, ComesDue, Expires
  <2>2. /\ handlers[h] \in Handler /\ handlers[h].read \in Row /\ row \in Row
        /\ SoundHandler(handlers[h])
    BY DEF CredInv, SoundHandler, SoundRow
  <2>3. CASE CallbackStores(h)
    <3>1. /\ handlers[h].at = "exchanged" /\ live' = live
          /\ row'.git = handlers[h].got /\ row'.refresh = RefreshOf(handlers[h].got)
      BY <2>3 DEF CallbackStores
    <3>2. row'.refresh = handlers[h].got /\ handlers[h].got \in live
      BY <1>3, <3>1 DEF RefreshOf, StoringInv, Storing, CanBeSpent
    <3> QED
      BY <1>2, <1>3, <3>1, <3>2
  <2>4. CASE StoreRefreshed(h)
    <3>1. /\ handlers[h].at = "refreshed" /\ handlers'[h].at = "answer" /\ live' = live
      BY <2>2, <2>4 DEF StoreRefreshed, CredInv, Handler
    <3>2. /\ row'.git = handlers[h].got /\ row'.refresh = NewRefresh(handlers[h])
      BY <2>2, <2>4 DEF StoreRefreshed, Refreshed, Row
    <3>3. CanBeSpent(handlers[h])
      BY <3>1 DEF StoringInv, Storing
    <3>4. row'.refresh \in live' /\ row'.refresh.by = row'.git.by
      BY <3>1, <3>2, <3>3 DEF CanBeSpent, NewRefresh
    <3> QED
      BY <1>2, <1>3, <3>4
  <2>5. CASE PatchWrites(h)
    <3> DEFINE p == handlers[h].patch
    <3>1. /\ handlers[h].at = "patch" /\ handlers'[h].at = "idle"
          /\ row' = Patched(handlers[h].read, p)
      BY <2>5 DEF PatchWrites, CredInv, Idle
    <3>2. ASSUME handlers[h].read = row, p.refresh # "set"
          PROVE  FALSE
      <4>1. p.git = "keep"
        BY <1>3, <3>1 DEF Patched, ExpiresAfter
      <4>2. row'.refresh = MergeRefresh(row, p) /\ p \in Patch
        BY <2>2, <3>1, <3>2 DEF Patched, Handler
      <4>3. row'.refresh = row.refresh
        BY <1>3, <4>1, <4>2, <3>2 DEF MergeRefresh, Patch
      <4>4. row'.git = row.git /\ row'.expires = row.expires /\ row'.provider = row.provider
        BY <3>1, <3>2, <4>1 DEF Patched, MergeGit, ExpiresAfter, ProviderAfter
      <4> QED
        BY <1>1, <1>5, <2>2, <4>3, <4>4 DEF Row
    <3> QED
      BY <3>1, <3>2
  <2> QED
    BY <2>1, <2>3, <2>4, <2>5
<1> QED
  BY <1>4, <1>5

\* PromiseBrokenByOverlap of Credentials: compute_git_auth announces a refresh
\* that the provider will refuse only after the refresh token was spent by a
\* refresh that has not stored its answer, was set by the user, or was written
\* over what another request had stored.
THEOREM PromisesBrokenByOverlap == Spec => PromiseBrokenByOverlap
<1>1. Init => StoringInv
  BY DEF Init, StoringInv, Storing, Idle
<1>2. CredInv /\ StoringInv /\ [Next]_vars =>
        [~PromiseHolds' =>
            \/ ~PromiseHolds /\ row' = row
            \/ \E h \in Handlers :
                /\ handlers'[h] # handlers[h]
                /\ \/ handlers[h].at = "refresh" /\ handlers[h].read.refresh = row.refresh
                   \/ handlers[h].at = "patch" /\ handlers[h].patch.refresh = "set"
                   \/ handlers[h].at \in {"patch", "refreshed"} /\ handlers[h].read # row]_vars
  BY PromiseStep
<1>3. Spec => []StoringInv
  BY <1>1, StoringStep, CredInvHolds, PTL DEF Spec
<1> QED
  BY <1>2, <1>3, CredInvHolds, PTL DEF Spec, PromiseBrokenByOverlap
===============================================================================
