------------------------ MODULE OAuth2ConsentProofs ------------------------
(***************************************************************************)
(* Proofs about OAuth2Token, continued: a refresh token stays paired with  *)
(* the client it was issued to, and a consent the user has given survives  *)
(* every restart, with the exceptions the code makes for a grant without a *)
(* refresh token.                                                          *)
(***************************************************************************)
EXTENDS OAuth2TokenProofs

USE DEF NoToken, NoClient, callerVars, providerVars, outsideVars, historyVars

-----------------------------------------------------------------------------
(* The pairing of refresh tokens and clients.                               *)

\* Token r, if it is one, was issued to client c.
BoundTo(r, c) == r # NoToken => boundTo[r] = c

\* An entry of a cache or of the store is a pair, unless its access token came
\* from a grant without a refresh token.
PairOK(e) == e.access \in bare \/ BoundTo(e.refresh, e.client)

\* The refresh token t has after the answer it has received.
Kept(t) == IF pc[t] = "answered" /\ answer[t].refresh # NoToken
           THEN answer[t].refresh ELSE cache[Owner[t]].refresh

\* t has a new token in hand: received, and not yet stored.
HasNew(t) == (pc[t] = "answered" /\ answer[t].kind = "tokens") \/ pc[t] = "saving"

\* ... and it came from a grant without a refresh token.
NewIsBare(t) == IF pc[t] = "answered" THEN answer[t].access \in bare
                ELSE cache[Owner[t]].access \in bare

\* Every refresh token was issued; client_credentials issues none.
Issued(r) == r <= issued /\ (Grant = "client_credentials" => r = NoToken)

TokensIssued ==
    /\ Issued(store.refresh)
    /\ \A c \in copies : Issued(c.entry.refresh)
    /\ \A m \in Manager : Issued(cache[m].refresh)
    /\ \A t \in Task : Issued(answer[t].refresh)

\* With a configured client there is only that one; without one, a manager
\* that has a refresh token, or asks for a token, has a registered client.
ClientsNamed ==
    IF Dynamic
    THEN /\ store.refresh # NoToken => store.client # NoClient
         /\ \A c \in copies : c.entry.refresh # NoToken => c.entry.client # NoClient
         /\ \A m \in Manager : cache[m].refresh # NoToken => cache[m].client # NoClient
         /\ \A t \in Task :
              Critical(t) /\ pc[t] # "registering" => cache[Owner[t]].client # NoClient
    ELSE /\ store.client = NoClient
         /\ \A c \in copies : c.entry.client = NoClient
         /\ \A m \in Manager : cache[m].client = NoClient
         /\ \A r \in AnyToken : boundTo[r] = NoClient
         /\ \A o \in orphans : o.client = NoClient

\* What a task presents is its manager's cached token, and only a manager that
\* may ask the user registers a client beside a refresh token.
RequestsFit ==
    \A t \in Task :
        /\ pc[t] = "at_provider" /\ flow[t] # "grant" => presented[t] = cache[Owner[t]].refresh
        /\ pc[t] = "registering" =>
             Dynamic /\ (Grant = "client_credentials" \/ Owner[t] \notin Daemon)

\* The pairing itself: in the store and its copies, in a daemon's cache and in hand.
Paired ==
    /\ PairOK(store)
    /\ \A c \in copies : PairOK(c.entry)
    /\ \A m \in Daemon : PairOK(cache[m])
    /\ \A t \in Task : HasNew(t) => NewIsBare(t) \/ BoundTo(Kept(t), cache[Owner[t]].client)

PairInv == TypeOK /\ Singleflight /\ TokensIssued /\ ClientsNamed /\ RequestsFit /\ Paired

\* Unless a fault destroyed a token or a grant came without one, every token in
\* hand is accepted by the provider, and so is the stored one unless a newer one
\* is in hand.
HandsConsent == \A t \in Task : HasNew(t) => NewIsBare(t) \/ Kept(t) \in live
StoreConsents ==
    issued > 0 => store.access \in bare \/ store.refresh \in live \/ \E t \in Task : HasNew(t)

ConsentKept == losses = "none" => orphans = {} /\ HandsConsent /\ StoreConsents

-----------------------------------------------------------------------------
LEMMA TokenNats ==
  ASSUME TypeOK
  PROVE  /\ issued \in Nat /\ store.refresh \in AnyToken /\ AnyToken \subseteq Nat
         /\ \A c \in copies : c.entry.refresh \in AnyToken
         /\ \A m \in Manager : cache[m].refresh \in AnyToken
         /\ \A t \in Task : answer[t].refresh \in AnyToken /\ Owner[t] \in Manager
         /\ \A o \in orphans : o.client \in AnyClient
         /\ \A t \in Task : presented[t] \in AnyToken /\ cache[Owner[t]].client \in AnyClient
         /\ \A n \in AnyToken : n # NoToken => n > 0
<1>1. AnyToken \subseteq Nat /\ \A n \in AnyToken : n # NoToken => n > 0
  BY ConstantsAssumption DEF AnyToken
<1>2. issued \in Nat /\ store.refresh \in AnyToken
  BY <1>1 DEF TypeOK, ManagerTypeOK, ProviderTypeOK, StoreEntry
<1>3. \A m \in Manager : cache[m].refresh \in AnyToken /\ cache[m].client \in AnyClient
  BY DEF TypeOK, ManagerTypeOK, CacheEntry
<1>4. \A t \in Task : answer[t].refresh \in AnyToken /\ presented[t] \in AnyToken
  BY DEF TypeOK, CallerTypeOK, Answer
<1>5. /\ \A o \in orphans : o.client \in AnyClient
      /\ \A c \in copies : c.entry.refresh \in AnyToken
  BY DEF TypeOK, HistoryTypeOK, StoreEntry
<1> QED
  BY <1>1, <1>2, <1>3, <1>4, <1>5, OwnerType

LEMMA InHandIsCritical ==
  ASSUME NEW t \in Task, HasNew(t)
  PROVE  Critical(t) /\ pc[t] # "registering" /\ pc[t] \in {"answered", "saving"}
  BY DEF HasNew, Critical

\* The provider's book only grows: what was issued stays bound as it was.
BookGrows ==
    /\ issued' \in Nat /\ issued' >= issued
    /\ \A r \in AnyToken : r <= issued => boundTo'[r] = boundTo[r]

\* A step of t after which it has nothing in hand: its manager's cache keeps its
\* entry, takes the stored one, or gets a new client for the grant t is about to run.
QuietStep(t) ==
    LET m == Owner[t] IN
    /\ UNCHANGED <<store, issued, boundTo, bare, copies>>
    /\ orphans' \subseteq orphans \union {[token |-> presented[t], client |-> cache[m].client]}
    /\ pc'[t] \notin {"answered", "saving"}
    /\ answer'[t].refresh \in {NoToken, answer[t].refresh}
    /\ \A u \in Task \ {t} : /\ pc'[u] = pc[u] /\ answer'[u] = answer[u]
                            /\ presented'[u] = presented[u] /\ flow'[u] = flow[u]
    /\ \A n \in Manager \ {m} : cache'[n] = cache[n]
    /\ cache' = cache \/ \A u \in Task \ {t} : Owner[u] = m => ~Critical(u)
    /\ \/ /\ cache'[m].refresh = cache[m].refresh /\ cache'[m].client = cache[m].client
          /\ cache'[m].access = cache[m].access
       \/ /\ cache'[m].refresh = store.refresh /\ cache'[m].access = store.access
          /\ cache'[m].client = ClientOr(store.client, cache[m].client)
       \/ /\ pc[t] = "registering" /\ pc'[t] = "at_provider" /\ flow'[t] = "grant"
          /\ cache'[m].refresh = cache[m].refresh /\ cache'[m].client # NoClient
    /\ pc'[t] = "registering" => Dynamic /\ (Grant = "client_credentials" \/ m \notin Daemon)
    /\ pc'[t] = "at_provider" =>
         IF flow'[t] = "grant" THEN Dynamic => cache'[m].client # NoClient
         ELSE presented'[t] = cache'[m].refresh /\ presented'[t] # NoToken

LEMMA QuietStepKeeps ==
  ASSUME PairInv, NEW t \in Task, QuietStep(t)
  PROVE  TokensIssued' /\ ClientsNamed' /\ RequestsFit' /\ Paired'
<1> DEFINE m == Owner[t]
<1> USE TokenNats DEF PairInv
<1>1. TokensIssued'
  <2>1. \A n \in Manager : cache'[n].refresh = cache[n].refresh \/ cache'[n].refresh = store.refresh
    BY DEF QuietStep
  <2>2. \A u \in Task : answer'[u].refresh \in {NoToken, answer[u].refresh}
    BY DEF QuietStep
  <2>3. UNCHANGED <<store, issued, copies>>
    BY DEF QuietStep
  <2> QED
    BY <2>1, <2>2, <2>3 DEF TokensIssued, Issued
<1>2. \A u \in Task \ {t} : Critical(u) => cache'[Owner[u]] = cache[Owner[u]]
  BY DEF QuietStep
<1>3. ClientsNamed'
  <2>1. CASE Dynamic
    <3>1. \A n \in Manager : cache'[n].refresh # NoToken => cache'[n].client # NoClient
      BY <2>1 DEF QuietStep, ClientsNamed, ClientOr
    <3>2. ASSUME NEW u \in Task, Critical(u)', pc'[u] # "registering"
          PROVE  cache'[Owner[u]].client # NoClient
      <4>1. CASE u = t
        BY <2>1, <3>1, <3>2, <4>1 DEF QuietStep, Critical
      <4>2. CASE u # t
        BY <1>2, <2>1, <3>2, <4>2 DEF QuietStep, ClientsNamed, Critical
      <4> QED
        BY <4>1, <4>2
    <3> QED
      BY <2>1, <3>1, <3>2 DEF QuietStep, ClientsNamed
  <2>2. CASE ~Dynamic
    <3>1. \A o \in orphans' : o.client = NoClient
      <4>1. cache[m].client = NoClient /\ \A o \in orphans : o.client = NoClient
        BY <2>2 DEF ClientsNamed
      <4> QED
        BY <4>1 DEF QuietStep
    <3> QED
      BY <2>2, <3>1 DEF QuietStep, ClientsNamed, ClientOr, RequestsFit
  <2> QED
    BY <2>1, <2>2
<1>4. RequestsFit'
  <2> SUFFICES ASSUME NEW u \in Task
               PROVE  (/\ pc[u] = "at_provider" /\ flow[u] # "grant" =>
                            presented[u] = cache[Owner[u]].refresh
                       /\ pc[u] = "registering" =>
                            Dynamic /\ (Grant = "client_credentials" \/ Owner[u] \notin Daemon))'
    BY DEF RequestsFit
  <2>1. CASE u = t
    BY <2>1 DEF QuietStep
  <2>2. CASE u # t
    BY <1>2, <2>2 DEF QuietStep, RequestsFit, Critical
  <2> QED
    BY <2>1, <2>2
<1>5. Paired'
  <2>1. PairOK(store)' /\ \A c \in copies' : PairOK(c.entry)'
    BY DEF QuietStep, Paired, PairOK, BoundTo
  <2>2. ASSUME NEW n \in Daemon PROVE PairOK(cache[n])'
    <3>1. /\ n \in Manager /\ UNCHANGED <<bare, boundTo>>
          /\ PairOK(store) /\ PairOK(cache[n])
          /\ \/ /\ cache'[m].refresh = cache[m].refresh /\ cache'[m].client = cache[m].client
                /\ cache'[m].access = cache[m].access
             \/ /\ cache'[m].refresh = store.refresh /\ cache'[m].access = store.access
                /\ cache'[m].client = ClientOr(store.client, cache[m].client)
             \/ pc[t] = "registering" /\ cache'[m].refresh = cache[m].refresh
      BY ConstantsAssumption DEF QuietStep, Paired
    <3>2. CASE n # m \/ (/\ cache'[m].refresh = cache[m].refresh
                         /\ cache'[m].client = cache[m].client /\ cache'[m].access = cache[m].access)
      BY <3>1, <3>2 DEF QuietStep, PairOK, BoundTo
    <3>3. CASE /\ n = m /\ cache'[m].refresh = store.refresh /\ cache'[m].access = store.access
               /\ cache'[m].client = ClientOr(store.client, cache[m].client)
      BY <3>1, <3>3 DEF PairOK, BoundTo, ClientOr, ClientsNamed
    <3>4. CASE n = m /\ pc[t] = "registering" /\ cache'[m].refresh = cache[m].refresh
      <4>1. cache'[m].refresh = NoToken
        BY <2>2, <3>4 DEF RequestsFit, TokensIssued, Issued
      <4> QED
        BY <3>4, <4>1 DEF PairOK, BoundTo
    <3> QED
      BY <3>1, <3>2, <3>3, <3>4
  <2>3. ASSUME NEW u \in Task, HasNew(u)'
        PROVE  (NewIsBare(u) \/ BoundTo(Kept(u), cache[Owner[u]].client))'
    <3>1. u # t
      BY <2>3 DEF QuietStep, HasNew
    <3>2. /\ HasNew(u) /\ Kept(u)' = Kept(u) /\ cache'[Owner[u]] = cache[Owner[u]]
          /\ NewIsBare(u)' = NewIsBare(u)
      BY <1>2, <2>3, <3>1 DEF QuietStep, HasNew, Kept, NewIsBare, Critical
    <3> QED
      BY <3>2 DEF QuietStep, Paired, BoundTo
  <2> QED
    BY <2>1, <2>2, <2>3 DEF Paired
<1> QED
  BY <1>1, <1>3, <1>4, <1>5

\* The provider answers t.  A refresh token it hands out is the newest one, and
\* bound to t's client; an answer without one leaves t the token it presented.
AnswerStep(t) ==
    LET m == Owner[t] IN
    /\ UNCHANGED <<cache, store, presented, flow, orphans, copies>>
    /\ bare \subseteq bare'
    /\ pc[t] = "at_provider" /\ pc'[t] = "answered"
    /\ \A u \in Task \ {t} : pc'[u] = pc[u] /\ answer'[u] = answer[u]
    /\ issued' \in {issued, issued + 1}
    /\ \A r \in AnyToken : r <= issued => boundTo'[r] = boundTo[r]
    /\ \A r \in AnyToken : boundTo'[r] \in {boundTo[r], cache[m].client}
    /\ \/ answer'[t].refresh = NoToken /\ answer'[t].kind # "tokens"
       \/ /\ answer'[t].refresh = NoToken
          /\ IF flow[t] = "grant" THEN answer'[t].access \in bare'
             ELSE boundTo[presented[t]] = cache[m].client
       \/ /\ answer'[t].refresh = issued + 1 /\ issued' = issued + 1 /\ issued + 1 \in AnyToken
          /\ boundTo'[issued + 1] = cache[m].client
          /\ \/ flow[t] # "grant" /\ presented[t] # NoToken
             \/ Grant = "authorization_code"

LEMMA AnswerStepKeeps ==
  ASSUME PairInv, NEW t \in Task, AnswerStep(t)
  PROVE  TokensIssued' /\ ClientsNamed' /\ RequestsFit' /\ Paired'
<1> DEFINE m == Owner[t]
<1> USE TokenNats DEF PairInv
<1>1. TokensIssued'
  <2>1. Issued(answer[t].refresh)'
    <3>1. Grant = "client_credentials" => cache[m].refresh = NoToken
      BY DEF TokensIssued, Issued
    <3>2. flow[t] # "grant" => presented[t] = cache[m].refresh
      BY DEF AnswerStep, RequestsFit
    <3> QED
      BY <3>1, <3>2 DEF AnswerStep, Issued
  <2>2. /\ UNCHANGED <<store, cache, copies>> /\ issued' >= issued /\ issued' \in Nat
        /\ \A u \in Task \ {t} : answer'[u] = answer[u]
    BY DEF AnswerStep
  <2> QED
    BY <2>1, <2>2 DEF TokensIssued, Issued
<1>2. ClientsNamed'
  BY DEF AnswerStep, ClientsNamed, Critical
<1>3. RequestsFit'
  BY DEF AnswerStep, RequestsFit
<1>4. Paired'
  <2>1. \A r \in AnyToken : r <= issued => boundTo'[r] = boundTo[r]
    BY DEF AnswerStep
  <2>2. PairOK(store)' /\ \A c \in copies' : PairOK(c.entry)'
    BY <2>1 DEF AnswerStep, Paired, PairOK, BoundTo, TokensIssued, Issued
  <2>3. ASSUME NEW n \in Daemon PROVE PairOK(cache[n])'
    <3>1. n \in Manager
      BY ConstantsAssumption
    <3> QED
      BY <2>1, <3>1 DEF AnswerStep, Paired, PairOK, BoundTo, TokensIssued, Issued
  <2>4. ASSUME NEW u \in Task, u # t, HasNew(u)'
        PROVE  (NewIsBare(u) \/ BoundTo(Kept(u), cache[Owner[u]].client))'
    <3>1. /\ HasNew(u) /\ Kept(u)' = Kept(u) /\ UNCHANGED cache
          /\ NewIsBare(u) => NewIsBare(u)'
      BY <2>4 DEF AnswerStep, HasNew, Kept, NewIsBare
    <3>2. Kept(u) \in AnyToken /\ Kept(u) <= issued
      BY DEF Kept, TokensIssued, Issued
    <3> QED
      BY <2>1, <3>1, <3>2 DEF Paired, BoundTo
  <2>5. ASSUME HasNew(t)'
        PROVE  (NewIsBare(t) \/ BoundTo(Kept(t), cache[Owner[t]].client))'
    <3>1. pc'[t] = "answered" /\ answer'[t].kind = "tokens" /\ UNCHANGED cache
      BY <2>5 DEF AnswerStep, HasNew
    <3>2. CASE answer'[t].refresh = NoToken
      <4>1. Kept(t)' = cache[m].refresh
        BY <3>1, <3>2 DEF Kept
      <4>2. CASE flow[t] = "grant"
        BY <3>1, <3>2, <4>2 DEF AnswerStep, NewIsBare
      <4>3. CASE flow[t] # "grant"
        <5>1. presented[t] = cache[m].refresh /\ cache[m].refresh <= issued
          BY <4>3 DEF AnswerStep, RequestsFit, TokensIssued, Issued
        <5>2. boundTo[presented[t]] = cache[m].client
          BY <3>1, <3>2, <4>3 DEF AnswerStep
        <5> QED
          BY <2>1, <3>1, <4>1, <5>1, <5>2 DEF BoundTo
      <4> QED
        BY <4>2, <4>3
    <3>3. CASE answer'[t].refresh # NoToken
      BY <3>1, <3>3 DEF AnswerStep, Kept, BoundTo
    <3> QED
      BY <3>2, <3>3
  <2> QED
    BY <2>2, <2>3, <2>4, <2>5 DEF Paired
<1> QED
  BY <1>1, <1>2, <1>3, <1>4

LEMMA CacheTokenKeepsPairs ==
  ASSUME PairInv, NEW t \in Task, CacheTokenResponse(t)
  PROVE  TokensIssued' /\ ClientsNamed' /\ RequestsFit' /\ Paired'
<1> DEFINE m == Owner[t]
<1> USE TokenNats DEF PairInv
<1>0. /\ Critical(t) /\ pc[t] # "registering" /\ HasNew(t) /\ NoAnswer.refresh = NoToken
      /\ pc \in [Task -> Location] /\ answer \in [Task -> Answer]
      /\ cache \in [Manager -> CacheEntry]
  BY DEF CacheTokenResponse, Critical, HasNew, NoAnswer, TypeOK, CallerTypeOK, ManagerTypeOK
<1>1. /\ UNCHANGED <<store, issued, boundTo, bare, copies, presented, flow, orphans>>
      /\ pc[t] = "answered"
      /\ pc' = [pc EXCEPT ![t] = "saving"]
      /\ answer' = [answer EXCEPT ![t] = NoAnswer]
      /\ cache'[m].refresh = Kept(t) /\ cache'[m].access = answer[t].access
      /\ cache'[m].client = ClientOr(NoClient, cache[m].client)
      /\ \A n \in Manager \ {m} : cache'[n] = cache[n]
  BY <1>0 DEF CacheTokenResponse, Kept
<1>2. cache'[m].client = cache[m].client
  BY <1>1 DEF ClientOr, ClientsNamed
<1>3. \A u \in Task \ {t} : Critical(u) => Owner[u] # m
  BY <1>0, OneCritical
<1>4. TokensIssued'
  BY <1>0, <1>1 DEF TokensIssued, Issued, Kept
<1>5. ClientsNamed'
  <2>1. CASE Dynamic
    BY <1>0, <1>1, <1>2, <2>1 DEF ClientsNamed, Critical
  <2>2. CASE ~Dynamic
    BY <1>1, <1>2, <2>2 DEF ClientsNamed
  <2> QED
    BY <2>1, <2>2
<1>6. RequestsFit'
  BY <1>0, <1>1, <1>3 DEF RequestsFit, Critical
<1>7. answer[t].access \in bare \/ BoundTo(Kept(t), cache[m].client)
  BY <1>0, <1>1 DEF Paired, NewIsBare
<1>8. Paired'
  <2>1. PairOK(store)' /\ \A c \in copies' : PairOK(c.entry)'
    BY <1>1 DEF Paired, PairOK, BoundTo
  <2>2. ASSUME NEW n \in Daemon PROVE PairOK(cache[n])'
    BY <1>1, <1>2, <1>7, ConstantsAssumption DEF Paired, PairOK, BoundTo
  <2>3. ASSUME NEW u \in Task, HasNew(u)'
        PROVE  (NewIsBare(u) \/ BoundTo(Kept(u), cache[Owner[u]].client))'
    <3>1. CASE u = t
      <4>1. Kept(t)' = cache'[m].refresh /\ NewIsBare(t)' = (answer[t].access \in bare)
        BY <1>0, <1>1 DEF Kept, NewIsBare
      <4> QED
        BY <1>1, <1>2, <1>7, <3>1, <4>1 DEF BoundTo
    <3>2. CASE u # t
      <4>1. HasNew(u) /\ Critical(u)
        BY <1>0, <1>1, <2>3, <3>2 DEF HasNew, Critical
      <4>2. cache'[Owner[u]] = cache[Owner[u]]
        BY <1>1, <1>3, <3>2, <4>1
      <4>3. Kept(u)' = Kept(u) /\ NewIsBare(u)' = NewIsBare(u)
        BY <1>0, <1>1, <3>2, <4>2 DEF Kept, NewIsBare
      <4> QED
        BY <1>1, <4>1, <4>2, <4>3 DEF Paired, BoundTo
    <3> QED
      BY <3>1, <3>2
  <2> QED
    BY <2>1, <2>2, <2>3 DEF Paired
<1> QED
  BY <1>4, <1>5, <1>6, <1>8

LEMMA SaveTokenKeepsPairs ==
  ASSUME PairInv, NEW t \in Task, SaveToken(t)
  PROVE  TokensIssued' /\ ClientsNamed' /\ RequestsFit' /\ Paired'
<1> DEFINE m == Owner[t]
<1> USE TokenNats DEF PairInv
<1>0. /\ Critical(t) /\ pc[t] = "saving" /\ HasNew(t) /\ NoAnswer.refresh = NoToken
      /\ NoAnswer.kind = "none"
      /\ pc \in [Task -> Location] /\ answer \in [Task -> Answer]
      /\ presented \in [Task -> AnyToken]
  BY DEF SaveToken, Critical, HasNew, NoAnswer, TypeOK, CallerTypeOK
<1>1. /\ UNCHANGED <<cache, issued, boundTo, bare, copies, flow, orphans>>
      /\ pc' = [pc EXCEPT ![t] = "idle"]
      /\ answer' = [answer EXCEPT ![t] = NoAnswer]
      /\ \A u \in Task \ {t} : presented'[u] = presented[u]
      /\ \/ store' = store
         \/ /\ store'.refresh = cache[m].refresh /\ store'.client = cache[m].client
            /\ store'.access = cache[m].access
  BY <1>0 DEF SaveToken, Return
<1>2. PairOK(cache[m])
  BY <1>0 DEF Paired, Kept, NewIsBare, PairOK
<1>3. TokensIssued'
  BY <1>0, <1>1 DEF TokensIssued, Issued
<1>4. ClientsNamed'
  BY <1>0, <1>1 DEF ClientsNamed, Critical
<1>5. RequestsFit'
  BY <1>0, <1>1 DEF RequestsFit
<1>6. Paired'
  <2>1. PairOK(store)'
    BY <1>1, <1>2 DEF Paired, PairOK, BoundTo
  <2>2. ASSUME NEW u \in Task, HasNew(u)'
        PROVE  (NewIsBare(u) \/ BoundTo(Kept(u), cache[Owner[u]].client))'
    <3>1. u # t /\ HasNew(u) /\ Kept(u)' = Kept(u) /\ NewIsBare(u)' = NewIsBare(u)
      BY <1>0, <1>1, <2>2 DEF HasNew, Kept, NewIsBare
    <3> QED
      BY <1>1, <3>1 DEF Paired, BoundTo
  <2> QED
    BY <1>1, <2>1, <2>2 DEF Paired, PairOK, BoundTo
<1> QED
  BY <1>3, <1>4, <1>5, <1>6

LEMMA CrashKeepsPairs ==
  ASSUME PairInv, NEW m \in Manager, Crash(m)
  PROVE  TokensIssued' /\ ClientsNamed' /\ RequestsFit' /\ Paired'
<1> USE TokenNats DEF PairInv
<1>0. cache \in [Manager -> CacheEntry]
  BY DEF TypeOK, ManagerTypeOK
<1>1. /\ UNCHANGED <<store, issued, boundTo, bare, copies, flow>>
      /\ cache'[m].refresh = NoToken /\ cache'[m].client = NoClient
      /\ \A n \in Manager \ {m} : cache'[n] = cache[n]
      /\ \A t \in Task : Owner[t] = m => /\ pc'[t] = "idle" /\ answer'[t].kind = "none"
                                       /\ answer'[t].refresh = NoToken
      /\ \A t \in Task : Owner[t] # m =>
            pc'[t] = pc[t] /\ presented'[t] = presented[t] /\ answer'[t] = answer[t]
  BY <1>0 DEF Crash, EmptyCache, NoAnswer
<1>2. TokensIssued'
  BY <1>1 DEF TokensIssued, Issued
<1>3. ClientsNamed'
  <2>1. CASE Dynamic
    <3>1. ASSUME NEW u \in Task, Critical(u)', pc'[u] # "registering"
          PROVE  cache'[Owner[u]].client # NoClient
      <4>1. Owner[u] # m
        BY <1>1, <3>1 DEF Critical
      <4> QED
        BY <1>1, <2>1, <3>1, <4>1 DEF ClientsNamed, Critical
    <3> QED
      BY <1>1, <2>1, <3>1 DEF ClientsNamed
  <2>2. CASE ~Dynamic
    <3>1. \A o \in orphans' : o.client = NoClient
      <4>1. orphans' \subseteq orphans \union
               {[token |-> presented[t], client |-> cache[m].client] : t \in Task}
        BY DEF Crash, OnTheWire
      <4>2. cache[m].client = NoClient /\ \A o \in orphans : o.client = NoClient
        BY <2>2 DEF ClientsNamed
      <4> QED
        BY <4>1, <4>2
    <3> QED
      BY <1>1, <2>2, <3>1 DEF ClientsNamed
  <2> QED
    BY <2>1, <2>2
<1>4. RequestsFit'
  <2> SUFFICES ASSUME NEW u \in Task
               PROVE  (/\ pc[u] = "at_provider" /\ flow[u] # "grant" =>
                            presented[u] = cache[Owner[u]].refresh
                       /\ pc[u] = "registering" =>
                            Dynamic /\ (Grant = "client_credentials" \/ Owner[u] \notin Daemon))'
    BY DEF RequestsFit
  <2>1. CASE Owner[u] = m
    BY <1>1, <2>1
  <2>2. CASE Owner[u] # m
    BY <1>1, <2>2 DEF RequestsFit
  <2> QED
    BY <2>1, <2>2
<1>5. Paired'
  <2>1. ASSUME NEW n \in Daemon PROVE PairOK(cache[n])'
    BY <1>1, ConstantsAssumption DEF Paired, PairOK, BoundTo
  <2>2. ASSUME NEW u \in Task, HasNew(u)'
        PROVE  (NewIsBare(u) \/ BoundTo(Kept(u), cache[Owner[u]].client))'
    <3>1. Owner[u] # m
      BY <1>1, <2>2 DEF HasNew
    <3>2. HasNew(u) /\ Kept(u)' = Kept(u) /\ NewIsBare(u)' = NewIsBare(u)
      BY <1>1, <2>2, <3>1 DEF HasNew, Kept, NewIsBare
    <3> QED
      BY <1>1, <3>1, <3>2 DEF Paired, BoundTo
  <2> QED
    BY <1>1, <2>1, <2>2 DEF Paired, PairOK, BoundTo
<1> QED
  BY <1>2, <1>3, <1>4, <1>5

\* A step of the environment: at most, the provider books another token, or a
\* neighbour reads the file.
LEMMA BookingKeepsPairs ==
  ASSUME PairInv, UNCHANGED <<cache, store, callerVars, bare>>, orphans' \subseteq orphans,
         \A c \in copies' : c \in copies \/ c.entry = store,
         issued' \in {issued, issued + 1},
         \A r \in AnyToken : r <= issued => boundTo'[r] = boundTo[r],
         ~Dynamic => \A r \in AnyToken : boundTo'[r] = NoClient
  PROVE  TokensIssued' /\ ClientsNamed' /\ RequestsFit' /\ Paired'
<1> USE TokenNats DEF PairInv
<1>1. TokensIssued' /\ ClientsNamed' /\ RequestsFit'
  BY DEF TokensIssued, Issued, ClientsNamed, RequestsFit, Critical
<1>2. Paired'
  <2>1. \A t \in Task : /\ Kept(t) \in AnyToken /\ Kept(t) <= issued /\ Kept(t)' = Kept(t)
                        /\ NewIsBare(t)' = NewIsBare(t)
    BY DEF Kept, NewIsBare, TokensIssued, Issued
  <2>2. \A t \in Task : HasNew(t)' => HasNew(t)
    BY DEF HasNew
  <2>3. \A n \in Daemon : n \in Manager
    BY ConstantsAssumption
  <2>4. PairOK(store)' /\ \A n \in Daemon : PairOK(cache[n])'
    BY <2>3 DEF Paired, PairOK, BoundTo, TokensIssued, Issued
  <2>5. \A c \in copies' : PairOK(c.entry)'
    BY <2>4 DEF Paired, PairOK, BoundTo, TokensIssued, Issued
  <2> QED
    BY <2>1, <2>2, <2>4, <2>5 DEF Paired, BoundTo
<1> QED
  BY <1>1, <1>2

\* A neighbour writes back a pair it has read.
LEMMA RewriteKeepsPairs ==
  ASSUME PairInv, NEW c \in copies, RewriteFile(c)
  PROVE  TokensIssued' /\ ClientsNamed' /\ RequestsFit' /\ Paired'
<1>1. /\ UNCHANGED <<cache, callerVars, issued, boundTo, bare, orphans>>
      /\ store' = c.entry /\ copies' \subseteq copies
  BY DEF RewriteFile
<1>2. TokensIssued' /\ ClientsNamed' /\ RequestsFit'
  BY <1>1 DEF PairInv, TokensIssued, Issued, ClientsNamed, RequestsFit, Critical
<1>3. Paired'
  BY <1>1 DEF PairInv, Paired, PairOK, BoundTo, HasNew, Kept, NewIsBare
<1> QED
  BY <1>2, <1>3

LEMMA PairInit == Init => TokensIssued /\ ClientsNamed /\ RequestsFit /\ Paired
<1> SUFFICES ASSUME Init PROVE TokensIssued /\ ClientsNamed /\ RequestsFit /\ Paired
  OBVIOUS
<1>1. /\ issued = 0 /\ store.refresh = 0 /\ store.client = 0
      /\ orphans = {} /\ copies = {}
      /\ \A m \in Manager : cache[m].refresh = 0 /\ cache[m].client = 0
      /\ \A t \in Task : /\ pc[t] = "idle"
                       /\ answer[t].kind = "none" /\ answer[t].refresh = 0
      /\ \A r \in AnyToken : boundTo[r] = 0
  BY DEF Init, EmptyStore, EmptyCache, NoAnswer
<1> QED
  BY <1>1, ConstantsAssumption
  DEF TokensIssued, Issued, ClientsNamed, RequestsFit, Paired, PairOK, BoundTo, HasNew, Critical

\* Which of the three steps above each action of a task is.
LEMMA QuietActions ==
  ASSUME PairInv, NEW t \in Task,
         \/ AdoptPersisted(t) \/ GetToken(t) \/ LockForRefresh(t) \/ LockForAcquire(t)
         \/ Register(t) \/ RetryWithStored(t) \/ RefreshFailed(t) \/ GrantFailed(t) \/ Abandon(t)
  PROVE  QuietStep(t)
<1> USE TokenNats DEF PairInv
<1>0. /\ pc \in [Task -> Location] /\ answer \in [Task -> Answer] /\ flow \in [Task -> Flow]
      /\ presented \in [Task -> AnyToken] /\ cache \in [Manager -> CacheEntry]
      /\ NoAnswer.kind = "none" /\ NoAnswer.refresh = NoToken
  BY DEF TypeOK, CallerTypeOK, ManagerTypeOK, NoAnswer
<1>a. lock[Owner[t]] = NoTask => \A u \in Task \ {t} : Owner[u] = Owner[t] => ~Critical(u)
  BY ConstantsAssumption DEF Singleflight
<1>b. Critical(t) => \A u \in Task \ {t} : Owner[u] = Owner[t] => ~Critical(u)
  BY OneCritical
<1>1. CASE AdoptPersisted(t)
  <2>1. pc[t] = "idle" /\ lock[Owner[t]] = NoTask /\ InstallPersisted(Owner[t])
        /\ UNCHANGED <<store, pc, flow, presented, answer, issued, boundTo, bare, copies, orphans>>
    BY <1>1 DEF AdoptPersisted
  <2> QED
    BY <1>0, <1>a, <2>1 DEF InstallPersisted, QuietStep
<1>2. CASE GetToken(t)
  BY <1>0, <1>2 DEF GetToken, Return, GoTo, QuietStep
<1>3. CASE LockForRefresh(t)
  BY <1>0, <1>3 DEF LockForRefresh, Return, GoTo, Send, QuietStep
<1>4. CASE LockForAcquire(t)
  BY <1>0, <1>4 DEF LockForAcquire, Return, GoTo, Send, QuietStep
<1>5. CASE Register(t)
  <2>1. Critical(t)
    BY <1>5 DEF Register, Critical
  <2> DEFINE entry == [cache[Owner[t]] EXCEPT !.option = "some", !.client = clients + 1]
  <2>2. /\ entry.refresh = cache[Owner[t]].refresh /\ entry.access = cache[Owner[t]].access
        /\ entry.client = clients + 1 /\ clients \in Nat
    BY <1>0, ConstantsAssumption DEF CacheEntry, TypeOK, ProviderTypeOK, AnyClient
  <2>3. \/ /\ cache' = cache /\ flow' = flow
           /\ pc' = [pc EXCEPT ![t] = "idle"]
           /\ answer' = [answer EXCEPT ![t] = NoAnswer]
           /\ presented' = [presented EXCEPT ![t] = NoToken]
        \/ cache' = [cache EXCEPT ![Owner[t]] = entry] /\ Send(t, "grant", NoToken)
    BY <1>5 DEF Register, Return
  <2>4. pc[t] = "registering" /\ UNCHANGED <<store, issued, boundTo, bare, copies, orphans>>
    BY <1>5 DEF Register
  <2> HIDE DEF entry
  <2> QED
    BY <1>0, <1>b, <2>1, <2>2, <2>3, <2>4 DEF Send, QuietStep
<1>6. CASE RetryWithStored(t)
  <2>1. Critical(t)
    BY <1>6 DEF RetryWithStored, Critical
  <2>2. /\ cache'[Owner[t]].refresh = store.refresh /\ cache'[Owner[t]].access = store.access
        /\ cache'[Owner[t]].client = ClientOr(store.client, cache[Owner[t]].client)
        /\ \A m \in Manager \ {Owner[t]} : cache'[m] = cache[m]
    BY <1>0, <1>6 DEF RetryWithStored, InstallPersisted
  <2>3. \/ Return(t, "ok") \/ Return(t, "error") \/ GoTo(t, "wait_acquire")
        \/ Send(t, "retry", store.refresh) /\ store.refresh # NoToken
    BY <1>6 DEF RetryWithStored
  <2>4. UNCHANGED <<store, issued, boundTo, bare, copies, orphans>>
    BY <1>6 DEF RetryWithStored
  <2> QED
    BY <1>0, <1>b, <2>1, <2>2, <2>3, <2>4 DEF Return, GoTo, Send, QuietStep
<1>7. CASE RefreshFailed(t)
  BY <1>0, <1>7 DEF RefreshFailed, Return, GoTo, QuietStep
<1>8. CASE GrantFailed(t)
  BY <1>0, <1>8 DEF GrantFailed, Return, QuietStep
<1>9. CASE Abandon(t)
  <2>1. orphans' \subseteq orphans \union {[token |-> presented[t], client |-> cache[Owner[t]].client]}
    BY <1>9 DEF Abandon, OnTheWire
  <2> QED
    BY <1>0, <1>9, <2>1 DEF Abandon, Return, QuietStep
<1> QED
  BY <1>1, <1>2, <1>3, <1>4, <1>5, <1>6, <1>7, <1>8, <1>9

LEMMA RotateBooks ==
  ASSUME TypeOK, NEW token, NEW client, Rotate(token, client)
  PROVE  /\ issued + 1 \in AnyToken /\ issued' = issued + 1
         /\ \A r \in AnyToken : r <= issued => boundTo'[r] = boundTo[r]
         /\ \A r \in AnyToken : boundTo'[r] \in {boundTo[r], client}
         /\ Rotates => boundTo'[issued + 1] = client
<1>1. issued \in 0 .. MaxIssue /\ MaxIssue \in Nat /\ boundTo \in [AnyToken -> AnyClient]
  BY ConstantsAssumption DEF TypeOK, ProviderTypeOK, AnyToken
<1>2. issued' = issued + 1 /\ issued + 1 \in AnyToken
  BY <1>1 DEF Rotate, AnyToken
<1>3. boundTo' = boundTo \/ boundTo' = [boundTo EXCEPT ![issued + 1] = client]
  BY DEF Rotate
<1>4. \A r \in AnyToken : r <= issued => r # issued + 1
  BY <1>1 DEF AnyToken
<1> QED
  BY <1>1, <1>2, <1>3, <1>4 DEF Rotate

LEMMA ProviderAnswers ==
  ASSUME PairInv, NEW t \in Task, Provider(t)
  PROVE  AnswerStep(t)
<1> USE TokenNats DEF PairInv
<1>0. /\ pc \in [Task -> Location] /\ answer \in [Task -> Answer]
      /\ live \subseteq 1 .. issued /\ boundTo \in [AnyToken -> AnyClient]
      /\ ErrorAnswer.refresh = NoToken /\ ErrorAnswer.kind = "error"
      /\ Owner[t] \in Manager
  BY DEF TypeOK, CallerTypeOK, ProviderTypeOK, ErrorAnswer, NoAnswer
<1> DEFINE m == Owner[t]
           rejected == [NoAnswer EXCEPT !.kind = "rejected"]
<1>1. CASE ProviderRefresh(t)
  <2>0. /\ pc[t] = "at_provider" /\ flow[t] # "grant"
        /\ UNCHANGED <<cache, store, presented, flow, orphans, copies, bare>>
    BY <1>1 DEF ProviderRefresh, Rotate, Answered
  <2>1. CASE Accepts(presented[t], cache[m].client) /\ Rotate(presented[t], cache[m].client)
    <3> DEFINE tokens == [kind |-> "tokens", access |-> issued + 1,
                          refresh |-> IF Rotates THEN issued + 1 ELSE NoToken]
    <3>1. presented[t] # NoToken /\ boundTo[presented[t]] = cache[m].client
      BY <1>0, <2>1 DEF Accepts
    <3>2. Answered(t, tokens) \/ Answered(t, ErrorAnswer)
          \/ Answered(t, rejected)
      BY <1>1 DEF ProviderRefresh
    <3>3. pc' = [pc EXCEPT ![t] = "answered"]
          /\ \/ answer' = [answer EXCEPT ![t] = tokens]
             \/ answer' = [answer EXCEPT ![t] = ErrorAnswer]
             \/ answer' = [answer EXCEPT ![t] = rejected]
      BY <3>2 DEF Answered
    <3>4. rejected.refresh = NoToken /\ rejected.kind = "rejected"
      BY DEF NoAnswer
    <3>a. tokens.refresh = NoToken \/ (Rotates /\ tokens.refresh = issued + 1)
      OBVIOUS
    <3> HIDE DEF tokens, rejected
    <3>5. /\ pc'[t] = "answered"
          /\ \A u \in Task \ {t} : pc'[u] = pc[u] /\ answer'[u] = answer[u]
          /\ \/ answer'[t].refresh = NoToken
             \/ Rotates /\ answer'[t].refresh = issued + 1
      BY <1>0, <3>3, <3>4, <3>a
    <3>6. /\ issued + 1 \in AnyToken /\ issued' = issued + 1
          /\ \A r \in AnyToken : r <= issued => boundTo'[r] = boundTo[r]
          /\ \A r \in AnyToken : boundTo'[r] \in {boundTo[r], cache[m].client}
          /\ Rotates => boundTo'[issued + 1] = cache[m].client
      BY <2>1, RotateBooks
    <3> QED
      BY <2>0, <3>1, <3>5, <3>6 DEF AnswerStep
  <2>2. CASE /\ UNCHANGED providerVars
             /\ Answered(t, ErrorAnswer) \/ Answered(t, rejected)
    <3>1. rejected.refresh = NoToken /\ rejected.kind = "rejected"
      BY DEF NoAnswer
    <3> HIDE DEF rejected
    <3> QED
      BY <1>0, <2>0, <2>2, <3>1 DEF Answered, AnswerStep
  <2> QED
    BY <1>1, <2>1, <2>2 DEF ProviderRefresh
<1>2. CASE ProviderGrant(t)
  <2>0. /\ pc[t] = "at_provider" /\ flow[t] = "grant"
        /\ UNCHANGED <<cache, store, presented, flow, orphans, copies>>
    BY <1>2 DEF ProviderGrant, Answered
  <2> DEFINE r(w) == IF w THEN issued + 1 ELSE NoToken
  <2>1. ASSUME NEW w \in CarriesRefresh, issued < MaxIssue, issued' = issued + 1,
               bare' = IF w THEN bare ELSE bare \union {issued + 1},
               boundTo' = [boundTo EXCEPT ![issued + 1] = cache[m].client],
               Answered(t, [kind |-> "tokens", access |-> issued + 1, refresh |-> r(w)])
        PROVE  AnswerStep(t)
    <3>1. issued + 1 \in AnyToken /\ \A n \in AnyToken : n <= issued => n # issued + 1
      BY <2>1, ConstantsAssumption DEF AnyToken
    <3>2. /\ pc' = [pc EXCEPT ![t] = "answered"]
          /\ answer'[t].kind = "tokens" /\ answer'[t].refresh = r(w)
          /\ answer'[t].access = issued + 1
          /\ \A u \in Task \ {t} : answer'[u] = answer[u]
      BY <1>0, <2>1 DEF Answered
    <3>3. w \in BOOLEAN /\ (w => Grant = "authorization_code")
      BY ConstantsAssumption DEF CarriesRefresh
    <3>4. r(w) = NoToken => answer'[t].access \in bare'
      BY <1>0, <2>1, <3>1, <3>2, <3>3
    <3>5. r(w) # NoToken => r(w) = issued + 1 /\ Grant = "authorization_code"
      BY <3>3
    <3>6. bare \subseteq bare' /\ boundTo'[issued + 1] = cache[m].client
      BY <1>0, <2>1, <3>1, <3>3
    <3>7. \A n \in AnyToken : boundTo'[n] \in {boundTo[n], cache[m].client}
                             /\ (n <= issued => boundTo'[n] = boundTo[n])
      BY <1>0, <2>1, <3>1
    <3> HIDE DEF r
    <3> QED
      BY <1>0, <2>0, <2>1, <3>1, <3>2, <3>4, <3>5, <3>6, <3>7 DEF AnswerStep
  <2>2. CASE UNCHANGED providerVars /\ Answered(t, ErrorAnswer)
    BY <1>0, <2>0, <2>2 DEF Answered, AnswerStep
  <2> QED
    BY <1>2, <2>1, <2>2 DEF ProviderGrant
<1> QED
  BY <1>1, <1>2 DEF Provider

LEMMA PairNext ==
  ASSUME PairInv, [Next]_vars
  PROVE  TokensIssued' /\ ClientsNamed' /\ RequestsFit' /\ Paired'
<1> DEFINE Goal == TokensIssued' /\ ClientsNamed' /\ RequestsFit' /\ Paired'
<1>1. ASSUME NEW t \in Task, AdoptPersisted(t) \/ GetToken(t) \/ Step(t) \/ Provider(t)
      PROVE  Goal
  <2>1. CASE Provider(t)
    BY <2>1, ProviderAnswers, AnswerStepKeeps
  <2>2. CASE CacheTokenResponse(t)
    BY <2>2, CacheTokenKeepsPairs
  <2>3. CASE SaveToken(t)
    BY <2>3, SaveTokenKeepsPairs
  <2>4. CASE \/ AdoptPersisted(t) \/ GetToken(t) \/ LockForRefresh(t) \/ LockForAcquire(t)
             \/ Register(t) \/ RetryWithStored(t) \/ RefreshFailed(t) \/ GrantFailed(t)
    BY <2>4, QuietActions, QuietStepKeeps
  <2> QED
    BY <1>1, <2>1, <2>2, <2>3, <2>4 DEF Step
<1>6. ASSUME NEW t \in Task, Abandon(t) PROVE Goal
  BY <1>6, QuietActions, QuietStepKeeps
<1>7. ASSUME NEW n \in Neighbour, ReadFile(n) PROVE Goal
  <2>1. \A c \in copies' : c \in copies \/ c.entry = store
    BY <1>7 DEF ReadFile
  <2>2. /\ UNCHANGED <<cache, store, callerVars, bare, issued, boundTo, orphans>>
        /\ ~Dynamic => \A r \in AnyToken : boundTo[r] = NoClient
    BY <1>7 DEF ReadFile, PairInv, ClientsNamed
  <2> QED
    BY <2>1, <2>2, BookingKeepsPairs
<1>8. ASSUME NEW c \in copies, RewriteFile(c) PROVE Goal
  BY <1>8, RewriteKeepsPairs
<1>2. ASSUME NEW m \in Manager, Crash(m) PROVE Goal
  BY <1>2, CrashKeepsPairs
<1>3. ASSUME NEW o \in orphans, ProviderOrphan(o) PROVE Goal
  <2>1. UNCHANGED <<cache, store, callerVars, bare, copies>> /\ orphans' \subseteq orphans
    BY <1>3 DEF ProviderOrphan, Rotate
  <2>2. ~Dynamic => o.client = NoClient /\ \A r \in AnyToken : boundTo[r] = NoClient
    BY DEF PairInv, ClientsNamed
  <2>3. CASE Rotate(o.token, o.client)
    BY <2>1, <2>2, <2>3, RotateBooks, BookingKeepsPairs DEF PairInv
  <2>4. CASE UNCHANGED providerVars
    BY <2>1, <2>2, <2>4, BookingKeepsPairs
  <2> QED
    BY <1>3, <2>3, <2>4 DEF ProviderOrphan
<1>4. ASSUME NEW a \in AnyToken, Expire(a) \/ Revoke(a) PROVE Goal
  BY <1>4, BookingKeepsPairs DEF Expire, Revoke, PairInv, ClientsNamed
<1>5. CASE UNCHANGED vars
  BY <1>5, BookingKeepsPairs DEF vars, PairInv, ClientsNamed
<1> QED
  BY <1>1, <1>2, <1>3, <1>4, <1>5, <1>6, <1>7, <1>8 DEF Next

LEMMA PairInvariance == Spec => []PairInv
<1>1. Init => PairInv
  BY PairInit, InitTypeOK, ConstantsAssumption DEF PairInv, Init, Singleflight, Critical
<1>2. PairInv /\ [Next]_vars => PairInv'
  BY PairNext, NextTypeOK, NextSingleflight DEF PairInv
<1> QED
  BY <1>1, <1>2, PTL DEF Spec

(* A stored refresh token, and one a daemon caches, belongs to the client it *)
(* is stored with, unless it was carried over a grant that came without one: *)
(* whatever registers, crashes, is dropped, saves or rewrites the file in    *)
(* between, nothing else tears a pair apart.                                 *)
THEOREM TokensKeepTheirClient == Spec => []RefreshTokenKeepsItsClient
<1>1. PairInv => RefreshTokenKeepsItsClient
  BY DEF PairInv, Paired, PairOK, BoundTo, RefreshTokenKeepsItsClient
<1> QED
  BY <1>1, PairInvariance, PTL

-----------------------------------------------------------------------------
(* RestartNeedsNoConsent, whether the provider rotates or not.              *)

ConsentInv == PairInv /\ ConsentKept /\ ReplayInv

\* What a task has in hand no request at a provider that rotates can retire.
LEMMA InHandNotPresented ==
  ASSUME ConsentInv, Rotates, NEW t \in Task, NEW u \in Task, HasNew(u), ~NewIsBare(u),
         presented[t] # NoToken
  PROVE  Kept(u) # presented[t]
<1>1. RequestFits(u) /\ (InHand(u) # NoToken => Private(InHand(u), u))
  BY DEF ConsentInv, ReplayInv, RequestShape, HandsPrivate
<1>2. InHand(u) = Kept(u)
  BY <1>1 DEF RequestFits, HasNew, NewIsBare, InHand, Kept
<1> QED
  BY <1>1, <1>2 DEF Private

LEMMA ProviderKeepsConsent ==
  ASSUME ConsentInv, NEW t \in Task, Provider(t)
  PROVE  ConsentKept'
<1> USE TokenNats DEF ConsentInv, PairInv
<1> SUFFICES ASSUME losses' = "none"
             PROVE  orphans' = {} /\ HandsConsent' /\ StoreConsents'
  BY DEF ConsentKept
<1>0. /\ pc \in [Task -> Location] /\ answer \in [Task -> Answer] /\ issued \in Nat
      /\ live \subseteq 1 .. issued
      /\ ErrorAnswer.kind = "error"
  BY DEF TypeOK, CallerTypeOK, ProviderTypeOK, ErrorAnswer, NoAnswer
<1>1. /\ UNCHANGED <<cache, store, presented, flow, orphans>>
      /\ pc[t] = "at_provider" /\ pc' = [pc EXCEPT ![t] = "answered"]
      /\ \A u \in Task \ {t} : answer'[u] = answer[u]
      /\ losses' \in {losses, "token"}
      /\ bare \subseteq bare'
  BY <1>0 DEF Provider, ProviderRefresh, ProviderGrant, Answered, Rotate
<1>2. orphans = {} /\ HandsConsent /\ StoreConsents
  BY <1>1 DEF ConsentKept
<1>3. \A u \in Task \ {t} : /\ HasNew(u)' = HasNew(u) /\ Kept(u)' = Kept(u)
                            /\ NewIsBare(u) => NewIsBare(u)'
  BY <1>0, <1>1 DEF HasNew, Kept, NewIsBare
<1>4. ~HasNew(t)
  BY <1>1 DEF HasNew
<1>5. CASE live' = live /\ issued' = issued /\ answer'[t].kind # "tokens"
  <2>1. ~HasNew(t)'
    BY <1>0, <1>1, <1>5 DEF HasNew
  <2>2. HandsConsent'
    BY <1>2, <1>3, <1>5, <2>1 DEF HandsConsent
  <2>3. StoreConsents'
    BY <1>1, <1>2, <1>3, <1>4, <1>5 DEF StoreConsents
  <2> QED
    BY <1>1, <1>2, <2>2, <2>3
<1>6. CASE /\ answer'[t].kind = "tokens" /\ (NewIsBare(t)' \/ Kept(t)' \in live')
           /\ \A u \in Task \ {t} : HasNew(u) => NewIsBare(u) \/ Kept(u) \in live'
  <2>1. HasNew(t)'
    BY <1>0, <1>1, <1>6 DEF HasNew
  <2>2. HandsConsent'
    BY <1>3, <1>6 DEF HandsConsent
  <2> QED
    BY <1>1, <1>2, <2>1, <2>2 DEF StoreConsents
<1>7. CASE ProviderRefresh(t)
  <2> DEFINE r == presented[t]
             client == cache[Owner[t]].client
             tokens == [kind |-> "tokens", access |-> issued + 1,
                        refresh |-> IF Rotates THEN issued + 1 ELSE NoToken]
  <2>1. CASE Accepts(r, client) /\ Rotate(r, client) /\ Answered(t, tokens)
    <3>1. answer'[t] = tokens /\ r \in live /\ r = cache[Owner[t]].refresh
      BY <1>0, <1>1, <1>7, <2>1 DEF Accepts, Answered, RequestsFit, ProviderRefresh
    <3>2. CASE Rotates
      <4>1. live' = (live \ {r}) \union {issued + 1}
        BY <2>1, <3>2 DEF Rotate
      <4>2. Kept(t)' = issued + 1
        BY <1>0, <1>1, <3>1, <3>2 DEF Kept
      <4>3. \A u \in Task : HasNew(u) => NewIsBare(u) \/ Kept(u) # r
        <5>1. r # NoToken
          BY <1>0, <3>1
        <5> QED
          BY <3>2, <5>1, InHandNotPresented
      <4> QED
        BY <1>2, <1>6, <3>1, <4>1, <4>2, <4>3 DEF HandsConsent
    <3>3. CASE ~Rotates
      <4>1. live' = live
        BY <2>1, <3>3 DEF Rotate
      <4>2. Kept(t)' = r
        BY <1>0, <1>1, <3>1, <3>3 DEF Kept
      <4> QED
        BY <1>2, <1>6, <3>1, <4>1, <4>2 DEF HandsConsent
    <3> QED
      BY <3>2, <3>3
  <2>2. CASE losses' = "token"
    BY <2>2
  <2>3. CASE /\ UNCHANGED providerVars
             /\ Answered(t, ErrorAnswer) \/ Answered(t, [NoAnswer EXCEPT !.kind = "rejected"])
    <3>1. answer'[t].kind # "tokens"
      BY <1>0, <2>3 DEF Answered, NoAnswer
    <3> QED
      BY <1>5, <2>3, <3>1
  <2> QED
    BY <1>7, <2>1, <2>2, <2>3 DEF ProviderRefresh
<1>8. CASE ProviderGrant(t)
  <2>1. PICK withRefresh \in CarriesRefresh :
          \/ /\ live' = IF withRefresh THEN live \union {issued + 1} ELSE live
             /\ bare' = IF withRefresh THEN bare ELSE bare \union {issued + 1}
             /\ Answered(t, [kind |-> "tokens", access |-> issued + 1,
                             refresh |-> IF withRefresh THEN issued + 1 ELSE NoToken])
          \/ UNCHANGED providerVars /\ Answered(t, ErrorAnswer)
    BY <1>8 DEF ProviderGrant
  <2> DEFINE tokens == [kind |-> "tokens", access |-> issued + 1,
                        refresh |-> IF withRefresh THEN issued + 1 ELSE NoToken]
  <2>2. CASE /\ live' = IF withRefresh THEN live \union {issued + 1} ELSE live
             /\ bare' = IF withRefresh THEN bare ELSE bare \union {issued + 1}
             /\ Answered(t, tokens)
    <3>1. answer'[t] = tokens /\ pc'[t] = "answered"
      BY <1>0, <2>2 DEF Answered
    <3>2. NewIsBare(t)' \/ Kept(t)' \in live'
      <4>1. CASE withRefresh
        BY <1>0, <2>2, <3>1, <4>1 DEF Kept
      <4>2. CASE ~withRefresh
        BY <2>2, <3>1, <4>2 DEF NewIsBare
      <4> QED
        BY <4>1, <4>2
    <3>3. live \subseteq live'
      BY <2>2
    <3> QED
      BY <1>2, <1>6, <3>1, <3>2, <3>3 DEF HandsConsent
  <2>3. CASE UNCHANGED providerVars /\ Answered(t, ErrorAnswer)
    <3>1. answer'[t].kind # "tokens"
      BY <1>0, <2>3 DEF Answered
    <3> QED
      BY <1>5, <2>3, <3>1
  <2> QED
    BY <2>1, <2>2, <2>3
<1> QED
  BY <1>7, <1>8 DEF Provider

\* u has the same token in hand after a step, or none before it and none after.
SameHand(u) ==
    /\ HasNew(u)' = HasNew(u)
    /\ HasNew(u) => Kept(u)' = Kept(u) /\ NewIsBare(u)' = NewIsBare(u)

\* A step that leaves the provider's and the stored tokens alone, and everything
\* in hand in the hands it is in.
LEMMA HandsStillConsent ==
  ASSUME ConsentKept, UNCHANGED <<live, bare, issued, store>>,
         losses' = "none" => losses = "none" /\ orphans' = orphans,
         losses' = "none" => \A u \in Task : SameHand(u)
  PROVE  ConsentKept'
<1> SUFFICES ASSUME losses' = "none"
             PROVE  orphans' = {} /\ HandsConsent' /\ StoreConsents'
  BY DEF ConsentKept
<1>1. orphans' = {} /\ HandsConsent /\ StoreConsents
  BY DEF ConsentKept
<1>2. \A u \in Task : SameHand(u)
  OBVIOUS
<1>3. HandsConsent'
  BY <1>1, <1>2 DEF HandsConsent, SameHand
<1>4. StoreConsents'
  BY <1>1, <1>2 DEF StoreConsents, SameHand
<1> QED
  BY <1>1, <1>3, <1>4

LEMMA QuietKeepsConsent ==
  ASSUME ConsentInv, NEW t \in Task, QuietStep(t), ~HasNew(t),
         UNCHANGED <<live, store>>,
         losses' = "none" => losses = "none" /\ orphans' = orphans
  PROVE  ConsentKept'
<1>1. UNCHANGED <<issued, bare>> /\ ~HasNew(t)'
  BY DEF QuietStep, HasNew
<1>2. ASSUME NEW u \in Task \ {t} PROVE SameHand(u)
  <2>1. HasNew(u)' = HasNew(u)
    BY DEF QuietStep, HasNew
  <2>2. HasNew(u) => cache'[Owner[u]] = cache[Owner[u]]
    BY InHandIsCritical, OwnerType DEF QuietStep
  <2>3. HasNew(u) => Kept(u)' = Kept(u) /\ NewIsBare(u)' = NewIsBare(u)
    BY <1>1, <2>2 DEF QuietStep, Kept, NewIsBare
  <2> QED
    BY <2>1, <2>3 DEF SameHand
<1>3. SameHand(t)
  BY <1>1 DEF SameHand, HasNew
<1>4. ConsentKept
  BY DEF ConsentInv
<1> QED
  BY <1>1, <1>2, <1>3, <1>4, HandsStillConsent

LEMMA ConsentNext ==
  ASSUME ConsentInv, [Next]_vars
  PROVE  ConsentKept'
<1> USE TokenNats DEF ConsentInv, PairInv
<1>0. /\ pc \in [Task -> Location] /\ answer \in [Task -> Answer]
      /\ cache \in [Manager -> CacheEntry]
      /\ presented \in [Task -> AnyToken]
      /\ NoAnswer.kind = "none" /\ NoAnswer.refresh = NoToken
  BY DEF TypeOK, CallerTypeOK, ManagerTypeOK, NoAnswer
<1>1. ASSUME NEW t \in Task, AdoptPersisted(t) \/ GetToken(t) \/ Step(t) \/ Provider(t)
      PROVE  ConsentKept'
  <2>1. CASE Provider(t)
    BY <2>1, ProviderKeepsConsent
  <2>2. CASE CacheTokenResponse(t)
    <3> DEFINE m == Owner[t]
    <3>1. /\ UNCHANGED <<store, issued, live, bare, losses, orphans>>
          /\ pc[t] = "answered" /\ HasNew(t)
          /\ pc' = [pc EXCEPT ![t] = "saving"]
          /\ answer' = [answer EXCEPT ![t] = NoAnswer]
          /\ cache'[m].refresh = Kept(t) /\ cache'[m].access = answer[t].access
          /\ \A n \in Manager \ {m} : cache'[n] = cache[n]
      BY <1>0, <2>2 DEF CacheTokenResponse, Kept, HasNew
    <3>2. HasNew(t)' /\ Kept(t)' = Kept(t) /\ NewIsBare(t)' = NewIsBare(t)
      BY <1>0, <3>1 DEF HasNew, Kept, NewIsBare
    <3>3. ASSUME NEW u \in Task \ {t} PROVE SameHand(u)
      <4>1. HasNew(u)' = HasNew(u)
        BY <1>0, <3>1 DEF HasNew
      <4>2. HasNew(u) => Owner[u] # m
        BY <3>1, InHandIsCritical, OneCritical
      <4> QED
        BY <1>0, <3>1, <4>1, <4>2 DEF Kept, NewIsBare, SameHand
    <3>4. HasNew(t)' = HasNew(t)
      BY <1>0, <3>1 DEF HasNew
    <3>5. \A u \in Task : SameHand(u)
      BY <3>2, <3>3, <3>4 DEF SameHand
    <3> QED
      BY <3>1, <3>5, HandsStillConsent
  <2>3. CASE SaveToken(t)
    <3>1. /\ UNCHANGED <<cache, live, bare, issued, orphans>>
          /\ pc[t] = "saving" /\ HasNew(t)
          /\ pc' = [pc EXCEPT ![t] = "idle"]
          /\ answer' = [answer EXCEPT ![t] = NoAnswer]
          /\ \/ losses' = "token"
             \/ /\ losses' = losses /\ store'.refresh = Kept(t)
                /\ store'.access = cache[Owner[t]].access
      BY <1>0, <2>3 DEF SaveToken, Return, HasNew, Kept
    <3>2. \A u \in Task \ {t} : SameHand(u)
      BY <1>0, <3>1 DEF HasNew, Kept, NewIsBare, SameHand
    <3>3. ~HasNew(t)'
      BY <1>0, <3>1 DEF HasNew
    <3> SUFFICES ASSUME losses' = "none"
                 PROVE  orphans' = {} /\ HandsConsent' /\ StoreConsents'
      BY DEF ConsentKept
    <3>4. orphans' = {} /\ HandsConsent
      BY <3>1 DEF ConsentKept
    <3>5. HandsConsent'
      BY <3>1, <3>2, <3>3, <3>4 DEF HandsConsent, SameHand
    <3>6. store'.access \in bare' \/ store'.refresh \in live'
      BY <3>1, <3>4 DEF HandsConsent, NewIsBare
    <3> QED
      BY <3>4, <3>5, <3>6 DEF StoreConsents
  <2>4. CASE \/ AdoptPersisted(t) \/ GetToken(t) \/ LockForRefresh(t) \/ LockForAcquire(t)
             \/ Register(t) \/ RetryWithStored(t) \/ RefreshFailed(t) \/ GrantFailed(t)
    <3>1. ~HasNew(t) /\ UNCHANGED <<live, store, losses, orphans>>
      BY <2>4 DEF HasNew, AdoptPersisted, GetToken, LockForRefresh, LockForAcquire, Register,
         RetryWithStored, RefreshFailed, GrantFailed
    <3> QED
      BY <2>4, <3>1, QuietActions, QuietKeepsConsent
  <2> QED
    BY <1>1, <2>1, <2>2, <2>3, <2>4 DEF Step
<1>2. ASSUME NEW t \in Task, Abandon(t) PROVE ConsentKept'
  <2>1. UNCHANGED <<live, store>> /\ losses' = LossesOf({t})
        /\ orphans' = orphans \union OnTheWire({t})
    BY <1>2 DEF Abandon
  <2>2. CASE Forgets(t)
    BY <2>1, <2>2 DEF LossesOf, ConsentKept
  <2>3. CASE ~Forgets(t)
    <3>1. ~HasNew(t) /\ losses' = losses /\ orphans' = orphans
      BY <2>1, <2>3 DEF Forgets, HasNew, LossesOf, OnTheWire
    <3> QED
      BY <1>2, <2>1, <3>1, QuietActions, QuietKeepsConsent
  <2> QED
    BY <2>2, <2>3
<1>3. ASSUME NEW m \in Manager, Crash(m) PROVE ConsentKept'
  <2> DEFINE mine == {t \in Task : Owner[t] = m}
  <2>1. /\ UNCHANGED <<live, bare, issued, store>>
        /\ losses' = LossesOf(mine) /\ orphans' = orphans \union OnTheWire(mine)
        /\ \A n \in Manager \ {m} : cache'[n] = cache[n]
        /\ \A t \in mine : pc'[t] = "idle"
        /\ \A t \in Task \ mine : pc'[t] = pc[t] /\ answer'[t] = answer[t]
    BY <1>0, <1>3 DEF Crash
  <2>2. ASSUME losses' = "none"
        PROVE  losses = "none" /\ \A t \in mine : ~Forgets(t)
    BY <2>1, <2>2 DEF LossesOf
  <2>3. losses' = "none" => losses = "none" /\ orphans' = orphans
    BY <2>1, <2>2 DEF OnTheWire, Forgets
  <2>4. ASSUME losses' = "none", NEW u \in Task PROVE SameHand(u)
    <3>1. CASE Owner[u] = m
      <4>1. ~HasNew(u) /\ ~HasNew(u)'
        BY <2>1, <2>2, <2>4, <3>1 DEF Forgets, HasNew
      <4> QED
        BY <4>1 DEF SameHand, HasNew
    <3>2. CASE Owner[u] # m
      BY <2>1, <3>2 DEF HasNew, Kept, NewIsBare, SameHand
    <3> QED
      BY <3>1, <3>2
  <2> QED
    BY <2>1, <2>3, <2>4, HandsStillConsent
<1>4. ASSUME NEW o \in orphans, ProviderOrphan(o) PROVE ConsentKept'
  <2>1. losses' = losses
    BY <1>4 DEF ProviderOrphan
  <2> QED
    BY <1>4, <2>1 DEF ConsentKept
<1>5. ASSUME NEW a \in AnyToken, Revoke(a) PROVE ConsentKept'
  BY <1>5 DEF Revoke, ConsentKept
<1>6. ASSUME UNCHANGED <<cache, store, callerVars, issued, live, bare, orphans, losses>>
      PROVE  ConsentKept'
  BY <1>6, HandsStillConsent DEF HasNew, Kept, NewIsBare, SameHand
<1>7. ASSUME NEW c \in copies, RewriteFile(c) PROVE ConsentKept'
  <2>1. CASE c.entry = store
    <3>1. UNCHANGED <<cache, store, callerVars, issued, live, bare, orphans, losses>>
      BY <1>7, <2>1 DEF RewriteFile
    <3> QED
      BY <1>6, <3>1
  <2>2. CASE c.entry # store
    BY <1>7, <2>2 DEF RewriteFile, ConsentKept
  <2> QED
    BY <2>1, <2>2
<1>8. ASSUME NEW n \in Neighbour, ReadFile(n) PROVE ConsentKept'
  BY <1>6, <1>8 DEF ReadFile
<1> QED
  BY <1>1, <1>2, <1>3, <1>4, <1>5, <1>6, <1>7, <1>8 DEF Next, Expire, vars

LEMMA ConsentInvariance == Spec => []ConsentInv
<1>1. Init => ConsentInv
  <2>1. Init => PairInv
    BY PairInit, InitTypeOK, ConstantsAssumption DEF PairInv, Init, Singleflight, Critical
  <2>2. Init => ReplayInv
    BY ReplayInit, InitTypeOK, ConstantsAssumption DEF ReplayInv, Init, Singleflight, Critical
  <2>3. Init => ConsentKept
    BY DEF Init, ConsentKept, HandsConsent, StoreConsents, HasNew
  <2> QED
    BY <2>1, <2>2, <2>3 DEF ConsentInv
<1>2. ConsentInv /\ [Next]_vars => ConsentInv'
  <2> SUFFICES ASSUME ConsentInv, [Next]_vars PROVE ConsentInv'
    OBVIOUS
  <2>1. PairInv'
    BY PairNext, NextTypeOK, NextSingleflight DEF ConsentInv, PairInv
  <2>2. ReplayInv'
    BY ReplayNext, NextTypeOK, NextSingleflight DEF ConsentInv, ReplayInv
  <2>3. ConsentKept'
    BY ConsentNext
  <2> QED
    BY <2>1, <2>2, <2>3 DEF ConsentInv
<1> QED
  BY <1>1, <1>2, PTL DEF Spec

(* The user's consent outlives the process: unless a fault has destroyed a   *)
(* token (an answer lost on the wire, a caller dropped or a process killed   *)
(* with a request out or a token in hand, a write that failed, another       *)
(* process's older copy of the file, a revocation), or the stored token came *)
(* without a refresh token, whenever no task holds a refresh lock the stored *)
(* refresh token is one the provider accepts from the stored client.         *)
THEOREM ConsentSurvivesRestart == Spec => []RestartNeedsNoConsent
<1>1. ConsentInv => RestartNeedsNoConsent
  <2> SUFFICES ASSUME ConsentInv, issued > 0, losses = "none", store.access \notin bare,
                      \A t \in Task : ~Critical(t)
               PROVE  Accepts(store.refresh, store.client)
    BY DEF RestartNeedsNoConsent
  <2>1. store.refresh \in live
    BY InHandIsCritical DEF ConsentInv, ConsentKept, StoreConsents
  <2>2. store.refresh # NoToken
    BY <2>1 DEF ConsentInv, PairInv, TypeOK, ProviderTypeOK
  <2> QED
    BY <2>1, <2>2 DEF ConsentInv, PairInv, Paired, PairOK, BoundTo, Accepts
<1> QED
  BY <1>1, ConsentInvariance, PTL

=============================================================================
