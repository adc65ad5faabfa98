---------------------------- MODULE OAuth2Token ----------------------------
(***************************************************************************)
(* The OAuth2 token manager of an HTTP backend                             *)
(* (crates/backends/backend-http/src/oauth2.rs, token_store.rs).           *)
(*                                                                         *)
(* A manager lives in one process.  The hub (`serve`) runs one per         *)
(* backend id; `headless-mcp auth`, `call` and `tools` run others over the *)
(* same secrets file.  Several tasks of a process call get_token at once;  *)
(* they share the manager's cache and its refresh lock.                    *)
(*                                                                         *)
(* The provider is external.  It numbers what it issues: grant n carries   *)
(* access token n and, if it carries one, refresh token n.  A provider     *)
(* that rotates retires a refresh token when it is used.                   *)
(*                                                                         *)
(* The secrets file holds one map for all backends, and a save reads,      *)
(* changes and rewrites the whole map under a lock of its own process      *)
(* only.  A process that saves the token of another backend is a           *)
(* Neighbour: between its read and its write it holds a copy of this       *)
(* backend's entry, and writes that copy back.                             *)
(***************************************************************************)
EXTENDS Naturals

CONSTANTS
    Manager,      \* processes that hold a token manager of this backend
    Daemon,       \* the managers created with daemon_mode = true
    Task,         \* callers of get_token / connect
    Owner,        \* the manager each task calls
    Hubs,         \* the managers of processes that serve clients
    Neighbour,    \* processes that save another backend's token in the same file
    NoTask,       \* "the refresh lock is free"
    Grant,        \* oauth2.grant_type in the configuration
    Rotates,      \* the provider retires a used refresh token
    MayOmit,      \* its answer to an authorization code may lack a refresh token
    Dynamic,      \* no client_id in the configuration: RFC 7591 registration
    Faults,       \* which faults the environment may inject
    MaxIssue,     \* bound: token grants the provider issues
    MaxClients,   \* bound: clients the provider registers
    MaxFaults     \* bound: faults injected

FaultKind == {"unreachable", "lost", "crash", "dropped", "save", "overwrite", "revoke", "denied"}

ASSUME ConstantsAssumption ==
    /\ Daemon \subseteq Manager
    /\ Owner \in [Task -> Manager]
    /\ Hubs \subseteq Manager
    /\ NoTask \notin Task
    /\ Grant \in {"authorization_code", "client_credentials"}
    /\ Rotates \in BOOLEAN
    /\ MayOmit \in BOOLEAN
    /\ Dynamic \in BOOLEAN
    /\ Faults \subseteq FaultKind
    /\ MaxIssue \in Nat
    /\ MaxClients \in Nat
    /\ MaxFaults \in Nat

VARIABLES
    cache,      \* token_cache of each manager
    lock,       \* holder of each manager's refresh_lock
    store,      \* the persisted token of this backend (token_store.rs)
    pc,         \* where each task is inside get_token
    flow,       \* which request a task has at the provider
    presented,  \* the refresh token it presented there
    answer,     \* the provider's answer, once it is back
    failed,     \* tasks whose last get_token returned an error
    issued,     \* provider: grants issued so far
    live,       \* provider: refresh tokens it would accept
    boundTo,    \* provider: the client a refresh token was issued to
    clients,    \* provider: clients registered so far
    bare,       \* provider: grants it answered without a refresh token
    expired,    \* access tokens within 30 s of their expiry, or past it
    orphans,    \* refresh requests on the wire whose sender is gone
    copies,     \* this backend's entry as neighbours have read it and will write it back
    replaced,   \* history: refresh tokens for which a manager has stored another, and which
                \* no other process has put back into the store since
    losses,     \* history: whether a fault destroyed a token
    faults      \* faults injected so far

callerVars == <<pc, flow, presented, answer, failed>>
providerVars == <<issued, live, boundTo, clients, bare>>
outsideVars == <<expired, orphans, copies>>
historyVars == <<replaced, losses, faults>>
vars == <<cache, lock, store, pc, flow, presented, answer, failed, issued, live,
          boundTo, clients, bare, expired, orphans, copies, replaced, losses, faults>>

NoToken == 0
NoClient == 0     \* also stands for the configured client_id when ~Dynamic
AnyToken == 0 .. MaxIssue
AnyClient == 0 .. MaxClients

\* TokenCache; option says which Option it is.  access = NoToken is the
\* entry set_dynamic_client_id makes for a client that has no token yet.
CacheEntry == [option : {"none", "some"}, access : AnyToken, refresh : AnyToken, client : AnyClient]
EmptyCache == [option |-> "none", access |-> NoToken, refresh |-> NoToken, client |-> NoClient]

\* PersistedToken; access = NoToken means that nothing is stored.
StoreEntry == [access : AnyToken, refresh : AnyToken, client : AnyClient]
EmptyStore == [access |-> NoToken, refresh |-> NoToken, client |-> NoClient]

Answer == [kind : {"none", "tokens", "rejected", "error"}, access : AnyToken, refresh : AnyToken]
NoAnswer == [kind |-> "none", access |-> NoToken, refresh |-> NoToken]
ErrorAnswer == [NoAnswer EXCEPT !.kind = "error"]

Location == {"idle", "wait_refresh", "wait_acquire", "registering",
             "at_provider", "answered", "saving"}
Flow == {"refresh", "retry", "grant"}

\* A task between taking and dropping the refresh lock.
Critical(t) == pc[t] \in {"registering", "at_provider", "answered", "saving"}

\* PersistedToken::is_valid and the expires_at tests of get_token.
Fresh(e) == e.access # NoToken /\ e.access \notin expired

\* config.client_id.or(from).or(previous)
ClientOr(from, previous) == IF ~Dynamic THEN NoClient
                            ELSE IF from # NoClient THEN from ELSE previous

Init ==
    /\ cache = [m \in Manager |-> EmptyCache]
    /\ lock = [m \in Manager |-> NoTask]
    /\ store = EmptyStore
    /\ pc = [t \in Task |-> "idle"]
    /\ flow = [t \in Task |-> "refresh"]
    /\ presented = [t \in Task |-> NoToken]
    /\ answer = [t \in Task |-> NoAnswer]
    /\ failed = {}
    /\ issued = 0
    /\ live = {}
    /\ boundTo = [r \in AnyToken |-> NoClient]
    /\ clients = 0
    /\ bare = {}
    /\ expired = {}
    /\ orphans = {}
    /\ copies = {}
    /\ replaced = [m \in Manager |-> {}]
    /\ losses = "none"
    /\ faults = 0

-----------------------------------------------------------------------------
(* Returning from get_token, and moving inside it.                         *)

Return(t, outcome) ==
    /\ pc' = [pc EXCEPT ![t] = "idle"]
    /\ failed' = IF outcome = "error" THEN failed \union {t} ELSE failed \ {t}
    /\ presented' = [presented EXCEPT ![t] = NoToken]
    /\ answer' = [answer EXCEPT ![t] = NoAnswer]
    /\ UNCHANGED flow

GoTo(t, where) ==
    /\ pc' = [pc EXCEPT ![t] = where]
    /\ failed' = failed \ {t}
    /\ presented' = [presented EXCEPT ![t] = NoToken]
    /\ answer' = [answer EXCEPT ![t] = NoAnswer]
    /\ UNCHANGED flow

\* Send the provider a request: the caller holds the lock until it is done.
Send(t, what, token) ==
    /\ pc' = [pc EXCEPT ![t] = "at_provider"]
    /\ flow' = [flow EXCEPT ![t] = what]
    /\ presented' = [presented EXCEPT ![t] = token]
    /\ answer' = [answer EXCEPT ![t] = NoAnswer]
    /\ UNCHANGED failed

Take(t) == lock[Owner[t]] = NoTask /\ lock' = [lock EXCEPT ![Owner[t]] = t]
Drop(t) == lock' = [lock EXCEPT ![Owner[t]] = NoTask]

Fault(kind) ==
    /\ kind \in Faults
    /\ faults < MaxFaults
    /\ faults' = faults + 1

\* Faulty variant: the stored client_id is not restored.
InstallWithoutClient(m) ==
    cache' = [cache EXCEPT ![m] =
        [option |-> "some", access |-> store.access, refresh |-> store.refresh,
         client |-> @.client]]

\* install_persisted: the stored token replaces the cached one.
InstallPersisted(m) ==
    cache' = [cache EXCEPT ![m] =
        [option |-> "some", access |-> store.access, refresh |-> store.refresh,
         client |-> ClientOr(store.client, @.client)]]

-----------------------------------------------------------------------------
(* The calls a backend makes.                                              *)

\* connect(): adopt_persisted loads the stored token into an empty cache.
AdoptPersisted(t) ==
    LET m == Owner[t] IN
    /\ pc[t] = "idle"
    /\ lock[m] = NoTask
    /\ cache[m].access = NoToken
    /\ Fresh(store) \/ store.refresh # NoToken
    /\ InstallPersisted(m)
    /\ UNCHANGED <<lock, store, callerVars, providerVars, outsideVars, historyVars>>

\* get_token up to its first await on the refresh lock.
GetToken(t) ==
    LET m == Owner[t]
        c == cache[m]
    IN
    /\ pc[t] = "idle"
    /\ \/ /\ Fresh(c)
          /\ Return(t, "ok")
       \/ /\ ~Fresh(c)
          /\ c.refresh # NoToken
          /\ GoTo(t, "wait_refresh")
       \/ /\ ~Fresh(c)
          /\ c.refresh = NoToken
          /\ IF c.option = "some" /\ m \in Daemon THEN Return(t, "error") ELSE GoTo(t, "wait_acquire")
    /\ UNCHANGED <<cache, lock, store, providerVars, outsideVars, historyVars>>

\* Faulty variant: the lock is dropped before the request is sent.
RefreshUnlocked(t) ==
    LET c == cache[Owner[t]] IN
    /\ pc[t] = "wait_refresh"
    /\ lock[Owner[t]] = NoTask
    /\ IF Fresh(c) THEN Return(t, "ok") ELSE Send(t, "refresh", c.refresh)
    /\ UNCHANGED <<lock, cache, store, providerVars, outsideVars, historyVars>>

\* Faulty variant: what the cache holds under the lock is sent whatever it is.
RefreshWithoutToken(t) ==
    LET m == Owner[t]
        c == cache[m]
    IN
    /\ pc[t] = "wait_refresh"
    /\ lock[m] = NoTask
    /\ IF Fresh(c) THEN Return(t, "ok") /\ UNCHANGED lock
       ELSE Take(t) /\ Send(t, "refresh", c.refresh)
    /\ UNCHANGED <<cache, store, providerVars, outsideVars, historyVars>>

\* With the lock: re-read the cache, since whoever held it may have refreshed.
LockForRefresh(t) ==
    LET m == Owner[t]
        c == cache[m]
    IN
    /\ pc[t] = "wait_refresh"
    /\ lock[m] = NoTask
    /\ \/ /\ Fresh(c)
          /\ Return(t, "ok")
          /\ UNCHANGED lock
       \/ /\ ~Fresh(c)
          /\ c.refresh # NoToken
          /\ Take(t)
          /\ Send(t, "refresh", c.refresh)
       \/ /\ ~Fresh(c)
          /\ c.refresh = NoToken
          /\ GoTo(t, "wait_acquire")
          /\ UNCHANGED lock
    /\ UNCHANGED <<cache, store, providerVars, outsideVars, historyVars>>

\* "Singleflight the full acquisition": lock, re-check, then run the grant.
LockForAcquire(t) ==
    LET m == Owner[t] IN
    /\ pc[t] = "wait_acquire"
    /\ lock[m] = NoTask
    /\ \/ /\ Fresh(cache[m])
          /\ Return(t, "ok")
          /\ UNCHANGED lock
       \/ /\ ~Fresh(cache[m])
          /\ Grant = "authorization_code" /\ m \in Daemon
          /\ Return(t, "error")
          /\ UNCHANGED lock
       \/ /\ ~Fresh(cache[m])
          /\ Grant = "client_credentials" \/ m \notin Daemon
          /\ Take(t)
          /\ IF Dynamic THEN GoTo(t, "registering") ELSE Send(t, "grant", NoToken)
    /\ UNCHANGED <<cache, store, providerVars, outsideVars, historyVars>>

\* register_client, then set_dynamic_client_id.  A grant without a configured
\* client_id registers a new client every time.
Register(t) ==
    LET m == Owner[t] IN
    /\ pc[t] = "registering"
    /\ \/ /\ clients < MaxClients
          /\ clients' = clients + 1
          /\ cache' = [cache EXCEPT ![m] = [@ EXCEPT !.option = "some", !.client = clients + 1]]
          /\ Send(t, "grant", NoToken)
          /\ UNCHANGED <<lock, faults>>
       \/ /\ Fault("unreachable") \/ (clients = MaxClients /\ UNCHANGED faults)
          /\ Return(t, "error")
          /\ Drop(t)
          /\ UNCHANGED <<clients, cache>>
    /\ UNCHANGED <<store, issued, live, boundTo, bare, outsideVars, replaced, losses>>

-----------------------------------------------------------------------------
(* The provider's token endpoint.                                          *)

Answered(t, a) ==
    /\ pc' = [pc EXCEPT ![t] = "answered"]
    /\ answer' = [answer EXCEPT ![t] = a]
    /\ UNCHANGED <<flow, presented, failed>>

Accepts(token, client) == token \in live /\ boundTo[token] = client

\* A refresh succeeds: rotation retires `token` and issues a replacement.
Rotate(token, client) ==
    /\ issued < MaxIssue
    /\ issued' = issued + 1
    /\ live' = IF Rotates THEN (live \ {token}) \union {issued + 1} ELSE live
    /\ boundTo' = IF Rotates THEN [boundTo EXCEPT ![issued + 1] = client] ELSE boundTo
    /\ UNCHANGED <<clients, bare>>

ProviderRefresh(t) ==
    LET r == presented[t]
        client == cache[Owner[t]].client
    IN
    /\ pc[t] = "at_provider"
    /\ flow[t] \in {"refresh", "retry"}
    /\ \/ /\ Accepts(r, client)
          /\ Rotate(r, client)
          /\ \/ /\ Answered(t, [kind |-> "tokens", access |-> issued + 1,
                                refresh |-> IF Rotates THEN issued + 1 ELSE NoToken])
                /\ UNCHANGED <<faults, losses>>
             \/ /\ Fault("lost")
                /\ losses' = "token"
                /\ Answered(t, ErrorAnswer)
       \/ /\ ~Accepts(r, client)
          /\ Answered(t, [NoAnswer EXCEPT !.kind = "rejected"])
          /\ UNCHANGED <<providerVars, faults, losses>>
       \/ \* no answer from the endpoint, or a 5xx; past the bound it is down
          /\ Fault("unreachable") \/ (Accepts(r, client) /\ issued = MaxIssue /\ UNCHANGED faults)
          /\ Answered(t, ErrorAnswer)
          /\ UNCHANGED <<providerVars, losses>>
    /\ UNCHANGED <<cache, lock, store, outsideVars, replaced>>

\* Only a code exchange brings a refresh token, and it need not.
CarriesRefresh == IF Grant = "client_credentials" THEN {FALSE}
                  ELSE IF MayOmit THEN BOOLEAN ELSE {TRUE}

\* client_credentials, or the user's consent followed by the code exchange.
ProviderGrant(t) ==
    \E withRefresh \in CarriesRefresh :
        /\ pc[t] = "at_provider"
        /\ flow[t] = "grant"
        /\ \/ /\ issued < MaxIssue
              /\ issued' = issued + 1
              /\ live' = IF withRefresh THEN live \union {issued + 1} ELSE live
              /\ bare' = IF withRefresh THEN bare ELSE bare \union {issued + 1}
              /\ boundTo' = [boundTo EXCEPT ![issued + 1] = cache[Owner[t]].client]
              /\ Answered(t, [kind |-> "tokens", access |-> issued + 1,
                              refresh |-> IF withRefresh THEN issued + 1 ELSE NoToken])
              /\ UNCHANGED <<clients, faults>>
           \/ /\ Fault("denied") \/ (issued = MaxIssue /\ UNCHANGED faults)
              /\ Answered(t, ErrorAnswer)
              /\ UNCHANGED providerVars
        /\ UNCHANGED <<cache, lock, store, outsideVars, replaced, losses>>

\* A request whose sender is gone reaches the provider after all.
ProviderOrphan(o) ==
    /\ o \in orphans
    /\ orphans' = orphans \ {o}
    /\ \/ Accepts(o.token, o.client) /\ Rotate(o.token, o.client)
       \/ /\ ~Accepts(o.token, o.client) \/ issued = MaxIssue
          /\ UNCHANGED providerVars
    /\ UNCHANGED <<cache, lock, store, callerVars, expired, copies, historyVars>>

-----------------------------------------------------------------------------
(* What the manager does with the answer, still under its lock.            *)

\* Faulty variant: the cached refresh token wins over the one in the response.
CacheKeepsOldRefresh(t) ==
    LET m == Owner[t]
        a == answer[t]
        kept == IF cache[m].refresh # NoToken THEN cache[m].refresh ELSE a.refresh
    IN
    /\ pc[t] = "answered"
    /\ a.kind = "tokens"
    /\ cache' = [cache EXCEPT ![m] =
            [option |-> "some", access |-> a.access, refresh |-> kept,
             client |-> ClientOr(NoClient, @.client)]]
    /\ pc' = [pc EXCEPT ![t] = "saving"]
    /\ answer' = [answer EXCEPT ![t] = NoAnswer]
    /\ UNCHANGED <<lock, store, flow, presented, failed, providerVars, outsideVars, historyVars>>

\* cache_token_response, first half.  A response may omit the refresh token;
\* the previous one is then kept, beside the client that is cached now.
CacheTokenResponse(t) ==
    LET m == Owner[t]
        a == answer[t]
        kept == IF a.refresh # NoToken THEN a.refresh ELSE cache[m].refresh
    IN
    /\ pc[t] = "answered"
    /\ a.kind = "tokens"
    /\ cache' = [cache EXCEPT ![m] =
            [option |-> "some", access |-> a.access, refresh |-> kept,
             client |-> ClientOr(NoClient, @.client)]]
    /\ pc' = [pc EXCEPT ![t] = "saving"]
    /\ answer' = [answer EXCEPT ![t] = NoAnswer]
    /\ UNCHANGED <<lock, store, flow, presented, failed, providerVars, outsideVars, historyVars>>

\* Faulty variant: a token is saved only where none was stored.
SaveFirstOnly(t) ==
    LET c == cache[Owner[t]] IN
    /\ pc[t] = "saving"
    /\ store' = IF store.access = NoToken
                THEN [access |-> c.access, refresh |-> c.refresh, client |-> c.client]
                ELSE store
    /\ Drop(t)
    /\ Return(t, "ok")
    /\ UNCHANGED <<cache, providerVars, outsideVars, historyVars>>

\* cache_token_response, second half: save_token, which ignores a failed write.
SaveToken(t) ==
    LET m == Owner[t]
        c == cache[m]
        retired == Rotates /\ presented[t] # NoToken
    IN
    /\ pc[t] = "saving"
    /\ \/ /\ store' = [access |-> c.access, refresh |-> c.refresh, client |-> c.client]
          /\ replaced' = [n \in Manager |->
                IF n # m THEN replaced[n] \ {c.refresh}
                ELSE IF retired THEN replaced[m] \union {presented[t]} ELSE replaced[m]]
          /\ UNCHANGED <<faults, losses>>
       \/ /\ Fault("save")
          /\ losses' = "token"
          /\ UNCHANGED <<store, replaced>>
    /\ Drop(t)
    /\ Return(t, "ok")
    /\ UNCHANGED <<cache, providerVars, outsideVars>>

\* Faulty variant: the store is never consulted after a rejection.
NeverElsewhere(t) == t \notin Task

\* The store holds another token than the one the provider just refused.
StoredElsewhere(t) == store.access # NoToken /\ store.refresh # presented[t]

\* retry_with_stored: another writer may have stored a newer token.
RetryWithStored(t) ==
    LET m == Owner[t] IN
    /\ pc[t] = "answered"
    /\ flow[t] = "refresh"
    /\ answer[t].kind = "rejected"
    /\ StoredElsewhere(t)
    /\ InstallPersisted(m)
    /\ \/ /\ Fresh(store)
          /\ Drop(t)
          /\ Return(t, "ok")
       \/ /\ ~Fresh(store)
          /\ store.refresh # NoToken
          /\ Send(t, "retry", store.refresh)
          /\ UNCHANGED lock
       \/ /\ ~Fresh(store)
          /\ store.refresh = NoToken
          /\ Drop(t)
          /\ IF m \in Daemon THEN Return(t, "error") ELSE GoTo(t, "wait_acquire")
    /\ UNCHANGED <<store, providerVars, outsideVars, historyVars>>

\* Faulty variant: the guard lives to the end of get_token, so the fall-through
\* to the grant waits for the lock it holds.
FallsThroughWithLock(t) ==
    /\ pc[t] = "answered"
    /\ flow[t] # "grant"
    /\ \/ answer[t].kind = "error"
       \/ /\ answer[t].kind = "rejected"
          /\ flow[t] = "retry" \/ ~StoredElsewhere(t)
    /\ IF Owner[t] \in Daemon THEN Drop(t) /\ Return(t, "error")
       ELSE UNCHANGED lock /\ GoTo(t, "wait_acquire")
    /\ UNCHANGED <<cache, store, providerVars, outsideVars, historyVars>>

\* The refresh failed for good: a daemon reports it, other modes fall through
\* to the interactive grant, after dropping the lock.
RefreshFailed(t) ==
    /\ pc[t] = "answered"
    /\ flow[t] # "grant"
    /\ \/ answer[t].kind = "error"
       \/ /\ answer[t].kind = "rejected"
          /\ flow[t] = "retry" \/ ~StoredElsewhere(t)
    /\ Drop(t)
    /\ IF Owner[t] \in Daemon THEN Return(t, "error") ELSE GoTo(t, "wait_acquire")
    /\ UNCHANGED <<cache, store, providerVars, outsideVars, historyVars>>

GrantFailed(t) ==
    /\ pc[t] = "answered"
    /\ flow[t] = "grant"
    /\ answer[t].kind = "error"
    /\ Drop(t)
    /\ Return(t, "error")
    /\ UNCHANGED <<cache, store, providerVars, outsideVars, historyVars>>

-----------------------------------------------------------------------------
(* The environment.                                                        *)

Expire(a) ==
    /\ a \in 1 .. issued
    /\ a \notin expired
    /\ expired' = expired \union {a}
    /\ UNCHANGED <<cache, lock, store, callerVars, providerVars, orphans, copies, historyVars>>

\* What is lost with the future of a task: the refresh request it has out, and a
\* token it has received and not yet stored.
OnTheWire(gone) ==
    {[token |-> presented[t], client |-> cache[Owner[t]].client] :
        t \in {u \in gone : pc[u] = "at_provider" /\ flow[u] # "grant"}}

Forgets(t) ==
    \/ pc[t] = "at_provider" /\ flow[t] # "grant"
    \/ pc[t] = "answered" /\ answer[t].kind = "tokens"
    \/ pc[t] = "saving"

LossesOf(gone) == IF \E t \in gone : Forgets(t) THEN "token" ELSE losses

\* The client of a request goes away: its handler is dropped at the await it
\* stands at, and the guard of the refresh lock with it.  Saving has no await.
Abandon(t) ==
    /\ Owner[t] \in Hubs
    /\ pc[t] \in {"wait_refresh", "wait_acquire", "registering", "at_provider", "answered"}
    /\ Fault("dropped")
    /\ orphans' = orphans \union OnTheWire({t})
    /\ losses' = LossesOf({t})
    /\ IF Critical(t) THEN Drop(t) ELSE UNCHANGED lock
    /\ Return(t, "dropped")
    /\ UNCHANGED <<cache, store, providerVars, expired, copies, replaced>>

\* A process dies and starts again: only the store survives.
Crash(m) ==
    LET mine == {t \in Task : Owner[t] = m} IN
    /\ Fault("crash")
    /\ orphans' = orphans \union OnTheWire(mine)
    /\ losses' = LossesOf(mine)
    /\ cache' = [cache EXCEPT ![m] = EmptyCache]
    /\ lock' = [lock EXCEPT ![m] = NoTask]
    /\ replaced' = [replaced EXCEPT ![m] = {}]
    /\ pc' = [t \in Task |-> IF t \in mine THEN "idle" ELSE pc[t]]
    /\ presented' = [t \in Task |-> IF t \in mine THEN NoToken ELSE presented[t]]
    /\ answer' = [t \in Task |-> IF t \in mine THEN NoAnswer ELSE answer[t]]
    /\ failed' = failed \ mine
    /\ UNCHANGED <<store, flow, providerVars, expired, copies>>

\* EncryptedFileSecretStore::set for another backend's key, in another process:
\* it reads the file, ...
ReadFile(n) ==
    /\ \A c \in copies : c.by # n
    /\ Fault("overwrite")
    /\ copies' = copies \union {[by |-> n, entry |-> store]}
    /\ UNCHANGED <<cache, lock, store, callerVars, providerVars, expired, orphans, replaced, losses>>

\* ... and rewrites all of it.
RewriteFile(c) ==
    /\ c \in copies
    /\ copies' = copies \ {c}
    /\ store' = c.entry
    /\ losses' = IF c.entry # store THEN "token" ELSE losses
    /\ replaced' = [m \in Manager |-> replaced[m] \ {c.entry.refresh}]
    /\ UNCHANGED <<cache, lock, callerVars, providerVars, expired, orphans, faults>>

\* The user withdraws a consent at the provider.
Revoke(r) ==
    /\ r \in live
    /\ Fault("revoke")
    /\ live' = live \ {r}
    /\ losses' = "token"
    /\ UNCHANGED <<cache, lock, store, callerVars, issued, boundTo, clients, bare, outsideVars,
                   replaced>>

Provider(t) == ProviderRefresh(t) \/ ProviderGrant(t)

Step(t) ==
    \/ LockForRefresh(t)
    \/ LockForAcquire(t)
    \/ Register(t)
    \/ CacheTokenResponse(t)
    \/ SaveToken(t)
    \/ RetryWithStored(t)
    \/ RefreshFailed(t)
    \/ GrantFailed(t)

Next ==
    \/ \E t \in Task : AdoptPersisted(t) \/ GetToken(t) \/ Step(t) \/ Provider(t) \/ Abandon(t)
    \/ \E n \in Neighbour : ReadFile(n)
    \/ \E c \in copies : RewriteFile(c)
    \/ \E m \in Manager : Crash(m)
    \/ \E a \in AnyToken : Expire(a) \/ Revoke(a)
    \/ \E o \in orphans : ProviderOrphan(o)

Spec == Init /\ [][Next]_vars

(***************************************************************************)
(* Fairness.  tokio runs every task that can make progress and its Mutex   *)
(* is FIFO, so a waiter gets a lock that is released again and again.  The *)
(* backend keeps being called, and a backend that is not connected runs    *)
(* connect, which adopts before it asks for a token.  That the provider    *)
(* answers is an assumption of its own: the token client is built without  *)
(* a timeout.                                                              *)
(***************************************************************************)
Scheduling ==
    /\ \A t \in Task : WF_vars(Step(t)) /\ WF_vars(GetToken(t)) /\ SF_vars(AdoptPersisted(t))
    /\ \A t \in Task : SF_vars(LockForRefresh(t)) /\ SF_vars(LockForAcquire(t))

HubFairSpec == Spec /\ Scheduling
FairSpec == HubFairSpec /\ \A t \in Task : WF_vars(Provider(t))

-----------------------------------------------------------------------------
(* Properties.                                                             *)

CallerTypeOK ==
    /\ pc \in [Task -> Location]
    /\ flow \in [Task -> Flow]
    /\ presented \in [Task -> AnyToken]
    /\ answer \in [Task -> Answer]
    /\ failed \subseteq Task
    /\ \A t \in Task : pc[t] = "at_provider" /\ flow[t] # "grant" => presented[t] # NoToken

ManagerTypeOK ==
    /\ cache \in [Manager -> CacheEntry]
    /\ lock \in [Manager -> Task \union {NoTask}]
    /\ store \in StoreEntry

ProviderTypeOK ==
    /\ issued \in AnyToken
    /\ live \subseteq 1 .. issued
    /\ boundTo \in [AnyToken -> AnyClient]
    /\ clients \in AnyClient
    /\ bare \subseteq 1 .. issued
    /\ expired \subseteq 1 .. issued

HistoryTypeOK ==
    /\ orphans \subseteq [token : AnyToken, client : AnyClient]
    /\ copies \subseteq [by : Neighbour, entry : StoreEntry]
    /\ replaced \in [Manager -> SUBSET AnyToken]
    /\ losses \in {"none", "token"}
    /\ faults \in 0 .. MaxFaults

(* Every variable has its type, and a refresh request carries a token: who  *)
(* waited for the lock sends what it re-reads under it, and the token it     *)
(* queued for may be gone (a stored token without one was adopted).          *)
TypeOK == CallerTypeOK /\ ManagerTypeOK /\ ProviderTypeOK /\ HistoryTypeOK

(* The refresh lock is what it is for: of all the tasks of one manager only *)
(* its holder has a request at the provider or an answer in hand            *)
(* ("Singleflight: only one refresh at a time").                            *)
Singleflight ==
    \A t \in Task : Critical(t) <=> lock[Owner[t]] = t

(* A manager that has stored the replacement of a refresh token does not    *)
(* present the retired one again, whichever of its tasks calls, unless      *)
(* another process has put it back into the store since: a waiter re-reads  *)
(* the cache under the lock, and nothing the manager itself does brings the *)
(* retired token back to its cache or to the store it falls back to after a *)
(* rejection.  (A neighbour can put it back, and so can another manager of  *)
(* this backend whose grant came without a refresh token.)                  *)
NoRetiredReplay ==
    \A t \in Task :
        pc[t] = "at_provider" /\ flow[t] # "grant" => presented[t] \notin replaced[Owner[t]]

(* "Saves each new token before any other call can read the old one": with  *)
(* no request outstanding, the stored refresh token is one the provider     *)
(* accepts from the stored client, so a restart needs no new consent.       *)
(* Unless a fault destroyed a token: an answer lost on the wire, a caller   *)
(* dropped or a process killed with a request out or a token in hand, a     *)
(* failed write, a neighbour's older copy, a revocation.  And unless the    *)
(* stored token came from a grant without a refresh token.                  *)
RestartNeedsNoConsent ==
    (issued > 0 /\ losses = "none" /\ store.access \notin bare /\ \A t \in Task : ~Critical(t))
        => Accepts(store.refresh, store.client)

(* A stored refresh token, and one a daemon holds, stays paired with the    *)
(* client it was issued to, although every interactive grant registers a    *)
(* new client: it "is only valid for the client it was issued to".  The     *)
(* exception is what the code does with a grant that came without a refresh *)
(* token: it keeps the previous one beside the client just registered.      *)
RefreshTokenKeepsItsClient ==
    /\ store.refresh # NoToken /\ store.access \notin bare => boundTo[store.refresh] = store.client
    /\ \A m \in Daemon :
        cache[m].refresh # NoToken /\ cache[m].access \notin bare
            => boundTo[cache[m].refresh] = cache[m].client

(* Without a fault, get_token of a lone manager succeeds.                   *)
CallsSucceed == \A t \in Task : t \notin failed

(* Every get_token ends, a fall-through that takes the refresh lock a       *)
(* second time and a waiter behind a dropped caller included.               *)
GetTokenReturns == \A t \in Task : pc[t] # "idle" ~> pc[t] = "idle"

\* The daemon holds an access token and no refresh token.  Once that expires
\* get_token fails before it looks anywhere, and adopt_persisted refuses a cache
\* that is not empty: only a restart helps.
NeedsRestart(m) == cache[m].access # NoToken /\ cache[m].refresh = NoToken

(* A consent given elsewhere (`headless-mcp auth`) reaches a running daemon *)
(* without a restart, even when its own refresh token is dead; unless the   *)
(* daemon has a token that came without a refresh token.                    *)
StoredConsentReachesDaemon ==
    LET Usable == Accepts(store.refresh, store.client) IN
    \A m \in Daemon :
        Usable ~> \/ Accepts(cache[m].refresh, cache[m].client)
                  \/ Fresh(cache[m])
                  \/ NeedsRestart(m)
                  \/ ~Usable

=============================================================================
