---------------------------- MODULE HttpSession ----------------------------
(***************************************************************************)
(* The session of an HTTP backend across restarts of the remote server     *)
(* (crates/backends/backend-http/src/lib.rs), with the two callers it has: *)
(* tool calls, and the registry's connect and health check                 *)
(* (crates/registry/src/lib.rs, crates/mcp-server/src/session.rs).         *)
(*                                                                         *)
(* The remote MCP server is external.  It hands out a session with each    *)
(* `initialize`, forgets them all when it restarts, and answers a request  *)
(* that carries an unknown session, or none, in one of several styles.     *)
(***************************************************************************)
EXTENDS Naturals

CONSTANTS
    Caller,       \* tasks that run tools/call
    Health,       \* tasks that run the registry's health check
    NoTask,       \* "the re-initialisation lock is free"
    Startup,      \* how connect_all went when the hub started
    Styles,       \* the servers considered
    Faults,       \* which faults the network and the clients may inject
    MaxSessions,  \* bound: sessions the server hands out
    MaxCrashes,   \* bound: crashes of the server
    MaxFaults     \* bound: network and token faults, and dropped calls

Task == Caller \union Health
NoSession == 0
AnySession == 0 .. MaxSessions

\* gone: the answer to an unknown session; missing: to a call without one;
\* echo: every answer repeats the session; strict: initialize with an unknown
\* session is refused like any other request.
Style == [gone : {"http_404", "not_initialized"}, missing : {"not_initialized", "refused"},
          echo : BOOLEAN, strict : BOOLEAN]

FaultKind == {"lost", "unauthorized", "no_token", "dropped"}

ASSUME ConstantsAssumption ==
    /\ NoTask \notin Task
    /\ Caller \intersect Health = {}
    /\ Startup \subseteq {"connected", "unreachable"}
    /\ Styles \subseteq Style
    /\ Faults \subseteq FaultKind
    /\ MaxSessions \in Nat \ {0} /\ MaxCrashes \in Nat /\ MaxFaults \in Nat

VARIABLES
    connected,  \* HttpBackend.connected
    sid,        \* HttpBackend.session_id
    epoch,      \* HttpBackend.session_epoch
    reinit,     \* holder of HttpBackend.reinit_lock
    refresh,    \* HttpBackend.tools_refresh
    indexed,    \* registry: the backend's tools are in the tool index
    healthy,    \* registry: BackendHandle.health
    pc,         \* where each task is
    job,        \* what it is doing: call_tool, list_tools or health_check
    phase,      \* the request it has out: its job's, or an initialize
    attempt,    \* 1, or 2 once send_request runs the job's request again
    authed,     \* the request is the one repeated after a token acquisition
    seen,       \* the epoch send_request loaded
    sent,       \* the session id the request carries
    stale,      \* the session id reinitialize took away
    reply,      \* the server's answer, once there is one
    style,      \* server: how it answers
    up,         \* server: it runs
    known,      \* server: the sessions it honours
    issued,     \* server: sessions handed out so far
    trouble,    \* history: losses pending when the job began and disturbances since, up to 2
    denied,     \* history: tasks one of whose jobs failed with fewer than two of these
    collided,   \* history: a reconnect has overlapped another job or undone another reconnect
    reinits,    \* history: re-initialisations that succeeded
    orphaned,   \* history: a call has been dropped in the middle of a re-initialisation
    crashes,    \* crashes of the server so far
    faults      \* other faults so far

backendVars == <<connected, sid, epoch, reinit, refresh>>
registryVars == <<indexed, healthy>>
requestVars == <<phase, authed, sent, reply>>
jobVars == <<job, attempt, seen, stale>>
serverVars == <<style, up, known, issued>>
historyVars == <<trouble, denied, collided, reinits, orphaned, crashes, faults>>
vars == <<connected, sid, epoch, reinit, refresh, indexed, healthy, pc, job, phase, attempt,
          authed, seen, sent, stale, reply, style, up, known, issued, trouble, denied,
          collided, reinits, orphaned, crashes, faults>>

Location == {"idle", "disconnect", "connect", "start", "send", "sent", "replied", "token",
             "wait_reinit", "notify"}
Reply == [kind : {"none", "ok", "http_404", "not_initialized", "refused", "unauthorized",
                  "unreachable"},
          session : AnySession]
NoReply == [kind |-> "none", session |-> NoSession]
Only(k) == [kind |-> k, session |-> NoSession]

\* connect_all has connected the backend and indexed its tools, or it has not.
StartedUp(how) ==
    LET ok == how = "connected" IN
    /\ connected = ok /\ indexed = ok /\ healthy = ok
    /\ sid = IF ok THEN 1 ELSE NoSession
    /\ issued = IF ok THEN 1 ELSE 0
    /\ known = IF ok THEN {1} ELSE {}
    /\ up \in IF ok THEN {TRUE} ELSE BOOLEAN

Init ==
    /\ \E how \in Startup : StartedUp(how)
    /\ epoch = 0
    /\ reinit = NoTask
    /\ refresh = FALSE
    /\ pc = [t \in Task |-> "idle"]
    /\ job = [t \in Task |-> "list"]
    /\ phase = [t \in Task |-> "job"]
    /\ attempt = [t \in Task |-> 1]
    /\ authed = [t \in Task |-> FALSE]
    /\ seen = [t \in Task |-> 0]
    /\ sent = [t \in Task |-> NoSession]
    /\ stale = [t \in Task |-> NoSession]
    /\ reply = [t \in Task |-> NoReply]
    /\ style \in Styles
    /\ trouble = [t \in Task |-> 0]
    /\ denied = {}
    /\ collided = FALSE
    /\ reinits = 0
    /\ orphaned = FALSE
    /\ crashes = 0
    /\ faults = 0

-----------------------------------------------------------------------------
(* Moving a task.                                                          *)

Goto(t, where) == pc' = [pc EXCEPT ![t] = where]

\* Disturb every running job: a crash once, a fault for good.  (What a dropped
\* call leaves behind disturbs the others once: see Displaced.)
Disturbed(by) ==
    trouble' = [t \in Task |-> IF pc[t] = "idle" THEN 0
                               ELSE IF trouble[t] + by > 2 THEN 2 ELSE trouble[t] + by]

Fault(kind) ==
    /\ kind \in Faults
    /\ faults < MaxFaults
    /\ faults' = faults + 1
    /\ Disturbed(2)

Collides(t) == collided' = (collided \/ \E u \in Task \ {t} : pc[u] # "idle")

\* Losses nobody has made good yet: a re-initialisation under way, and a session
\* in use, or handed out to it, that the server has forgotten since, or that a
\* dropped call has left behind without one.
Current == IF sid # NoSession \/ reinit = NoTask THEN sid ELSE reply[reinit].session
Bereft == connected /\ sid = NoSession /\ reinit = NoTask
PendingLosses == (IF reinit # NoTask THEN 1 ELSE 0)
                 + (IF Current \notin known \union {NoSession} \/ Bereft THEN 1 ELSE 0)

\* Begin a request: send_request_inner for `what` ("job", "connect", "reinit").
Begin(t, what) ==
    /\ phase' = [phase EXCEPT ![t] = what]
    /\ authed' = [authed EXCEPT ![t] = FALSE]
    /\ sent' = [sent EXCEPT ![t] = NoSession]
    /\ reply' = [reply EXCEPT ![t] = NoReply]
    /\ Goto(t, "send")

\* What send_request held is gone.
Forget(t) ==
    /\ job' = [job EXCEPT ![t] = "list"]
    /\ attempt' = [attempt EXCEPT ![t] = 1]
    /\ seen' = [seen EXCEPT ![t] = 0]
    /\ authed' = [authed EXCEPT ![t] = FALSE]
    /\ phase' = [phase EXCEPT ![t] = "job"]
    /\ sent' = [sent EXCEPT ![t] = NoSession]
    /\ reply' = [reply EXCEPT ![t] = NoReply]

\* The end of a job, and what the registry makes of it: connect_backend
\* indexes the tools, run_health_checks re-lists after a re-initialisation.
Finish(t, ok) ==
    LET relist == ok /\ job[t] = "check" /\ refresh IN
    /\ Goto(t, IF relist THEN "connect" ELSE "idle")
    /\ refresh' = (refresh /\ ~relist)
    /\ indexed' = (indexed \/ (job[t] = "list" /\ ok))
    /\ healthy' = CASE job[t] = "list" -> (healthy \/ ok)
                    [] job[t] = "check" -> (healthy /\ ok)
                    [] OTHER -> healthy
    /\ denied' = IF ok \/ trouble[t] = 2 THEN denied ELSE denied \union {t}
    /\ Forget(t)

-----------------------------------------------------------------------------
(* The registry and the callers.                                           *)

StartJob(t, what, where) ==
    /\ pc[t] = "idle"
    /\ job' = [job EXCEPT ![t] = IF where = "idle" THEN @ ELSE what]
    /\ trouble' = [trouble EXCEPT ![t] = IF where \in {"start", "connect"} THEN PendingLosses ELSE 0]
    /\ Goto(t, where)
    /\ UNCHANGED <<requestVars, attempt, seen, stale, serverVars, denied, collided, reinits,
                   orphaned, crashes, faults>>

\* call_tool on an indexed tool; check_connected refuses it when not connected.
CallTool(t) ==
    /\ t \in Caller
    /\ indexed
    /\ StartJob(t, "call", IF connected THEN "start" ELSE "idle")
    /\ UNCHANGED <<backendVars, registryVars>>

\* handle_tools_call: no indexed tool and not healthy, so reconnect_backend.
ReconnectOnCall(t) ==
    /\ t \in Caller
    /\ ~indexed
    /\ ~healthy
    /\ StartJob(t, "list", "disconnect")
    /\ UNCHANGED <<backendVars, registryVars>>

\* disconnect() clears the flag and nothing else; it may hit other jobs, or the
\* connection of a reconnect that was quicker.
Disconnect(t) ==
    /\ pc[t] = "disconnect"
    /\ connected' = FALSE
    /\ Goto(t, "connect")
    /\ IF indexed THEN collided' = TRUE ELSE Collides(t)
    /\ UNCHANGED <<sid, epoch, reinit, refresh, registryVars, requestVars, jobVars, serverVars,
                   trouble, denied, reinits, orphaned, crashes, faults>>

\* run_health_checks: probe a healthy backend, reconnect an unhealthy one.
HealthCheck(t) ==
    /\ t \in Health
    /\ \/ /\ healthy /\ connected
          /\ StartJob(t, "check", "start")
          /\ UNCHANGED healthy
       \/ /\ healthy /\ ~connected
          /\ StartJob(t, "list", "idle")
          /\ healthy' = FALSE
       \/ /\ ~healthy
          /\ StartJob(t, "list", "connect")
          /\ UNCHANGED healthy
    /\ UNCHANGED <<backendVars, indexed>>

\* connect_backend: connect() is a no-op when connected, then list_tools.
Connect(t) ==
    /\ pc[t] = "connect"
    /\ job' = [job EXCEPT ![t] = "list"]
    /\ IF connected THEN Goto(t, "start") /\ UNCHANGED <<requestVars, collided>>
                    ELSE Begin(t, "connect") /\ Collides(t)
    /\ UNCHANGED <<backendVars, registryVars, attempt, seen, stale, serverVars, trouble, denied,
                   reinits, orphaned, crashes, faults>>

-----------------------------------------------------------------------------
(* send_request and send_request_inner.                                    *)

\* Load the epoch before anything else.
LoadEpoch(t) ==
    /\ pc[t] = "start"
    /\ seen' = [seen EXCEPT ![t] = epoch]
    /\ attempt' = [attempt EXCEPT ![t] = 1]
    /\ Begin(t, "job")
    /\ UNCHANGED <<backendVars, registryVars, job, stale, serverVars, historyVars>>

\* The request carries whatever session id is there when it is sent.
Send(t) ==
    /\ pc[t] = "send"
    /\ sent' = [sent EXCEPT ![t] = sid]
    /\ Goto(t, "sent")
    /\ UNCHANGED <<backendVars, registryVars, phase, authed, reply, jobVars, serverVars, historyVars>>

\* The server's answer to a request it receives while it runs.
ServerAnswer(t) ==
    IF phase[t] = "job"
    THEN CASE sent[t] \in known -> [kind |-> "ok", session |-> IF style.echo THEN sent[t] ELSE NoSession]
           [] sent[t] = NoSession -> Only(style.missing)
           [] OTHER -> Only(style.gone)
    ELSE IF style.strict /\ sent[t] \notin known \union {NoSession}
         THEN Only(style.gone)
         ELSE [kind |-> "ok", session |-> issued + 1]

Opens(t) == phase[t] # "job" /\ ServerAnswer(t).kind = "ok"

Serve(t) ==
    /\ pc[t] = "sent"
    /\ Opens(t) /\ up => issued < MaxSessions
    /\ \/ /\ up
          /\ reply' = [reply EXCEPT ![t] = ServerAnswer(t)]
          /\ UNCHANGED <<trouble, faults>>
       \/ /\ up
          /\ Fault("lost")
          /\ reply' = [reply EXCEPT ![t] = Only("unreachable")]
       \/ /\ ~up
          /\ Disturbed(2)
          /\ reply' = [reply EXCEPT ![t] = Only("unreachable")]
          /\ UNCHANGED faults
    /\ issued' = IF up /\ Opens(t) THEN issued + 1 ELSE issued
    /\ known' = IF up /\ Opens(t) THEN known \union {issued + 1} ELSE known
    /\ Goto(t, "replied")
    /\ UNCHANGED <<backendVars, registryVars, phase, authed, sent, jobVars, style, up,
                   denied, collided, reinits, orphaned, crashes>>

\* The access token has expired: 401 before the session is looked at.
Unauthorized(t) ==
    /\ pc[t] = "sent"
    /\ up
    /\ ~authed[t]
    /\ Fault("unauthorized")
    /\ reply' = [reply EXCEPT ![t] = Only("unauthorized")]
    /\ Goto(t, "replied")
    /\ UNCHANGED <<backendVars, registryVars, phase, authed, sent, jobVars, serverVars,
                   denied, collided, reinits, orphaned, crashes>>

Capture(t) == sid' = IF reply[t].session # NoSession THEN reply[t].session ELSE sid

\* Faulty variant: only a 404 means that the session is lost.
SessionLostOn404(t) == ~authed[t] /\ reply[t].kind = "http_404" /\ sent[t] # NoSession

\* Faulty variant: a call that was cut off is taken for a lost session and repeated.
SessionLostWhenCut(t) ==
    /\ ~authed[t]
    /\ \/ reply[t].kind = "http_404" /\ sent[t] # NoSession
       \/ reply[t].kind \in {"not_initialized", "unreachable"}

\* Why send_request thinks the session is lost; not asked after a token retry.
SessionLost(t) ==
    /\ ~authed[t]
    /\ \/ reply[t].kind = "http_404" /\ sent[t] # NoSession
       \/ reply[t].kind = "not_initialized"

\* The job's request succeeded, or failed for good.
JobDone(t) ==
    /\ pc[t] = "replied"
    /\ phase[t] = "job"
    /\ reply[t].kind # "unauthorized"
    /\ reply[t].kind = "ok" \/ ~SessionLost(t) \/ attempt[t] = 2
    /\ Capture(t)
    /\ Finish(t, reply[t].kind = "ok")
    /\ UNCHANGED <<connected, epoch, reinit, stale, serverVars, collided, reinits, orphaned, crashes,
                   faults>>
    /\ trouble' = [trouble EXCEPT ![t] = IF pc'[t] = "connect" THEN PendingLosses' ELSE 0]

\* Faulty variant: retry as often as the session is lost.
RetryForever(t) ==
    /\ pc[t] = "replied"
    /\ phase[t] = "job"
    /\ SessionLost(t)
    /\ Capture(t)
    /\ Goto(t, "wait_reinit")
    /\ attempt' = [attempt EXCEPT ![t] = @ + 1]
    /\ UNCHANGED <<connected, epoch, reinit, refresh, registryVars, requestVars, job, seen, stale,
                   serverVars, historyVars>>

\* The session is gone: go and re-initialise.
JobLostSession(t) ==
    /\ pc[t] = "replied"
    /\ phase[t] = "job"
    /\ SessionLost(t)
    /\ attempt[t] = 1
    /\ Capture(t)
    /\ Goto(t, "wait_reinit")
    /\ UNCHANGED <<connected, epoch, reinit, refresh, registryVars, requestVars, jobVars,
                   serverVars, historyVars>>

\* 401: ask the token manager, then send the very same request again.
AcquireToken(t) ==
    /\ pc[t] = "replied"
    /\ reply[t].kind = "unauthorized"
    /\ Goto(t, "token")
    /\ UNCHANGED <<backendVars, registryVars, requestVars, jobVars, serverVars, historyVars>>

TokenAcquired(t) ==
    /\ pc[t] = "token"
    /\ \/ /\ authed' = [authed EXCEPT ![t] = TRUE]
          /\ reply' = [reply EXCEPT ![t] = NoReply]
          /\ Goto(t, "sent")
          /\ UNCHANGED <<trouble, faults>>
       \/ /\ Fault("no_token")
          /\ reply' = [reply EXCEPT ![t] = Only("refused")]
          /\ Goto(t, "replied")
          /\ UNCHANGED authed
    /\ UNCHANGED <<backendVars, registryVars, phase, sent, jobVars, serverVars, denied, collided,
                   reinits, orphaned, crashes>>

-----------------------------------------------------------------------------
(* reinitialize and handshake.                                             *)

\* Faulty variant: the waiter does not compare epochs.
ReinitializeAlways(t) ==
    /\ pc[t] = "wait_reinit"
    /\ reinit = NoTask
    /\ reinit' = t
    /\ stale' = [stale EXCEPT ![t] = sid]
    /\ sid' = NoSession
    /\ Begin(t, "reinit")
    /\ UNCHANGED <<connected, epoch, refresh, registryVars, job, seen, attempt, serverVars,
                   historyVars>>

\* A session the server honours is replaced, as a dropped call has left one
\* behind: every other job is disturbed once.
Displaced(t) ==
    trouble' = [u \in Task |-> IF u = t \/ pc[u] = "idle" \/ trouble[u] = 2 \/ sid \notin known
                               THEN trouble[u] ELSE trouble[u] + 1]

\* With the lock: someone else has re-initialised since, or do it.
Reinitialize(t) ==
    /\ pc[t] = "wait_reinit"
    /\ reinit = NoTask
    /\ IF epoch # seen[t]
       THEN /\ attempt' = [attempt EXCEPT ![t] = 2]
            /\ Begin(t, "job")
            /\ UNCHANGED <<reinit, stale, sid, trouble>>
       ELSE /\ reinit' = t
            /\ stale' = [stale EXCEPT ![t] = sid]
            /\ sid' = NoSession
            /\ Displaced(t)
            /\ Begin(t, "reinit")
            /\ UNCHANGED attempt
    /\ UNCHANGED <<connected, epoch, refresh, registryVars, job, seen, serverVars, denied,
                   collided, reinits, orphaned, crashes, faults>>

\* initialize succeeded; notifications/initialized follows, and may fail.
\* connect does not hold the re-initialisation lock, so its session replaces
\* whatever the other tasks use.
Initialized(t) ==
    /\ pc[t] = "replied"
    /\ phase[t] # "job"
    /\ reply[t].kind = "ok"
    /\ Capture(t)
    /\ Goto(t, "notify")
    /\ IF phase[t] = "connect" THEN Collides(t) ELSE UNCHANGED collided
    /\ UNCHANGED <<connected, epoch, reinit, refresh, registryVars, requestVars, jobVars,
                   serverVars, trouble, denied, reinits, orphaned, crashes, faults>>

\* The end of the handshake, for connect and for reinitialize.
HandshakeDone(t) ==
    /\ pc[t] = "notify"
    /\ IF phase[t] = "reinit"
       THEN /\ epoch' = epoch + 1
            /\ refresh' = TRUE
            /\ reinits' = reinits + 1
            /\ reinit' = NoTask
            /\ stale' = [stale EXCEPT ![t] = NoSession]
            /\ attempt' = [attempt EXCEPT ![t] = 2]
            /\ Begin(t, "job")
            /\ UNCHANGED connected
       ELSE /\ connected' = TRUE
            /\ Goto(t, "start")
            /\ UNCHANGED <<epoch, refresh, reinits, reinit, stale, attempt, requestVars>>
    /\ UNCHANGED <<sid, registryVars, job, seen, serverVars, trouble, denied, collided, orphaned, crashes,
                   faults>>

\* Faulty variant: the session id taken away is not put back.
HandshakeFailedForgets(t) ==
    /\ pc[t] = "replied"
    /\ phase[t] # "job"
    /\ reply[t].kind \notin {"ok", "unauthorized"}
    /\ sid' = sid
    /\ epoch' = IF phase[t] = "reinit" THEN epoch + 1 ELSE epoch
    /\ reinit' = IF phase[t] = "reinit" THEN NoTask ELSE reinit
    /\ stale' = [stale EXCEPT ![t] = NoSession]
    /\ Finish(t, FALSE)
    /\ trouble' = [u \in Task |-> IF u = t \/ pc[u] = "idle" THEN 0 ELSE 2]
    /\ UNCHANGED <<connected, serverVars, collided, reinits, orphaned, crashes, faults>>

\* Faulty variant: the lock is kept.
HandshakeFailedKeepsLock(t) ==
    /\ pc[t] = "replied"
    /\ phase[t] # "job"
    /\ reply[t].kind \notin {"ok", "unauthorized"}
    /\ sid' = IF phase[t] = "reinit" /\ sid = NoSession THEN stale[t] ELSE sid
    /\ epoch' = IF phase[t] = "reinit" THEN epoch + 1 ELSE epoch
    /\ reinit' = reinit
    /\ stale' = [stale EXCEPT ![t] = NoSession]
    /\ Finish(t, FALSE)
    /\ trouble' = [u \in Task |-> IF u = t \/ pc[u] = "idle" THEN 0 ELSE 2]
    /\ UNCHANGED <<connected, serverVars, collided, reinits, orphaned, crashes, faults>>

\* Faulty variant: a backend that cannot be re-initialised is disconnected.
HandshakeFailedDisconnects(t) ==
    /\ pc[t] = "replied"
    /\ phase[t] # "job"
    /\ reply[t].kind \notin {"ok", "unauthorized"}
    /\ sid' = IF phase[t] = "reinit" /\ sid = NoSession THEN stale[t] ELSE sid
    /\ epoch' = IF phase[t] = "reinit" THEN epoch + 1 ELSE epoch
    /\ reinit' = IF phase[t] = "reinit" THEN NoTask ELSE reinit
    /\ connected' = (connected /\ phase[t] # "reinit")
    /\ stale' = [stale EXCEPT ![t] = NoSession]
    /\ Finish(t, FALSE)
    /\ trouble' = [u \in Task |-> IF u = t \/ pc[u] = "idle" THEN 0 ELSE 2]
    /\ UNCHANGED <<serverVars, collided, reinits, orphaned, crashes, faults>>

\* initialize failed: put the old id back "so a later 404 is still recognised".
\* Whoever waits for this handshake shares its failure.
HandshakeFailed(t) ==
    /\ pc[t] = "replied"
    /\ phase[t] # "job"
    /\ reply[t].kind \notin {"ok", "unauthorized"}
    /\ sid' = IF phase[t] = "reinit" /\ sid = NoSession THEN stale[t] ELSE sid
    /\ epoch' = IF phase[t] = "reinit" THEN epoch + 1 ELSE epoch
    /\ reinit' = IF phase[t] = "reinit" THEN NoTask ELSE reinit
    /\ stale' = [stale EXCEPT ![t] = NoSession]
    /\ Finish(t, FALSE)
    /\ trouble' = [u \in Task |-> IF u = t \/ pc[u] = "idle" THEN 0 ELSE 2]
    /\ UNCHANGED <<connected, serverVars, collided, reinits, orphaned, crashes, faults>>

\* The client of a tools/call goes away: its handler is dropped at the await it
\* stands at, and the lock with it.  An id that reinitialize has taken away is
\* not put back, and the epoch stays.
Abandon(t) ==
    /\ t \in Caller
    /\ pc[t] \in {"connect", "sent", "replied", "token", "wait_reinit", "notify"}
    /\ "dropped" \in Faults
    /\ faults < MaxFaults
    /\ faults' = faults + 1
    /\ reinit' = IF reinit = t THEN NoTask ELSE reinit
    /\ orphaned' = (orphaned \/ reinit = t)
    /\ stale' = [stale EXCEPT ![t] = NoSession]
    /\ Forget(t)
    /\ Goto(t, "idle")
    /\ trouble' = [trouble EXCEPT ![t] = 0]
    /\ UNCHANGED <<connected, sid, epoch, refresh, registryVars, serverVars, denied, collided,
                   reinits, crashes>>

-----------------------------------------------------------------------------
(* The server's lifetime.                                                  *)

ServerCrash ==
    /\ up
    /\ crashes < MaxCrashes
    /\ crashes' = crashes + 1
    /\ up' = FALSE
    /\ known' = {}
    /\ Disturbed(1)
    /\ UNCHANGED <<backendVars, registryVars, pc, requestVars, jobVars, style, issued,
                   denied, collided, reinits, orphaned, faults>>

ServerStart ==
    /\ ~up
    /\ up' = TRUE
    /\ UNCHANGED <<backendVars, registryVars, pc, requestVars, jobVars, style, known, issued,
                   historyVars>>

Arrive(t) == CallTool(t) \/ ReconnectOnCall(t) \/ HealthCheck(t)

\* What a task does by itself, the lock's turn included.
Proceed(t) ==
    \/ Disconnect(t)
    \/ Connect(t)
    \/ LoadEpoch(t)
    \/ Send(t)
    \/ JobDone(t)
    \/ JobLostSession(t)
    \/ AcquireToken(t)
    \/ Reinitialize(t)
    \/ Initialized(t)
    \/ HandshakeDone(t)
    \/ HandshakeFailed(t)

Step(t) == Proceed(t) \/ TokenAcquired(t)

Next ==
    \/ \E t \in Task : Arrive(t) \/ Step(t) \/ Serve(t) \/ Unauthorized(t) \/ Abandon(t)
    \/ ServerCrash
    \/ ServerStart

Spec == Init /\ [][Next]_vars

(***************************************************************************)
(* tokio runs every ready task and its Mutex is FIFO; every request of the *)
(* backend's own client has a timeout, so it is answered or ends as        *)
(* unreachable; the server is started again; clients keep calling.         *)
(***************************************************************************)
Scheduling ==
    /\ \A t \in Task : WF_vars(Proceed(t) \/ Serve(t)) /\ WF_vars(Arrive(t))
    /\ WF_vars(ServerStart)

\* The assumption that get_token returns: the client that discovers the
\* provider and asks it for tokens has no timeout (see OAuth2Token's FairSpec).
TokensArrive == \A t \in Task : WF_vars(TokenAcquired(t))

FairSpec == Spec /\ Scheduling /\ TokensArrive

-----------------------------------------------------------------------------
(* Properties.                                                             *)

(* Every variable has its type: the fields of HttpBackend, the registry's   *)
(* two flags for it, and the requests under way.                            *)
TypeOK ==
    /\ connected \in BOOLEAN /\ refresh \in BOOLEAN
    /\ indexed \in BOOLEAN /\ healthy \in BOOLEAN
    /\ sid \in AnySession
    /\ epoch \in Nat
    /\ reinit \in Task \union {NoTask}
    /\ pc \in [Task -> Location]
    /\ job \in [Task -> {"call", "list", "check"}]
    /\ phase \in [Task -> {"job", "connect", "reinit"}]
    /\ attempt \in [Task -> 1 .. 2]
    /\ authed \in [Task -> BOOLEAN]
    /\ seen \in [Task -> Nat]
    /\ sent \in [Task -> AnySession]
    /\ stale \in [Task -> AnySession]
    /\ reply \in [Task -> Reply]
    /\ style \in Styles
    /\ up \in BOOLEAN
    /\ known \subseteq 1 .. issued
    /\ issued \in AnySession
    /\ trouble \in [Task -> 0 .. 2]
    /\ denied \subseteq Task
    /\ collided \in BOOLEAN
    /\ reinits \in Nat
    /\ orphaned \in BOOLEAN
    /\ crashes \in 0 .. MaxCrashes
    /\ faults \in 0 .. MaxFaults

\* A server that recognises every way a call can miss its session, that names
\* the session only when it opens it, and opens one whatever it is sent.
PlainServer == style.missing = "not_initialized" /\ ~style.echo /\ ~style.strict

(* A single restart of the server before or while a call, a listing or a    *)
(* health check is under way is repaired behind the caller's back by        *)
(* send_request: with no other trouble the job does not fail, whoever       *)
(* re-initialises first and whichever window of the handshake its own       *)
(* request falls into.  A caller dropped in the middle of its handshake is   *)
(* no trouble by itself, nor is the missing session it leaves behind: only   *)
(* when another caller then replaces a session that was in order does that   *)
(* count as a second loss.  (No connect, which does not take the lock, may   *)
(* have run beside it.)                                                      *)
OneRestartIsInvisible ==
    PlainServer /\ ~collided => denied = {}

(* "One lost session costs one handshake, not one per caller": there are    *)
(* never more completed re-initialisations than sessions the server has      *)
(* forgotten.  A handshake whose caller is dropped before its end leaves the  *)
(* epoch as it was, and somebody else runs it again.                         *)
OneHandshakePerLoss == ~style.echo /\ ~collided => reinits <= crashes

(* A backend that is not connected is one the next call reconnects: "a call *)
(* to one of its <namespace>.* tools reconnects it first" (README.md:256).   *)
(* That is so as long as no reconnect has overlapped another: the second    *)
(* of two disconnects clears the flag that the first connect has set, and if *)
(* its own handshake then fails the backend stays indexed and healthy.       *)
NextCallReconnects ==
    (~connected /\ ~collided /\ \A t \in Task : pc[t] = "idle") => ~indexed /\ ~healthy

(* Every call, listing and health check ends.                               *)
JobsEnd == \A t \in Task : pc[t] # "idle" ~> pc[t] = "idle"

(* A backend whose session is gone gets one the server honours again, even  *)
(* when re-initialisations fail on the way: the old id is kept, "so a later *)
(* 404 is still recognised as a lost session" (lib.rs:300).  Not so when the *)
(* caller that had taken it away has been dropped: no id is left, and a     *)
(* server that merely refuses a call without one is never asked for another. *)
SessionRecovers ==
    (connected /\ sid \notin known)
        ~> (sid \in known \/ (orphaned /\ sid = NoSession /\ style.missing = "refused"))

-----------------------------------------------------------------------------
(* HttpBackend implements the McpBackend trait.                            *)

\* The trait operation a task is in: reconnects of the registry and the calls
\* of its own are none.
Doing(t) ==
    IF pc[t] \in {"idle", "disconnect", "connect"} THEN "none"
    ELSE IF phase[t] = "connect" /\ pc[t] # "start" THEN "connect"
    ELSE "request"

\* A result, or no answer at all: the server may have carried out the job's request.
Carried(t) ==
    pc[t] = "replied" /\ phase[t] = "job" /\ reply[t].kind \in {"ok", "unreachable"}

Contract == INSTANCE Backend WITH
    doing <- [t \in Task |-> Doing(t)],
    carried <- {t \in Task : Carried(t)}

(* send_request may run a request twice and re-initialise in between, and   *)
(* still keeps the trait's word (crates/core/src/lib.rs:31-86): no request  *)
(* that may have been carried out is sent again, no request starts on a     *)
(* backend that is not connected, only a whole handshake connects, and only *)
(* a re-initialisation asks for the tools to be listed again.               *)
ImplementsBackend == Contract!Spec

=============================================================================
