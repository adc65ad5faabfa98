------------------------------ MODULE Registry ------------------------------
(***************************************************************************)
(* The backend registry (crates/registry/src/lib.rs) and tools/call, the   *)
(* session handler that uses it (crates/mcp-server/src/session.rs): the    *)
(* tool index several backends share, connection modes, health checks,     *)
(* reconnection and routing, as tasks that interleave at every await.      *)
(*                                                                         *)
(* A backend is external, seen through the McpBackend trait: it can be     *)
(* reached or not, it holds a connection or not, and it offers tools that  *)
(* may differ after a restart.  A request to one that can be reached may   *)
(* fail nonetheless.  A tool is known by its exposed name.                 *)
(***************************************************************************)
EXTENDS Naturals, FiniteSets

CONSTANTS
    Task,      \* tasks
    Monitor,   \* the task start_health_checks spawns
    NoTask,    \* "the tool index is not locked"
    Backend,   \* registered backends
    NoBackend, \* "no entry"
    Name,      \* exposed tool names
    Jobs,      \* what tasks do: "call", "connect_all", "health", "refresh", "unregister"
    Modes,     \* the connection modes considered, each a function of the backend
    Space,     \* Space[b]: names that start with b's namespace and a dot
    Offers,    \* Offers[b]: the tool sets b may come up with, as exposed names
    MaxJobs,   \* bound: jobs other than health checks
    MaxFaults  \* bound: outages, failed requests and dropped calls

ASSUME ConstantsAssumption ==
    /\ NoTask \notin Task /\ Monitor \in Task /\ NoBackend \notin Backend
    /\ Jobs \subseteq {"call", "connect_all", "health", "refresh", "unregister"}
    /\ Modes \subseteq [Backend -> {"eager", "lazy", "per_call"}]
    /\ Name # {}
    /\ Space \in [Backend -> SUBSET Name]
    /\ Offers \in [Backend -> SUBSET SUBSET Name]
    /\ \A b \in Backend : Space[b] # {} => UNION Offers[b] \subseteq Space[b]
    /\ MaxJobs \in Nat /\ MaxFaults \in Nat

VARIABLES
    registered, \* BackendRegistry.backends
    healthy,    \* backends whose BackendHandle.health is set
    index,      \* BackendRegistry.tool_index
    locked,     \* the task that holds the index's write lock across an await
    pc,         \* where each task is
    job,        \* its job
    target,     \* the backend it works on
    name,       \* the tool it calls
    todo,       \* backends its loop has still to visit
    listing,    \* the tools list_tools returned
    mode,       \* BackendDef.connection_mode of each backend
    conn,       \* backends that hold a connection
    up,         \* backends that can be reached
    offers,     \* offers[b]: the tools b has now
    renewed,    \* connected backends that restarted behind their connection
    refresh,    \* backends whose tools_refresh is set
    overlapped, \* history: backends two tasks have connected at a time
    unlisted,   \* history: healthy backends whose last connect_backend ended early
    jobs,       \* jobs other than health checks so far
    faults      \* outages, failed requests and dropped calls so far

registryVars == <<registered, healthy, index, locked>>
taskVars == <<job, target, name, todo, listing>>
backendVars == <<conn, up, offers, renewed, refresh>>
historyVars == <<overlapped, unlisted>>
fixedVars == <<mode, jobs, faults>>
vars == <<registered, healthy, index, locked, pc, job, target, name, todo, listing, mode,
          conn, up, offers, renewed, refresh, overlapped, unlisted, jobs, faults>>

AnyName == CHOOSE n \in Name : TRUE
Entries(b) == {n \in Name : index[n] = b}

\* Inside connect_backend, once the handle has been looked up.
Connecting == {"connect", "list", "index"}
Location == Connecting \union {"idle", "lookup", "route", "disconnect", "open", "call", "next",
                               "check", "retain"}
Kind == {"call", "lazy", "per_call", "connect_all", "health", "refresh", "unregister"}

\* build_registry has registered every backend; none is connected.
Init ==
    /\ registered = Backend /\ healthy = {}
    /\ index = [n \in Name |-> NoBackend]
    /\ locked = NoTask
    /\ pc = [t \in Task |-> "idle"]
    /\ job = [t \in Task |-> "health"]
    /\ target = [t \in Task |-> NoBackend]
    /\ name = [t \in Task |-> AnyName]
    /\ todo = [t \in Task |-> {}]
    /\ listing = [t \in Task |-> {}]
    /\ conn = {} /\ up \in SUBSET Backend
    /\ offers \in [Backend -> UNION {Offers[b] : b \in Backend}]
    /\ \A b \in Backend : offers[b] \in Offers[b]
    /\ renewed = {} /\ refresh = {} /\ overlapped = {} /\ unlisted = {}
    /\ mode \in Modes
    /\ jobs = 0 /\ faults = 0

-----------------------------------------------------------------------------
(* Moving a task.                                                          *)

Goto(t, where) == pc' = [pc EXCEPT ![t] = where]

\* The end of a job; what a task remembers of it is forgotten.
Done(t) ==
    /\ Goto(t, "idle")
    /\ job' = [job EXCEPT ![t] = "health"]
    /\ target' = [target EXCEPT ![t] = NoBackend]
    /\ name' = [name EXCEPT ![t] = AnyName]
    /\ todo' = [todo EXCEPT ![t] = {}]
    /\ listing' = [listing EXCEPT ![t] = {}]

\* connect_backend returns: a reconnect on call goes on to route the call
\* whatever came of it, a lazy connect only if it succeeded, a loop goes on.
Return(t, ok) ==
    \/ job[t] = "call" /\ Goto(t, "route") /\ UNCHANGED taskVars
    \/ job[t] = "lazy" /\ ok /\ Goto(t, "call") /\ UNCHANGED taskVars
    \/ job[t] = "lazy" /\ ~ok /\ Done(t)
    \/ job[t] \notin {"call", "lazy"} /\ Goto(t, "next") /\ UNCHANGED taskVars

\* MUTANT of Answered: the new session passes unnoticed.
AnsweredQuietly(b) == renewed' = renewed \ {b} /\ UNCHANGED refresh

\* A backend that answers after a restart behind its connection has made a
\* new session and wants its tools listed again.
Answered(b) ==
    /\ renewed' = renewed \ {b}
    /\ refresh' = IF b \in renewed THEN refresh \union {b} ELSE refresh

Reachable(b) == b \in up /\ b \in conn

Fault == faults < MaxFaults /\ faults' = faults + 1

\* A request ends in an error: the backend is away, or the answer is (a timeout,
\* a 5xx), whether the request has made a new session or not.
Fails(b) ==
    \/ ~Reachable(b) /\ UNCHANGED <<backendVars, faults>>
    \/ /\ Reachable(b)
       /\ Fault
       /\ Answered(b) \/ UNCHANGED <<renewed, refresh>>
       /\ UNCHANGED <<conn, up, offers>>

\* connect_backend of b ends early; what it was to do for a healthy b stays undone.
EndsEarly(b) == unlisted' = IF b \in healthy THEN unlisted \union {b} ELSE unlisted

-----------------------------------------------------------------------------
(* connect_backend.                                                        *)

\* Two tasks connect b at a time.
Overlap(b, others) ==
    overlapped' = IF \E u \in others : target[u] = b /\ pc[u] \in Connecting
                  THEN overlapped \union {b} ELSE overlapped

\* The handle is looked up.
Lookup(t) ==
    /\ pc[t] = "lookup"
    /\ IF target[t] \in registered
       THEN Goto(t, "connect") /\ Overlap(target[t], Task \ {t}) /\ UNCHANGED taskVars
       ELSE Return(t, FALSE) /\ UNCHANGED overlapped
    /\ UNCHANGED <<registryVars, backendVars, unlisted, fixedVars>>

\* connect().await of b: the connection it already has, or a new session.
Opens(b) == (b \in conn \/ b \in up) /\ conn' = conn \union {b} /\ UNCHANGED faults
FailsToOpen(b) ==
    /\ b \notin conn
    /\ (b \notin up /\ UNCHANGED faults) \/ Fault
    /\ UNCHANGED conn

Connect(t) ==
    /\ pc[t] = "connect"
    /\ \/ Opens(target[t]) /\ Goto(t, "list") /\ UNCHANGED taskVars
       \/ FailsToOpen(target[t]) /\ Return(t, FALSE)
    /\ UNCHANGED <<registryVars, up, offers, renewed, refresh, historyVars, mode, jobs>>

\* list_tools().await.
List(t) ==
    /\ pc[t] = "list"
    /\ LET b == target[t] IN
       \/ /\ Reachable(b)
          /\ listing' = [listing EXCEPT ![t] = offers[b]]
          /\ Goto(t, "index")
          /\ Answered(b)
          /\ UNCHANGED <<job, target, name, todo, conn, up, offers, unlisted, faults>>
       \/ /\ Fails(b)
          /\ Return(t, FALSE)
          /\ IF Reachable(b) THEN EndsEarly(b) ELSE UNCHANGED unlisted
    /\ UNCHANGED <<registryVars, overlapped, mode, jobs>>

Owned(b, names) == [n \in Name |-> IF n \in names THEN b ELSE IF index[n] = b THEN NoBackend ELSE index[n]]

\* The listed names that another backend has.
Taken(t) == {n \in listing[t] : index[n] \notin {target[t], NoBackend}}

\* MUTANT of MarkedHealthy: a handle that is gone is marked, too.
MarkedAnyway(b) == healthy \union {b}

\* The handle is looked up again, as it may be gone.
MarkedHealthy(b) == IF b \in registered THEN healthy \union {b} ELSE healthy

\* The entries of the backend are replaced under the index's write lock.  A
\* taken name ends it there: the tools before it stay.
Index(t) ==
    /\ pc[t] = "index"
    /\ locked = NoTask
    /\ LET b == target[t] IN
       \/ /\ Taken(t) = {}
          /\ index' = Owned(b, listing[t])
          /\ healthy' = MarkedHealthy(b)
          /\ unlisted' = unlisted \ {b}
          /\ Return(t, TRUE)
       \/ /\ Taken(t) # {}
          /\ \E before \in SUBSET (listing[t] \ Taken(t)) : index' = Owned(b, before)
          /\ EndsEarly(b)
          /\ Return(t, FALSE)
          /\ UNCHANGED healthy
    /\ UNCHANGED <<registered, locked, backendVars, overlapped, fixedVars>>

-----------------------------------------------------------------------------
(* tools/call: handle_tools_call and route_call_with.                      *)

\* backend_of_tool: the indexed one, or one whose namespace the name starts with.
Candidates(n) ==
    IF index[n] # NoBackend THEN {index[n]} ELSE {b \in registered : n \in Space[b]}

\* A tool that is not indexed, of a backend that is not healthy: reconnect first.
StartCall(t) ==
    /\ pc[t] = "idle" /\ t # Monitor /\ "call" \in Jobs
    /\ locked = NoTask
    /\ jobs < MaxJobs /\ jobs' = jobs + 1
    /\ \E n \in Name :
         /\ name' = [name EXCEPT ![t] = n]
         /\ IF index[n] = NoBackend /\ Candidates(n) # {}
            THEN \E b \in Candidates(n) :
                   /\ target' = [target EXCEPT ![t] = b]
                   /\ Goto(t, IF b \in healthy THEN "route" ELSE "disconnect")
            ELSE Goto(t, "route") /\ UNCHANGED target
    /\ job' = [job EXCEPT ![t] = "call"]
    /\ UNCHANGED <<registryVars, todo, listing, backendVars, historyVars, mode, faults>>

\* disconnect().await, of reconnect_backend, of a per-call call, of unregister.
Disconnect(t) ==
    /\ pc[t] = "disconnect"
    /\ conn' = conn \ {target[t]}
    /\ renewed' = renewed \ {target[t]}
    /\ IF job[t] = "call" THEN Goto(t, "lookup") /\ UNCHANGED taskVars ELSE Done(t)
    /\ locked' = IF locked = t THEN NoTask ELSE locked
    /\ UNCHANGED <<registered, healthy, index, up, offers, refresh, historyVars, fixedVars>>

\* The tool and its backend are looked up; a lazy backend that is not healthy
\* is connected, a per-call one always.
Route(t) ==
    /\ pc[t] = "route"
    /\ locked = NoTask
    /\ LET b == index[name[t]] IN
       IF b \notin registered THEN Done(t)
       ELSE /\ target' = [target EXCEPT ![t] = b]
            /\ LET lazily == mode[b] = "lazy" /\ b \notin healthy IN
               /\ job' = [job EXCEPT ![t] = IF lazily THEN "lazy"
                                            ELSE IF mode[b] = "per_call" THEN "per_call" ELSE "call"]
               /\ Goto(t, IF lazily THEN "lookup"
                          ELSE IF mode[b] = "per_call" THEN "open" ELSE "call")
            /\ UNCHANGED <<name, todo, listing>>
    /\ UNCHANGED <<registryVars, backendVars, historyVars, fixedVars>>

\* A per-call backend is connected for the call.
Open(t) ==
    /\ pc[t] = "open"
    /\ \/ Opens(target[t]) /\ Goto(t, "call") /\ UNCHANGED taskVars
       \/ FailsToOpen(target[t]) /\ Done(t)
    /\ UNCHANGED <<registryVars, up, offers, renewed, refresh, historyVars, mode, jobs>>

CallTool(t) ==
    /\ pc[t] = "call"
    /\ LET b == target[t] IN
       \/ Reachable(b) /\ Answered(b) /\ UNCHANGED <<conn, up, offers, faults>>
       \/ Fails(b)
    /\ IF job[t] = "per_call" THEN Goto(t, "disconnect") /\ UNCHANGED taskVars ELSE Done(t)
    /\ UNCHANGED <<registryVars, historyVars, mode, jobs>>

\* The client of a tools/call goes away: its handler is dropped at the await it
\* stands at, in the middle of connect_backend if need be.
Abandon(t) ==
    /\ job[t] \in {"call", "lazy", "per_call"}
    /\ pc[t] \in {"disconnect", "connect", "list", "open", "call"}
    /\ Fault
    /\ IF pc[t] \in Connecting THEN EndsEarly(target[t]) ELSE UNCHANGED unlisted
    /\ Done(t)
    /\ UNCHANGED <<registryVars, backendVars, overlapped, mode, jobs>>

-----------------------------------------------------------------------------
(* Loops over backends: connect_all, refresh_tools, run_health_checks; and *)
(* unregister.                                                             *)

Loop(t, j, backends) ==
    /\ pc[t] = "idle" /\ j \in Jobs
    /\ j = "health" <=> t = Monitor
    /\ jobs < MaxJobs \/ j = "health"
    /\ jobs' = IF j = "health" THEN jobs ELSE jobs + 1
    /\ job' = [job EXCEPT ![t] = j]
    /\ todo' = [todo EXCEPT ![t] = backends]
    /\ Goto(t, "next")
    /\ UNCHANGED <<registered, healthy, locked, target, name, listing, backendVars, historyVars,
                   mode, faults>>

StartConnectAll(t) ==
    Loop(t, "connect_all", {b \in registered : mode[b] = "eager"}) /\ UNCHANGED index

StartHealthChecks(t) ==
    Loop(t, "health", {b \in registered : mode[b] # "per_call"}) /\ UNCHANGED index

\* The index is emptied first.
StartRefresh(t) ==
    /\ locked = NoTask
    /\ Loop(t, "refresh", healthy)
    /\ index' = [n \in Name |-> NoBackend]

\* The next backend in the map's order.  A health check of one that is not
\* healthy sleeps for the backoff and connects it.
NextBackend(t) ==
    /\ pc[t] = "next"
    /\ IF todo[t] = {} THEN Done(t)
       ELSE \E b \in todo[t] :
              /\ todo' = [todo EXCEPT ![t] = @ \ {b}]
              /\ target' = [target EXCEPT ![t] = b]
              /\ Goto(t, IF job[t] = "health" /\ b \in healthy THEN "check" ELSE "lookup")
              /\ UNCHANGED <<job, name, listing>>
    /\ UNCHANGED <<registryVars, backendVars, historyVars, fixedVars>>

\* MUTANT of HealthCheck: a request a call has left is taken and not followed.
CheckWithoutRefresh(t) ==
    /\ pc[t] = "check"
    /\ LET b == target[t] IN
       \/ /\ Reachable(b)
          /\ renewed' = renewed \ {b}
          /\ refresh' = refresh \ {b}
          /\ Goto(t, IF b \in renewed THEN "lookup" ELSE "next")
          /\ UNCHANGED <<healthy, conn, up, offers, faults>>
       \/ /\ Fails(b)
          /\ healthy' = healthy \ {b}
          /\ Goto(t, "next")
    /\ UNCHANGED <<registered, index, locked, taskVars, historyVars, mode, jobs>>

\* health_check().await, and the tools listed again if the backend asks for it;
\* the request is taken before they are.
HealthCheck(t) ==
    /\ pc[t] = "check"
    /\ LET b == target[t] IN
       \/ /\ Reachable(b)
          /\ renewed' = renewed \ {b}
          /\ refresh' = refresh \ {b}
          /\ Goto(t, IF b \in renewed \union refresh THEN "lookup" ELSE "next")
          /\ UNCHANGED <<healthy, conn, up, offers, faults>>
       \/ /\ Fails(b)
          /\ healthy' = healthy \ {b}
          /\ Goto(t, "next")
    /\ UNCHANGED <<registered, index, locked, taskVars, historyVars, mode, jobs>>

\* The handle is removed from the map, under its lock alone.
Unregister(t) ==
    /\ pc[t] = "idle" /\ t # Monitor /\ "unregister" \in Jobs
    /\ jobs < MaxJobs /\ jobs' = jobs + 1
    /\ \E b \in registered :
         /\ registered' = registered \ {b}
         /\ healthy' = healthy \ {b}
         /\ target' = [target EXCEPT ![t] = b]
    /\ job' = [job EXCEPT ![t] = "unregister"]
    /\ Goto(t, "retain")
    /\ UNCHANGED <<index, locked, name, todo, listing, backendVars, historyVars, mode, faults>>

\* MUTANT of Retain: the tools stay.
RetainAll(t) ==
    /\ pc[t] = "retain"
    /\ locked = NoTask
    /\ Overlap(target[t], Task)
    /\ locked' = t
    /\ Goto(t, "disconnect")
    /\ UNCHANGED <<registered, healthy, index, taskVars, backendVars, unlisted, fixedVars>>

\* Its tools go; the write lock of the index is kept while the backend
\* disconnects.
Retain(t) ==
    /\ pc[t] = "retain"
    /\ locked = NoTask
    /\ index' = Owned(target[t], {})
    /\ Overlap(target[t], Task)
    /\ locked' = t
    /\ Goto(t, "disconnect")
    /\ UNCHANGED <<registered, healthy, taskVars, backendVars, unlisted, fixedVars>>

-----------------------------------------------------------------------------
(* The backends: one goes down, with or without its connection; it comes   *)
(* back, maybe with other tools.                                           *)

GoesDown(b) ==
    /\ b \in up
    /\ Fault
    /\ up' = up \ {b}
    /\ conn' \in {conn, conn \ {b}}
    /\ renewed' = renewed \ {b}
    /\ UNCHANGED <<registryVars, pc, taskVars, offers, refresh, historyVars, mode, jobs>>

ComesUp(b) ==
    /\ b \notin up
    /\ up' = up \union {b}
    /\ \E s \in Offers[b] : offers' = [offers EXCEPT ![b] = s]
    /\ renewed' = IF b \in conn THEN renewed \union {b} ELSE renewed
    /\ UNCHANGED <<registryVars, pc, taskVars, conn, refresh, historyVars, fixedVars>>

-----------------------------------------------------------------------------

\* The steps that wait for a backend, and those of the task alone.
Awaits(t) ==
    \/ Connect(t) \/ List(t) \/ Disconnect(t) \/ Open(t) \/ CallTool(t) \/ HealthCheck(t)

Computes(t) == Lookup(t) \/ Index(t) \/ Route(t) \/ NextBackend(t) \/ Retain(t)

Proceed(t) == Awaits(t) \/ Computes(t)

Start(t) ==
    \/ StartCall(t) \/ StartConnectAll(t) \/ StartHealthChecks(t) \/ StartRefresh(t)
    \/ Unregister(t)

Next ==
    \/ \E t \in Task : Start(t) \/ Proceed(t) \/ Abandon(t)
    \/ \E b \in Backend : GoesDown(b) \/ ComesUp(b)

Spec == Init /\ [][Next]_vars

\* tokio runs every task that can go on, and the interval ticks.
Scheduling ==
    /\ \A t \in Task : WF_vars(Computes(t))
    /\ WF_vars(StartHealthChecks(Monitor))

\* The assumption that every await of a backend ends.  The requests of an HTTP
\* backend and the answers of a stdio backend have timeouts; a token request and
\* a write to a full pipe have none.
BackendsAnswer == \A t \in Task : WF_vars(Awaits(t))

\* Calls need not be made, nor backends come back.
FairSpec == Spec /\ Scheduling /\ BackendsAnswer

-----------------------------------------------------------------------------
(* Properties.                                                             *)

\* Every variable has its type: the registry's maps and the tasks' locals.
TypeOK ==
    /\ registered \subseteq Backend /\ healthy \subseteq registered
    /\ index \in [Name -> Backend \union {NoBackend}]
    /\ locked \in Task \union {NoTask}
    /\ pc \in [Task -> Location] /\ job \in [Task -> Kind]
    /\ target \in [Task -> Backend \union {NoBackend}] /\ name \in [Task -> Name]
    /\ todo \in [Task -> SUBSET Backend] /\ listing \in [Task -> SUBSET Name]
    /\ conn \subseteq Backend /\ up \subseteq Backend
    /\ offers \in [Backend -> SUBSET Name]
    /\ renewed \subseteq conn /\ refresh \subseteq Backend
    /\ overlapped \subseteq Backend /\ unlisted \subseteq Backend
    /\ mode \in Modes /\ jobs \in 0 .. MaxJobs /\ faults \in 0 .. MaxFaults

\* Backends whose handle is gone and whose tools are about to go.
Removing == {target[t] : t \in {u \in Task : pc[u] = "retain"}}

\* "Remove a backend and all its tools": once unregister has passed the index,
\* a tool of a backend that is no longer registered can only be there if a
\* connect_backend of that backend was under way meanwhile.
NoToolsWithoutBackend ==
    \A n \in Name : index[n] \in registered \union overlapped \union Removing \union {NoBackend}

\* A backend the health loop looks after.
Watched(b) == b \in registered /\ mode[b] # "per_call"

\* Somebody is about to list the tools of b.
ToBeListed(b) ==
    \E t \in Task :
        \/ target[t] = b /\ pc[t] \in Connecting \union {"lookup"}
        \/ b \in todo[t] /\ job[t] = "refresh"

\* A healthy backend whose entries are not what it offers is going to be listed
\* again: it has restarted behind its connection and no request has noticed yet,
\* a request has and the flag is set, or a connect_backend is on its way.  Not
\* so once two tasks have connected it at a time, or a connect_backend that had
\* taken the flag, or emptied the index, has ended early.
StaleToolsAreNoticed ==
    \A b \in healthy :
        (Watched(b) /\ Reachable(b) /\ Entries(b) # offers[b])
            => \/ b \in renewed \union refresh \union overlapped \union unlisted
               \/ ToBeListed(b)

\* Backends that share no name.
NoClash == \A b, c \in Backend : b # c => UNION Offers[b] \intersect UNION Offers[c] = {}

\* Every backend the health loop looks after that can be reached ends up
\* connected and healthy, whatever calls and reconnects do to it meanwhile.
HealthLoopRevives ==
    NoClash => \A b \in Backend : <>[](b \in up /\ Watched(b)) => <>[](b \in healthy /\ Reachable(b))

\* After a restart behind a connection the tools are listed again, so a
\* backend that stays up ends with the tools it offers in the index, unless
\* two tasks have connected it at a time, or a listing of it has failed while
\* it was healthy and none has succeeded since.
IndexCatchesUp ==
    NoClash => \A b \in Backend :
        <>[](b \in up /\ Watched(b) /\ b \notin overlapped \union unlisted)
            => <>[](Entries(b) = offers[b])

\* The health loop brings backends and the index back to what the servers
\* offer, whatever the calls beside it do.
HealthLoopConverges == HealthLoopRevives /\ IndexCatchesUp
=============================================================================
