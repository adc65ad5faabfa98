-------------------------------- MODULE Session --------------------------------
(* The MCP session (mcp-server/src/session.rs) and its HTTP handler           *)
(* (transport-http/src/handlers.rs): requests answered at once, resources     *)
(* that several clients list and read at a time, and events.  tools/call is   *)
(* in Registry, subscriptions/listen in Streams.                              *)
EXTENDS Wire, Policy, FiniteSets

CONSTANTS
    Backends,       \* backends with resources and events: 1 .. Backends, as their ids sort
    Uri, NoUri,
    Task,           \* requests that are handled at a time
    MaxRequests, MaxChanges     \* bounds of the model

ASSUME SessionAssumption ==
    /\ Backends \in Nat /\ NoUri \notin Uri
    /\ MaxRequests \in Nat /\ MaxChanges \in Nat

Backend == 1 .. Backends
NoBackend == 0

VARIABLES
    initialized,    \* one flag for all clients
    owners,         \* URI -> its backend, as of the last listing
    healthy,        \* backends that the registry takes for connected
    offers,         \* backend -> the resources it has
    pc, want,       \* task -> its step; the URI it reads, or NoUri
    todo,           \* task -> the backends it has yet to ask, in the order of their ids
    found,          \* task -> the owners its listing has seen
    exchange,       \* the last request that was answered at once
    requests, changes,
    lost            \* task -> what has not been on offer all the time since it
                    \* started, or since a listing did that it may have read

envVars == <<healthy, offers, changes>>
taskVars == <<pc, want, todo, found, requests>>
vars == <<initialized, owners, envVars, taskVars, exchange, lost>>

NoOwners == [u \in Uri |-> NoBackend]
Everything == Backend \X Uri
OnOffer == {x \in Everything : x[1] \in healthy /\ x[2] \in offers[x[1]]}

-----------------------------------------------------------------------------
(* One request and its answer, over HTTP.                                  *)

Legacy == "legacy"
Current == "2026-07-28"
Version == {Legacy, Current, "unknown"}

\* What a result says of itself and of caching.
Mark == [resultType : {"absent", "complete", "input_required"}, ttlMs : {"absent", "hub's", "backend's"},
         cacheScope : {"absent", "public", "private"}]
Unmarked == [resultType |-> "absent", ttlMs |-> "absent", cacheScope |-> "absent"]

MarkComplete(r) == [r EXCEPT !.resultType = IF @ = "absent" THEN "complete" ELSE @]

Cacheable == {"server/discover", "tools/list", "resources/list", "resources/read"}
MarkCacheable(method, r) ==
    IF method \notin Cacheable \/ r.resultType # "complete" THEN r
    ELSE [r EXCEPT !.ttlMs = IF @ = "absent" THEN "hub's" ELSE @, !.cacheScope = "private"]

Immediate == {"initialize", "server/discover", "tools/list", "subscriptions/listen", "tools/call",
              "resources/read", "prompts/list"}

\* dispatch_request, and listen of handle_streaming before it: why the request
\* is refused, or "none".
CheckVersion(version) == version \in {Legacy, Current}
RequireInitialized(version) == version # Legacy \/ initialized

Refusal(method, version) ==
    IF ~CheckVersion(version) THEN "unsupported version"
    ELSE IF method = "subscriptions/listen" THEN (IF version = Legacy THEN "invalid request" ELSE "none")
    ELSE IF method = "server/discover" \/ (method = "initialize" /\ version = Legacy) THEN "none"
    ELSE IF method \in {"initialize", "prompts/list"} THEN "method not found"
    ELSE IF RequireInitialized(version) THEN "none" ELSE "invalid request"

ModernStatus(version, refusal) ==
    IF version = Legacy THEN 200
    ELSE IF refusal = "unsupported version" THEN 400 ELSE IF refusal = "method not found" THEN 404 ELSE 200

HeaderIgnored(version, header) == TRUE
HeaderAgrees(version, header) == version = Legacy \/ header = version

\* With status 202 an empty body, with 200 a stream of events, as in Streams.
NoReply == [jsonrpc |-> "none"]
Answer(status, reply, result) == [status |-> status, reply |-> reply, result |-> result]

HandleMcp(body, method, version, header, result) ==
    LET m == DecodeValue(body)
        refusal == Refusal(method, version)
    IN IF m.kind = "invalid" THEN Answer(200, Error("null"), Unmarked)
       ELSE IF m.kind # "request" THEN Answer(202, NoReply, Unmarked)
       ELSE IF ~HeaderAgrees(version, header) THEN Answer(400, Error(m.id), Unmarked)
       ELSE IF refusal # "none" THEN Answer(ModernStatus(version, refusal), Error(m.id), Unmarked)
       ELSE IF method = "subscriptions/listen" THEN Answer(200, NoReply, Unmarked)
       ELSE Answer(200, Success(m.id), IF version = Legacy THEN result ELSE MarkCacheable(method, MarkComplete(result)))

Messages ==
    LET all == [jsonrpc : {"absent", "2.0", "string"}, method : {"absent", "string", "null"},
                id : {"absent", "int", "string", "number", "null"},
                result : {"absent", "object"}, error : {"absent", "object", "string"}]
    IN {[f \in {g \in DOMAIN o : o[g] # "absent"} |-> o[f]] : o \in all}
Request == [jsonrpc |-> "2.0", method |-> "string", id |-> "int"]

NoExchange == [body |-> NoReply, method |-> "none", version |-> Legacy, header |-> Legacy, result |-> Unmarked,
               answer |-> Answer(0, NoReply, Unmarked)]

\* The whole of handle_mcp for a request whose handling waits for nothing, or
\* only for a backend's result: the tasks below show what may happen meanwhile.
Post(body, method, version, header, result) ==
    /\ exchange' = [body |-> body, method |-> method, version |-> version, header |-> header, result |-> result,
                    answer |-> HandleMcp(body, method, version, header, result)]
    /\ initialized' = (initialized \/ (method = "initialize" /\ exchange'.answer.reply = Success("int")))
    /\ UNCHANGED <<owners, envVars, taskVars, lost>>

-----------------------------------------------------------------------------
(* Resources.                                                              *)

\* Those with the capability.  They are sorted by id: each loop over them takes
\* the first of those that remain.
BackendsWith == healthy
LastOf(S) == Max(S)
FirstOf(S) == Min(S)

End(t) == pc' = [pc EXCEPT ![t] = "idle"] /\ want' = [want EXCEPT ![t] = NoUri]
Forget(t) == [lost EXCEPT ![t] = {}]

\* resources/list, or resources/read of a URI; the latter lists first if it
\* does not know the owner.
Begin(t, u) ==
    /\ pc[t] = "idle"
    /\ requests < MaxRequests
    /\ requests' = requests + 1
    /\ want' = [want EXCEPT ![t] = u]
    /\ exchange' = NoExchange
    /\ IF u # NoUri /\ owners[u] # NoBackend
         THEN /\ pc' = [pc EXCEPT ![t] = "forward"]
              /\ UNCHANGED <<todo, found, lost>>
         ELSE /\ pc' = [pc EXCEPT ![t] = "list"]
              /\ todo' = [todo EXCEPT ![t] = BackendsWith]
              /\ found' = [found EXCEPT ![t] = NoOwners]
              /\ lost' = [lost EXCEPT ![t] = Everything \ OnOffer]
    /\ UNCHANGED <<initialized, owners, envVars>>

\* A backend that fails to answer is passed over; the first one to list a
\* resource owns it.
AskStops(t) ==
    /\ pc[t] = "list" /\ todo[t] # {}
    /\ \/ /\ todo' = [todo EXCEPT ![t] = @ \ {FirstOf(@)}]
          /\ found' = [found EXCEPT ![t] = [u \in Uri |-> IF @[u] = NoBackend /\ u \in offers[FirstOf(todo[t])]
                                                         THEN FirstOf(todo[t]) ELSE @[u]]]
          /\ UNCHANGED lost
       \/ /\ todo' = [todo EXCEPT ![t] = {}]
          /\ lost' = [lost EXCEPT ![t] = @ \union {x \in Everything : x[1] = FirstOf(todo[t])}]
          /\ UNCHANGED found
    /\ UNCHANGED <<initialized, owners, envVars, pc, want, requests, exchange>>

Ask(t) ==
    /\ pc[t] = "list" /\ todo[t] # {}
    /\ todo' = [todo EXCEPT ![t] = @ \ {FirstOf(@)}]
    /\ \/ /\ found' = [found EXCEPT ![t] = [u \in Uri |-> IF @[u] = NoBackend /\ u \in offers[FirstOf(todo[t])]
                                                         THEN FirstOf(todo[t]) ELSE @[u]]]
          /\ UNCHANGED lost
       \/ /\ lost' = [lost EXCEPT ![t] = @ \union {x \in Everything : x[1] = FirstOf(todo[t])}]
          /\ UNCHANGED found
    /\ UNCHANGED <<initialized, owners, envVars, pc, want, requests, exchange>>

\* The listing replaces the whole map.  A read of another task that has not yet
\* looked its URI up will see this listing instead of its own.
Publish(t) ==
    /\ pc[t] = "list" /\ todo[t] = {}
    /\ owners' = found[t]
    /\ IF want[t] = NoUri THEN End(t) ELSE pc' = [pc EXCEPT ![t] = "lookup"] /\ UNCHANGED want
    /\ lost' = [s \in Task |-> IF s = t THEN (IF want[t] = NoUri THEN {} ELSE lost[t])
                               ELSE IF pc[s] = "lookup" THEN lost[s] \union lost[t] ELSE lost[s]]
    /\ UNCHANGED <<initialized, envVars, todo, found, requests, exchange>>

Lookup(t) ==
    /\ pc[t] = "lookup"
    /\ owners[want[t]] # NoBackend
    /\ pc' = [pc EXCEPT ![t] = "forward"]
    /\ lost' = Forget(t)
    /\ UNCHANGED <<initialized, owners, envVars, want, todo, found, requests, exchange>>

NotFound(t) ==
    /\ pc[t] = "lookup"
    /\ owners[want[t]] = NoBackend
    /\ End(t)
    /\ lost' = Forget(t)
    /\ UNCHANGED <<initialized, owners, envVars, todo, found, requests, exchange>>

Return(t) ==
    /\ pc[t] = "forward"
    /\ End(t)
    /\ UNCHANGED <<initialized, owners, envVars, todo, found, requests, exchange, lost>>

\* A client goes away: its handler is dropped where it waits for a backend.
Cancel(t) ==
    /\ pc[t] = "list" /\ todo[t] # {}
    /\ End(t)
    /\ todo' = [todo EXCEPT ![t] = {}]
    /\ lost' = Forget(t)
    /\ UNCHANGED <<initialized, owners, envVars, found, requests, exchange>>

Change ==
    /\ requests > 0 /\ changes < MaxChanges
    /\ changes' = changes + 1
    /\ \/ \E b \in Backend : healthy' = (healthy \ {b}) \union ({b} \ healthy) /\ UNCHANGED offers
       \/ \E b \in Backend, S \in SUBSET Uri : offers' = [offers EXCEPT ![b] = S] /\ UNCHANGED healthy
    /\ lost' = [t \in Task |-> IF pc[t] \in {"list", "lookup"} THEN lost[t] \union (Everything \ OnOffer') ELSE lost[t]]
    /\ UNCHANGED <<initialized, owners, taskVars, exchange>>

-----------------------------------------------------------------------------
(* Events: backends with the capability are tried in order of their ids.    *)

ForwardEventRequest(namespaces, name) ==
    LET may == {b \in BackendsWith : namespaces[b] = <<>> \/ HasPrefix(namespaces[b], name)}
    IN IF may = {} THEN <<>> ELSE <<FirstOf(may), Stripped(namespaces[FirstOf(may)], name)>>

-----------------------------------------------------------------------------

Init ==
    /\ initialized = FALSE
    /\ owners = NoOwners
    /\ healthy \in SUBSET Backend /\ offers \in [Backend -> SUBSET Uri]
    /\ pc = [t \in Task |-> "idle"] /\ want = [t \in Task |-> NoUri]
    /\ todo = [t \in Task |-> {}] /\ found = [t \in Task |-> NoOwners]
    /\ exchange = NoExchange
    /\ requests = 0 /\ changes = 0
    /\ lost = [t \in Task |-> {}]

HandleTask(t) == Ask(t) \/ Publish(t) \/ Lookup(t) \/ NotFound(t) \/ Return(t) \/ Cancel(t)

\* Exchanges share nothing with the tasks and, but for the flag that initialize
\* sets, with each other: they need not overlap.
Exchange ==
    /\ requests = 0
    /\ exchange = NoExchange \/ exchange.method = "initialize"
    /\ \/ \E body \in Messages : Post(body, "tools/list", Legacy, Legacy, Unmarked)
       \/ \E method \in Immediate, version \in Version, header \in Version, result \in Mark :
            /\ result = Unmarked \/ method \in {"tools/call", "resources/read"}
            /\ Post(Request, method, version, header, result)

Next ==
    \/ \E t \in Task : HandleTask(t) \/ \E u \in Uri \union {NoUri} : Begin(t, u)
    \/ Exchange
    \/ Change

Spec == Init /\ [][Next]_vars

-----------------------------------------------------------------------------
(* Properties.                                                             *)

\* Every variable has its type; a resource belongs to a backend before all that
\* are yet to be asked, so that two listings of the same offers agree on the owners.
TypeOK ==
    /\ initialized \in BOOLEAN
    /\ owners \in [Uri -> Backend \union {NoBackend}]
    /\ healthy \subseteq Backend /\ offers \in [Backend -> SUBSET Uri]
    /\ pc \in [Task -> {"idle", "list", "lookup", "forward"}]
    /\ want \in [Task -> Uri \union {NoUri}]
    /\ \A t \in Task : pc[t] \in {"lookup", "forward"} => want[t] # NoUri
    /\ todo \in [Task -> SUBSET Backend]
    /\ found \in [Task -> [Uri -> Backend \union {NoBackend}]]
    /\ \A t \in Task, u \in Uri : \A b \in todo[t] : found[t][u] < b
    /\ exchange.answer.status \in {0, 200, 202, 400, 404}
    /\ requests \in 0 .. MaxRequests /\ changes \in 0 .. MaxChanges
    /\ lost \in [Task -> SUBSET Everything]

\* A resource is answered "not found" only if no backend had it on offer, and
\* answered for it, all the time since the read began or since the beginning of
\* a listing of another client that replaced the owners after the read's own.
NotFoundIsTrue ==
    [][\A t \in Task : pc[t] = "lookup" /\ pc'[t] = "idle" =>
          \A b \in Backend : <<b, want[t]>> \in lost[t]]_vars

\* A message is answered the way its shape calls for, in words its sender can
\* decode: a request once and under its own id, or with a stream, a notification or a response not
\* at all, and whatever is none of these with an error whose id is null.  Only
\* requests of the 2026-07-28 revision see other statuses than 200, and their
\* header must agree with their body.
IsRequest(o) == Field(o, "jsonrpc") = "2.0" /\ Field(o, "method") = "string" /\ Field(o, "id") \in {"int", "string"}
IsOneWay(o) ==
    Field(o, "jsonrpc") = "2.0" /\
    \/ Field(o, "method") = "string" /\ "id" \notin DOMAIN o
    \/ /\ "method" \notin DOMAIN o
       /\ \/ "result" \in DOMAIN o /\ "error" \notin DOMAIN o /\ Field(o, "id") \in {"int", "string"}
          \/ "result" \notin DOMAIN o /\ Field(o, "error") = "object" /\ Field(o, "id") \in {"int", "string", "null"}

ReplyFitsItsMessage ==
    exchange # NoExchange =>
        LET body == exchange.body
            answer == exchange.answer
            decoded == DecodeValue(answer.reply)
            stream == answer.status = 200 /\ answer.reply = NoReply
        IN /\ stream => IsRequest(body) /\ exchange.method = "subscriptions/listen" /\ exchange.version = exchange.header
           /\ IsRequest(body) /\ ~stream => decoded.id = body.id /\ decoded.kind \in {"success", "error"}
           /\ IsOneWay(body) <=> answer.status = 202 /\ answer.reply = NoReply
           /\ ~IsRequest(body) /\ ~IsOneWay(body) => decoded = [kind |-> "error", id |-> "null"]
           /\ answer.status \in {400, 404} => exchange.version # Legacy /\ decoded.kind = "error"
           /\ decoded.kind = "success" => exchange.version \in {Legacy, exchange.header}

\* "Each expose port has its own token and tool set, so a shared cache could
\* leak it": no complete result of a cacheable method leaves the hub for a
\* client of the 2026-07-28 revision with a scope other than private, whatever
\* the backend said, and none without a lifetime; interim results gain no hints.
CacheIsPrivate ==
    LET sent == exchange.answer.result IN
    exchange.version # Legacy /\ exchange.answer.status = 200 /\ exchange.answer.reply = Success("int") =>
        /\ sent.resultType # "absent"
        /\ IF exchange.method \in Cacheable /\ sent.resultType = "complete"
             THEN sent.cacheScope = "private" /\ sent.ttlMs # "absent"
             ELSE [sent EXCEPT !.resultType = exchange.result.resultType] = exchange.result

\* Whatever is posted to /mcp, the answer has the shape and the status the message
\* calls for, and what it lets others keep is nobody else's.
AnswersAreFit == ReplyFitsItsMessage /\ CacheIsPrivate

\* If namespaces have no dots and are all different, the name events/list shows
\* for an event leads to the backend that owns it, under the event's own name,
\* and to no other backend while that one is away.
EventReachesItsOwner ==
    \A namespaces \in [Backend -> Namespace] :
        /\ \A b \in Backend : Len(namespaces[b]) = 1
        /\ \A a, b \in Backend : namespaces[a] = namespaces[b] => a = b
        => \A b \in Backend, event \in Tool :
              ForwardEventRequest(namespaces, ComputeExposedName(namespaces[b], event)) =
                  IF b \in healthy THEN <<b, event>> ELSE <<>>

\* A name that one interface of the hub shows leads, in the others too, to the
\* backend it was shown for: that of an event, and that of a tool called by
\* `headless-mcp call` without the hub's index.
NamesLeadToOwners == EventReachesItsOwner /\ OneShotFindsTheListed
==============================================================================
