--------------------------- MODULE HttpSessionProofs ---------------------------
(* What holds of the HTTP backend's session for every set of tasks, every    *)
(* server and any number of sessions, crashes and faults.                    *)
EXTENDS HttpSession, TLAPS

Phase == {"job", "connect", "reinit"}

BackendTypes ==
    /\ connected \in BOOLEAN /\ refresh \in BOOLEAN
    /\ indexed \in BOOLEAN /\ healthy \in BOOLEAN
    /\ sid \in AnySession
    /\ epoch \in Nat
    /\ reinit \in Task \union {NoTask}

TaskTypes ==
    /\ pc \in [Task -> Location]
    /\ job \in [Task -> {"call", "list", "check"}]
    /\ phase \in [Task -> Phase]
    /\ attempt \in [Task -> 1 .. 2]
    /\ authed \in [Task -> BOOLEAN]
    /\ seen \in [Task -> Nat]
    /\ sent \in [Task -> AnySession]
    /\ stale \in [Task -> AnySession]
    /\ reply \in [Task -> Reply]

ServerTypes ==
    /\ style \in Styles
    /\ up \in BOOLEAN
    /\ known \subseteq 1 .. issued
    /\ issued \in AnySession

HistoryTypes ==
    /\ trouble \in [Task -> 0 .. 2]
    /\ denied \subseteq Task
    /\ collided \in BOOLEAN
    /\ reinits \in Nat
    /\ orphaned \in BOOLEAN
    /\ crashes \in 0 .. MaxCrashes
    /\ faults \in 0 .. MaxFaults

LEMMA TypeParts == TypeOK <=> BackendTypes /\ TaskTypes /\ ServerTypes /\ HistoryTypes
  BY DEF TypeOK, BackendTypes, TaskTypes, ServerTypes, HistoryTypes, Phase

LEMMA TypePartsNext == BackendTypes' /\ TaskTypes' /\ ServerTypes' /\ HistoryTypes' => TypeOK'
  BY DEF TypeOK, BackendTypes, TaskTypes, ServerTypes, HistoryTypes, Phase

-----------------------------------------------------------------------------
(* What the helpers keep.                                                  *)

LEMMA Sessions ==
    /\ NoSession \in AnySession /\ NoReply \in Reply
    /\ \A k \in {"http_404", "not_initialized", "refused", "unauthorized", "unreachable"} :
           Only(k) \in Reply /\ Only(k).kind = k /\ Only(k).session = NoSession
    /\ \A s \in AnySession : [kind |-> "ok", session |-> s] \in Reply
    /\ \A r \in Reply : r.session \in AnySession
    /\ NoReply.kind = "none" /\ NoReply.session = NoSession
  BY ConstantsAssumption DEF NoReply, Only, Reply, AnySession, NoSession

LEMMA GotoType ==
    ASSUME TypeOK, NEW t \in Task, NEW where \in Location, Goto(t, where)
    PROVE  /\ pc' \in [Task -> Location]
           /\ pc'[t] = where /\ \A u \in Task \ {t} : pc'[u] = pc[u]
  BY DEF Goto, TypeOK

LEMMA BeginType ==
    ASSUME TypeOK, NEW t \in Task, NEW what \in Phase, Begin(t, what)
    PROVE  /\ phase' \in [Task -> Phase] /\ phase'[t] = what
           /\ authed' \in [Task -> BOOLEAN] /\ authed'[t] = FALSE
           /\ sent' \in [Task -> AnySession] /\ sent'[t] = NoSession
           /\ reply' \in [Task -> Reply] /\ reply'[t] = NoReply
           /\ pc' \in [Task -> Location] /\ pc'[t] = "send"
           /\ \A u \in Task \ {t} :
                /\ phase'[u] = phase[u] /\ authed'[u] = authed[u] /\ sent'[u] = sent[u]
                /\ reply'[u] = reply[u] /\ pc'[u] = pc[u]
  <1>1. "send" \in Location
    BY DEF Location
  <1>2. pc' \in [Task -> Location] /\ pc'[t] = "send" /\ \A u \in Task \ {t} : pc'[u] = pc[u]
    BY <1>1, GotoType DEF Begin
  <1> QED BY <1>2, Sessions DEF Begin, TypeOK, Phase

LEMMA ForgetType ==
    ASSUME TypeOK, NEW t \in Task, Forget(t)
    PROVE  /\ job' \in [Task -> {"call", "list", "check"}]
           /\ attempt' \in [Task -> 1 .. 2] /\ attempt'[t] = 1
           /\ seen' \in [Task -> Nat] /\ seen'[t] = 0
           /\ authed' \in [Task -> BOOLEAN] /\ authed'[t] = FALSE
           /\ phase' \in [Task -> Phase] /\ phase'[t] = "job"
           /\ sent' \in [Task -> AnySession] /\ sent'[t] = NoSession
           /\ reply' \in [Task -> Reply] /\ reply'[t] = NoReply
           /\ \A u \in Task \ {t} :
                /\ phase'[u] = phase[u] /\ authed'[u] = authed[u] /\ sent'[u] = sent[u]
                /\ reply'[u] = reply[u] /\ attempt'[u] = attempt[u] /\ seen'[u] = seen[u]
  <1>1. /\ job' \in [Task -> {"call", "list", "check"}]
        /\ attempt' \in [Task -> 1 .. 2] /\ attempt'[t] = 1
        /\ seen' \in [Task -> Nat] /\ seen'[t] = 0
        /\ \A u \in Task \ {t} : attempt'[u] = attempt[u] /\ seen'[u] = seen[u]
    BY DEF Forget, TypeOK
  <1>2. /\ authed' \in [Task -> BOOLEAN] /\ authed'[t] = FALSE
        /\ phase' \in [Task -> Phase] /\ phase'[t] = "job"
        /\ \A u \in Task \ {t} : phase'[u] = phase[u] /\ authed'[u] = authed[u]
    BY DEF Forget, TypeOK, Phase
  <1>3. /\ sent' \in [Task -> AnySession] /\ sent'[t] = NoSession
        /\ reply' \in [Task -> Reply] /\ reply'[t] = NoReply
        /\ \A u \in Task \ {t} : sent'[u] = sent[u] /\ reply'[u] = reply[u]
    BY Sessions DEF Forget, TypeOK
  <1> QED BY <1>1, <1>2, <1>3

LEMMA FinishType ==
    ASSUME TypeOK, NEW t \in Task, NEW ok \in BOOLEAN, Finish(t, ok)
    PROVE  /\ pc' \in [Task -> Location] /\ pc'[t] \in {"idle", "connect"}
           /\ pc'[t] = "connect" => ok
           /\ refresh' \in BOOLEAN /\ indexed' \in BOOLEAN /\ healthy' \in BOOLEAN
           /\ indexed' = (indexed \/ (job[t] = "list" /\ ok))
           /\ healthy' => healthy \/ (job[t] = "list" /\ ok)
           /\ denied' \subseteq Task
           /\ denied' = (IF ok \/ trouble[t] = 2 THEN denied ELSE denied \union {t})
           /\ job' \in [Task -> {"call", "list", "check"}]
           /\ attempt' \in [Task -> 1 .. 2] /\ attempt'[t] = 1
           /\ seen' \in [Task -> Nat] /\ seen'[t] = 0
           /\ authed' \in [Task -> BOOLEAN] /\ authed'[t] = FALSE
           /\ phase' \in [Task -> Phase] /\ phase'[t] = "job"
           /\ sent' \in [Task -> AnySession] /\ sent'[t] = NoSession
           /\ reply' \in [Task -> Reply] /\ reply'[t] = NoReply
           /\ \A u \in Task \ {t} :
                /\ pc'[u] = pc[u] /\ phase'[u] = phase[u] /\ authed'[u] = authed[u]
                /\ sent'[u] = sent[u] /\ reply'[u] = reply[u] /\ attempt'[u] = attempt[u]
                /\ seen'[u] = seen[u]
  <1>1. {"idle", "connect"} \subseteq Location
    BY DEF Location
  <1>2. pc' \in [Task -> Location] /\ pc'[t] \in {"idle", "connect"} /\ \A u \in Task \ {t} : pc'[u] = pc[u]
    BY <1>1 DEF Finish, Goto, TypeOK
  <1>3. pc'[t] = "connect" => ok
    BY DEF Finish, Goto, TypeOK
  <1>4. /\ refresh' \in BOOLEAN /\ indexed' \in BOOLEAN /\ healthy' \in BOOLEAN
        /\ indexed' = (indexed \/ (job[t] = "list" /\ ok))
        /\ healthy' => healthy \/ (job[t] = "list" /\ ok)
    BY DEF Finish, TypeOK
  <1>5. /\ denied' \subseteq Task
        /\ denied' = (IF ok \/ trouble[t] = 2 THEN denied ELSE denied \union {t})
    BY DEF Finish, TypeOK
  <1>6. Forget(t)
    BY DEF Finish
  <1> QED BY <1>2, <1>3, <1>4, <1>5, <1>6, ForgetType, ZenonT(40)

LEMMA PendingType == TypeOK => PendingLosses \in 0 .. 2
  BY DEF PendingLosses

LEMMA DisturbedType ==
    ASSUME TypeOK, NEW n \in {1, 2}, Disturbed(n)
    PROVE  /\ trouble' \in [Task -> 0 .. 2]
           /\ \A u \in Task : pc[u] # "idle" =>
                trouble'[u] = 2 \/ (n = 1 /\ trouble'[u] = trouble[u] + 1)
  BY DEF Disturbed, TypeOK

LEMMA FaultType ==
    ASSUME TypeOK, NEW kind, Fault(kind)
    PROVE  /\ faults' \in 0 .. MaxFaults
           /\ trouble' \in [Task -> 0 .. 2]
           /\ \A u \in Task : pc[u] # "idle" => trouble'[u] = 2
  <1>1. faults' \in 0 .. MaxFaults
    BY ConstantsAssumption DEF Fault, TypeOK
  <1> QED BY <1>1, DisturbedType DEF Fault

LEMMA ServerAnswerType ==
    ASSUME TypeOK, NEW t \in Task, Opens(t) => issued < MaxSessions
    PROVE  ServerAnswer(t) \in Reply
  <1>1. style.gone \in {"http_404", "not_initialized"} /\ style.missing \in {"not_initialized", "refused"}
    BY ConstantsAssumption DEF TypeOK, Style
  <1>2. issued < MaxSessions => issued + 1 \in AnySession
    BY ConstantsAssumption DEF TypeOK, AnySession
  <1>3. sent[t] \in AnySession /\ (IF style.echo THEN sent[t] ELSE NoSession) \in AnySession
    BY Sessions DEF TypeOK
  <1>4. CASE phase[t] = "job"
    BY <1>1, <1>3, <1>4, Sessions DEF ServerAnswer
  <1>5. CASE phase[t] # "job" /\ style.strict /\ sent[t] \notin known \union {NoSession}
    BY <1>1, <1>5, Sessions DEF ServerAnswer
  <1>6. CASE phase[t] # "job" /\ ~(style.strict /\ sent[t] \notin known \union {NoSession})
    <2>1. ServerAnswer(t) = [kind |-> "ok", session |-> issued + 1]
      BY <1>6 DEF ServerAnswer
    <2>2. Opens(t)
      BY <1>6, <2>1 DEF Opens
    <2> QED BY <1>2, <2>1, <2>2, Sessions
  <1> QED BY <1>4, <1>5, <1>6

LEMMA CaptureType ==
    ASSUME TypeOK, NEW t \in Task, Capture(t)
    PROVE  sid' \in AnySession
  BY Sessions DEF Capture, TypeOK

-----------------------------------------------------------------------------
(* Types.                                                                  *)

LEMMA InitType == Init => TypeOK
  <1> SUFFICES ASSUME Init PROVE TypeOK
    OBVIOUS
  <1>1. PICK how \in Startup : StartedUp(how)
    BY DEF Init
  <1>2. connected \in BOOLEAN /\ indexed \in BOOLEAN /\ healthy \in BOOLEAN /\ up \in BOOLEAN
    <2>1. up \in IF how = "connected" THEN {TRUE} ELSE BOOLEAN
      BY <1>1 DEF StartedUp
    <2> QED BY <1>1, <2>1 DEF StartedUp
  <1>3. sid \in AnySession /\ issued \in AnySession /\ known \subseteq 1 .. issued
    BY <1>1, ConstantsAssumption DEF StartedUp, AnySession, NoSession
  <1>5. BackendTypes
    BY <1>2, <1>3 DEF Init, BackendTypes, NoSession
  <1>6. TaskTypes
    BY Sessions DEF Init, TaskTypes, Location, Phase
  <1>7. ServerTypes
    BY <1>2, <1>3 DEF Init, ServerTypes
  <1>8. HistoryTypes
    <2>1. trouble \in [Task -> 0 .. 2]
      BY DEF Init
    <2>2. denied \subseteq Task /\ collided \in BOOLEAN /\ orphaned \in BOOLEAN
      BY DEF Init
    <2> QED BY <2>2, <2>1, ConstantsAssumption DEF Init, HistoryTypes
  <1> QED BY <1>5, <1>6, <1>7, <1>8, TypeParts

LEMMA ArriveType ==
    ASSUME TypeOK, NEW t \in Task, Arrive(t)
    PROVE  TypeOK'
  <1>1. PICK what \in {"call", "list", "check"}, where \in {"idle", "disconnect", "connect", "start"} :
          StartJob(t, what, where)
    <2>1. CASE CallTool(t)
      BY <2>1 DEF CallTool
    <2>2. CASE ReconnectOnCall(t)
      BY <2>2 DEF ReconnectOnCall
    <2>3. CASE HealthCheck(t)
      BY <2>3 DEF HealthCheck
    <2> QED BY <2>1, <2>2, <2>3 DEF Arrive
  <1>2. TaskTypes' /\ ServerTypes' /\ HistoryTypes'
    <2>1. pc' \in [Task -> Location]
      BY <1>1, GotoType DEF StartJob, Location
    <2>2. job' \in [Task -> {"call", "list", "check"}]
      BY <1>1 DEF StartJob, TypeOK
    <2>3. trouble' \in [Task -> 0 .. 2]
      BY <1>1, PendingType DEF StartJob, TypeOK
    <2> QED BY <1>1, <2>1, <2>2, <2>3
            DEF StartJob, TypeOK, TaskTypes, ServerTypes, HistoryTypes, requestVars, serverVars,
                Phase
  <1>3. BackendTypes'
    BY DEF Arrive, CallTool, ReconnectOnCall, HealthCheck, BackendTypes, TypeOK, backendVars,
           registryVars
  <1> QED BY <1>2, <1>3, TypePartsNext

LEMMA StepType ==
    ASSUME TypeOK, NEW t \in Task, Step(t) \/ Serve(t) \/ Unauthorized(t)
    PROVE  TypeOK'
  <1> USE DEF backendVars, registryVars, requestVars, jobVars, serverVars, historyVars
  <1>0. BackendTypes /\ TaskTypes /\ ServerTypes /\ HistoryTypes
    BY TypeParts
  <1>1. CASE Disconnect(t)
    <2>1. pc' \in [Task -> Location]
      BY <1>1, GotoType DEF Disconnect, Location
    <2> QED BY <1>0, <1>1, <2>1, TypePartsNext
            DEF Disconnect, Collides, BackendTypes, TaskTypes, ServerTypes, HistoryTypes
  <1>2. CASE Connect(t)
    <2>1. pc' \in [Task -> Location]
      BY <1>2, GotoType, BeginType DEF Connect, Location, Phase
    <2>2. /\ phase' \in [Task -> Phase] /\ authed' \in [Task -> BOOLEAN]
          /\ sent' \in [Task -> AnySession] /\ reply' \in [Task -> Reply]
      BY <1>0, <1>2, BeginType DEF Connect, TaskTypes, Phase
    <2>3. collided' \in BOOLEAN
      BY <1>0, <1>2 DEF Connect, Collides, HistoryTypes
    <2> QED BY <1>0, <1>2, <2>1, <2>2, <2>3, TypePartsNext
            DEF Connect, BackendTypes, TaskTypes, ServerTypes, HistoryTypes
  <1>3. CASE LoadEpoch(t)
    <2>1. Begin(t, "job")
      BY <1>3 DEF LoadEpoch
    <2>2. seen' \in [Task -> Nat] /\ attempt' \in [Task -> 1 .. 2]
      BY <1>0, <1>3 DEF LoadEpoch, BackendTypes, TaskTypes
    <2>3. TaskTypes'
      BY <1>0, <1>3, <2>1, <2>2, BeginType DEF LoadEpoch, TaskTypes, Phase
    <2> QED BY <1>0, <1>3, <2>3, TypePartsNext
            DEF LoadEpoch, BackendTypes, ServerTypes, HistoryTypes
  <1>4. CASE Send(t)
    <2>1. pc' \in [Task -> Location]
      BY <1>4, GotoType DEF Send, Location
    <2> QED BY <1>0, <1>4, <2>1, TypePartsNext
            DEF Send, BackendTypes, TaskTypes, ServerTypes, HistoryTypes
  <1>5. CASE Serve(t)
    <2>1. pc' \in [Task -> Location]
      BY <1>5, GotoType DEF Serve, Location
    <2>2. trouble' \in [Task -> 0 .. 2] /\ faults' \in 0 .. MaxFaults
      BY <1>0, <1>5, FaultType, DisturbedType DEF Serve, HistoryTypes
    <2>3. reply' \in [Task -> Reply]
      BY <1>0, <1>5, ServerAnswerType, Sessions DEF Serve, TaskTypes
    <2>4. issued' \in AnySession /\ known' \subseteq 1 .. issued'
      BY <1>0, <1>5, ConstantsAssumption DEF Serve, ServerTypes, AnySession
    <2> QED BY <1>0, <1>5, <2>1, <2>2, <2>3, <2>4, TypePartsNext
            DEF Serve, BackendTypes, TaskTypes, ServerTypes, HistoryTypes
  <1>6. CASE Unauthorized(t)
    <2>1. pc' \in [Task -> Location] /\ trouble' \in [Task -> 0 .. 2] /\ faults' \in 0 .. MaxFaults
      BY <1>6, GotoType, FaultType DEF Unauthorized, Location
    <2>2. reply' \in [Task -> Reply]
      BY <1>0, <1>6, Sessions DEF Unauthorized, TaskTypes
    <2> QED BY <1>0, <1>6, <2>1, <2>2, TypePartsNext
            DEF Unauthorized, BackendTypes, TaskTypes, ServerTypes, HistoryTypes
  <1>7. CASE JobDone(t)
    <2>1. Finish(t, reply[t].kind = "ok") /\ sid' \in AnySession
      BY <1>7, CaptureType DEF JobDone
    <2>2. BackendTypes' /\ TaskTypes' /\ ServerTypes'
      BY <1>0, <1>7, <2>1, FinishType DEF JobDone, BackendTypes, TaskTypes, ServerTypes
    <2>3. PendingLosses' \in 0 .. 2
      BY DEF PendingLosses
    <2>4. HistoryTypes'
      <3>1. denied' \subseteq Task
        BY <2>1, FinishType
      <3>2. trouble' \in [Task -> 0 .. 2]
        BY <1>0, <1>7, <2>3 DEF JobDone, HistoryTypes
      <3> QED BY <1>0, <1>7, <3>1, <3>2 DEF JobDone, HistoryTypes
    <2> QED BY <2>2, <2>4, TypePartsNext
  <1>8. CASE JobLostSession(t)
    <2>1. pc' \in [Task -> Location] /\ sid' \in AnySession
      BY <1>8, GotoType, CaptureType DEF JobLostSession, Location
    <2> QED BY <1>0, <1>8, <2>1, TypePartsNext
            DEF JobLostSession, BackendTypes, TaskTypes, ServerTypes, HistoryTypes
  <1>9. CASE AcquireToken(t)
    <2>1. pc' \in [Task -> Location]
      BY <1>9, GotoType DEF AcquireToken, Location
    <2> QED BY <1>0, <1>9, <2>1, TypePartsNext
            DEF AcquireToken, BackendTypes, TaskTypes, ServerTypes, HistoryTypes
  <1>10. CASE TokenAcquired(t)
    <2>1. pc' \in [Task -> Location]
      BY <1>10, GotoType DEF TokenAcquired, Location
    <2>2. trouble' \in [Task -> 0 .. 2] /\ faults' \in 0 .. MaxFaults
      BY <1>0, <1>10, FaultType DEF TokenAcquired, HistoryTypes
    <2>3. reply' \in [Task -> Reply] /\ authed' \in [Task -> BOOLEAN]
      BY <1>0, <1>10, Sessions DEF TokenAcquired, TaskTypes
    <2> QED BY <1>0, <1>10, <2>1, <2>2, <2>3, TypePartsNext
            DEF TokenAcquired, BackendTypes, TaskTypes, ServerTypes, HistoryTypes
  <1>11. CASE Reinitialize(t)
    <2>1. Begin(t, "job") \/ Begin(t, "reinit")
      BY <1>11 DEF Reinitialize
    <2>2. sid' \in AnySession /\ reinit' \in Task \union {NoTask}
      BY <1>0, <1>11, Sessions DEF Reinitialize, BackendTypes
    <2>3. stale' \in [Task -> AnySession] /\ attempt' \in [Task -> 1 .. 2]
      BY <1>0, <1>11 DEF Reinitialize, BackendTypes, TaskTypes
    <2>4. trouble' \in [Task -> 0 .. 2]
      BY <1>0, <1>11 DEF Reinitialize, Displaced, HistoryTypes
    <2> QED BY <1>0, <1>11, <2>1, <2>2, <2>3, <2>4, BeginType, TypePartsNext
            DEF Reinitialize, BackendTypes, TaskTypes, ServerTypes, HistoryTypes, Phase
  <1>12. CASE Initialized(t)
    <2>1. pc' \in [Task -> Location] /\ sid' \in AnySession /\ collided' \in BOOLEAN
      BY <1>0, <1>12, GotoType, CaptureType DEF Initialized, Location, Collides, HistoryTypes
    <2> QED BY <1>0, <1>12, <2>1, TypePartsNext
            DEF Initialized, BackendTypes, TaskTypes, ServerTypes, HistoryTypes
  <1>13. CASE HandshakeDone(t)
    <2>1. pc' \in [Task -> Location]
      BY <1>13, GotoType, BeginType DEF HandshakeDone, Location, Phase
    <2>2. /\ phase' \in [Task -> Phase] /\ authed' \in [Task -> BOOLEAN]
          /\ sent' \in [Task -> AnySession] /\ reply' \in [Task -> Reply]
      BY <1>0, <1>13, BeginType DEF HandshakeDone, TaskTypes, Phase
    <2>3. stale' \in [Task -> AnySession] /\ attempt' \in [Task -> 1 .. 2]
      BY <1>0, <1>13, Sessions DEF HandshakeDone, TaskTypes
    <2>4. /\ reinits' \in Nat /\ epoch' \in Nat /\ reinit' \in Task \union {NoTask}
          /\ refresh' \in BOOLEAN /\ connected' \in BOOLEAN
      <3>1. CASE phase[t] = "reinit"
        BY <1>0, <1>13, <3>1 DEF HandshakeDone, BackendTypes, HistoryTypes
      <3>2. CASE phase[t] # "reinit"
        BY <1>0, <1>13, <3>2 DEF HandshakeDone, BackendTypes, HistoryTypes
      <3> QED BY <3>1, <3>2
    <2> QED BY <1>0, <1>13, <2>1, <2>2, <2>3, <2>4, TypePartsNext
            DEF HandshakeDone, BackendTypes, TaskTypes, ServerTypes, HistoryTypes
  <1>14. CASE HandshakeFailed(t)
    <2>1. Finish(t, FALSE)
      BY <1>14 DEF HandshakeFailed
    <2>2. sid' \in AnySession /\ stale' \in [Task -> AnySession] /\ epoch' \in Nat
          /\ reinit' \in Task \union {NoTask} /\ trouble' \in [Task -> 0 .. 2]
      BY <1>0, <1>14, Sessions DEF HandshakeFailed, BackendTypes, TaskTypes, HistoryTypes
    <2> QED BY <1>0, <1>14, <2>1, <2>2, FinishType, TypePartsNext
            DEF HandshakeFailed, BackendTypes, TaskTypes, ServerTypes, HistoryTypes
  <1> QED BY <1>1, <1>2, <1>3, <1>4, <1>5, <1>6, <1>7, <1>8, <1>9, <1>10, <1>11, <1>12, <1>13, <1>14
          DEF Step, Proceed

LEMMA AbandonType ==
    ASSUME TypeOK, NEW t \in Task, Abandon(t)
    PROVE  TypeOK'
  <1>1. BackendTypes /\ TaskTypes /\ ServerTypes /\ HistoryTypes
    BY TypeParts
  <1>2. pc' \in [Task -> Location]
    BY GotoType DEF Abandon, Location
  <1>3. TaskTypes'
    <2>1. stale' \in [Task -> AnySession]
      BY <1>1, Sessions DEF Abandon, TaskTypes
    <2> QED BY <1>2, <2>1, ForgetType DEF Abandon, TaskTypes
  <1>4. BackendTypes'
    BY <1>1 DEF Abandon, BackendTypes, registryVars
  <1>5. HistoryTypes'
    <2>1. trouble' \in [Task -> 0 .. 2] /\ faults' \in 0 .. MaxFaults
      BY <1>1, ConstantsAssumption DEF Abandon, HistoryTypes
    <2> QED BY <1>1, <2>1 DEF Abandon, HistoryTypes
  <1> QED BY <1>1, <1>3, <1>4, <1>5, TypePartsNext DEF Abandon, ServerTypes, serverVars

LEMMA NextType == TypeOK /\ [Next]_vars => TypeOK'
  <1> SUFFICES ASSUME TypeOK, [Next]_vars PROVE TypeOK'
    OBVIOUS
  <1>1. CASE ServerCrash \/ ServerStart
    <2>1. trouble' \in [Task -> 0 .. 2] /\ crashes' \in 0 .. MaxCrashes
      BY <1>1, DisturbedType, ConstantsAssumption DEF ServerCrash, ServerStart, historyVars, TypeOK
    <2> QED BY <1>1, <2>1
            DEF ServerCrash, ServerStart, TypeOK, backendVars, registryVars, requestVars, jobVars,
                historyVars
  <1>2. CASE UNCHANGED vars
    BY <1>2 DEF vars, TypeOK
  <1> QED BY <1>1, <1>2, ArriveType, StepType, AbandonType DEF Next

-----------------------------------------------------------------------------
(* What each action does to the task that takes it and to what is shared.  *)
(* The proofs below read an action from here: pointwise, without EXCEPT.   *)

Same(u) ==
    /\ pc'[u] = pc[u] /\ phase'[u] = phase[u] /\ attempt'[u] = attempt[u] /\ seen'[u] = seen[u]
    /\ authed'[u] = authed[u] /\ sent'[u] = sent[u] /\ stale'[u] = stale[u] /\ reply'[u] = reply[u]

OthersSame(t) == \A u \in Task \ {t} : Same(u)
OthersTrouble(t) == \A u \in Task \ {t} : trouble'[u] = trouble[u]
SharedSame == connected' = connected /\ sid' = sid /\ epoch' = epoch /\ reinit' = reinit
RegistrySame == indexed' = indexed /\ healthy' = healthy
ServerSame == style' = style /\ up' = up /\ known' = known /\ issued' = issued
CountsSame == reinits' = reinits /\ crashes' = crashes

ArriveEffect(t) ==
    /\ pc[t] = "idle" /\ pc'[t] \in {"idle", "disconnect", "connect", "start"}
    /\ pc'[t] = "start" => connected
    /\ phase'[t] = phase[t] /\ attempt'[t] = attempt[t] /\ seen'[t] = seen[t]
    /\ authed'[t] = authed[t] /\ sent'[t] = sent[t] /\ stale'[t] = stale[t] /\ reply'[t] = reply[t]
    /\ pc'[t] \in {"start", "connect"} => trouble'[t] = PendingLosses
    /\ pc'[t] = "disconnect" => ~healthy /\ ~indexed
    /\ pc'[t] = "connect" => ~healthy
    /\ OthersSame(t) /\ OthersTrouble(t) /\ SharedSame /\ ServerSame /\ CountsSame
    /\ indexed' = indexed /\ (healthy' => healthy) /\ collided' = collided /\ denied' = denied

LEMMA ArriveDoes ==
    ASSUME TypeOK, NEW t \in Task, Arrive(t)
    PROVE  ArriveEffect(t)
  <1> USE DEF ArriveEffect, backendVars, registryVars, requestVars, serverVars
  <1>1. PICK what \in {"call", "list", "check"}, where \in {"idle", "disconnect", "connect", "start"} :
          /\ StartJob(t, what, where)
          /\ where = "start" => connected
          /\ where = "disconnect" => ~healthy /\ ~indexed
          /\ where = "connect" => ~healthy
          /\ UNCHANGED <<backendVars, indexed>>
          /\ healthy' => healthy
    <2>1. CASE CallTool(t)
      BY <2>1 DEF CallTool
    <2>2. CASE ReconnectOnCall(t)
      BY <2>2 DEF ReconnectOnCall
    <2>3. CASE HealthCheck(t)
      BY <2>3 DEF HealthCheck
    <2> QED BY <2>1, <2>2, <2>3 DEF Arrive
  <1>2. /\ pc[t] = "idle" /\ pc'[t] = where
        /\ \A u \in Task \ {t} : pc'[u] = pc[u]
    BY <1>1, GotoType DEF StartJob, Location
  <1>3. OthersTrouble(t) /\ (where \in {"start", "connect"} => trouble'[t] = PendingLosses)
    BY <1>1 DEF StartJob, OthersTrouble, TypeOK
  <1>4. UNCHANGED <<phase, attempt, seen, authed, sent, stale, reply>>
    BY <1>1 DEF StartJob
  <1>5. ServerSame /\ CountsSame /\ collided' = collided /\ denied' = denied
    BY <1>1 DEF StartJob, ServerSame, CountsSame
  <1> QED BY <1>1, <1>2, <1>3, <1>4, <1>5 DEF OthersSame, Same, SharedSame

DisconnectEffect(t) ==
    /\ pc[t] = "disconnect" /\ pc'[t] = "connect" /\ ~connected'
    /\ phase'[t] = phase[t] /\ attempt'[t] = attempt[t] /\ seen'[t] = seen[t]
    /\ authed'[t] = authed[t] /\ sent'[t] = sent[t] /\ stale'[t] = stale[t] /\ reply'[t] = reply[t]
    /\ sid' = sid /\ epoch' = epoch /\ reinit' = reinit
    /\ (~collided' => ~collided /\ ~indexed /\ \A u \in Task \ {t} : pc[u] = "idle")
    /\ OthersSame(t) /\ trouble' = trouble /\ RegistrySame /\ ServerSame /\ CountsSame
    /\ denied' = denied

LEMMA DisconnectDoes ==
    ASSUME TypeOK, NEW t \in Task, Disconnect(t)
    PROVE  DisconnectEffect(t)
  <1> USE DEF DisconnectEffect, registryVars, requestVars, jobVars, serverVars
  <1>1. pc'[t] = "connect" /\ \A u \in Task \ {t} : pc'[u] = pc[u]
    BY GotoType DEF Disconnect, Location
  <1>2. UNCHANGED <<phase, attempt, seen, authed, sent, stale, reply>>
    BY DEF Disconnect
  <1>3. ~collided' => ~collided /\ ~indexed /\ \A u \in Task \ {t} : pc[u] = "idle"
    BY DEF Disconnect, Collides, TypeOK
  <1> QED BY <1>1, <1>2, <1>3 DEF Disconnect, OthersSame, Same, RegistrySame, ServerSame, CountsSame

ConnectEffect(t) ==
    /\ pc[t] = "connect"
    /\ attempt'[t] = attempt[t] /\ seen'[t] = seen[t] /\ stale'[t] = stale[t]
    /\ \/ /\ connected /\ pc'[t] = "start" /\ collided' = collided
          /\ phase'[t] = phase[t] /\ authed'[t] = authed[t] /\ sent'[t] = sent[t]
          /\ reply'[t] = reply[t]
       \/ /\ ~connected /\ pc'[t] = "send"
          /\ ~collided' => ~collided /\ \A u \in Task \ {t} : pc[u] = "idle"
          /\ phase'[t] = "connect" /\ authed'[t] = FALSE /\ sent'[t] = NoSession
          /\ reply'[t] = NoReply
    /\ OthersSame(t) /\ trouble' = trouble /\ SharedSame /\ RegistrySame /\ ServerSame
    /\ CountsSame /\ denied' = denied

LEMMA ConnectDoes ==
    ASSUME TypeOK, NEW t \in Task, Connect(t)
    PROVE  ConnectEffect(t)
  <1> USE DEF ConnectEffect, backendVars, registryVars, requestVars, serverVars
  <1>1. UNCHANGED <<attempt, seen, stale>>
    BY DEF Connect
  <1>2. CASE connected
    <2>1. Goto(t, "start") /\ UNCHANGED <<phase, authed, sent, reply, collided>>
      BY <1>2 DEF Connect
    <2>2. pc'[t] = "start" /\ \A u \in Task \ {t} : pc'[u] = pc[u]
      BY <2>1, GotoType DEF Location
    <2> QED BY <1>1, <1>2, <2>1, <2>2
            DEF Connect, OthersSame, Same, SharedSame, RegistrySame, ServerSame, CountsSame
  <1>3. CASE ~connected
    <2>1. Begin(t, "connect") /\ Collides(t)
      BY <1>3 DEF Connect
    <2>2. ~collided' => ~collided /\ \A u \in Task \ {t} : pc[u] = "idle"
      BY <2>1 DEF Collides, TypeOK
    <2> QED BY <1>1, <1>3, <2>1, <2>2, BeginType
            DEF Connect, OthersSame, Same, SharedSame, RegistrySame, ServerSame, CountsSame, Phase
  <1> QED BY <1>2, <1>3

LoadEpochEffect(t) ==
    /\ pc[t] = "start" /\ pc'[t] = "send" /\ phase'[t] = "job" /\ seen'[t] = epoch
    /\ attempt'[t] = 1 /\ authed'[t] = FALSE /\ sent'[t] = NoSession /\ reply'[t] = NoReply
    /\ stale'[t] = stale[t]
    /\ OthersSame(t) /\ trouble' = trouble /\ SharedSame /\ RegistrySame /\ ServerSame
    /\ CountsSame /\ denied' = denied /\ collided' = collided

LEMMA LoadEpochDoes ==
    ASSUME TypeOK, NEW t \in Task, LoadEpoch(t)
    PROVE  LoadEpochEffect(t)
  <1> USE DEF LoadEpochEffect, backendVars, registryVars, requestVars, serverVars, historyVars
  <1>1. Begin(t, "job")
    BY DEF LoadEpoch
  <1>2. seen'[t] = epoch /\ attempt'[t] = 1 /\ \A u \in Task \ {t} : seen'[u] = seen[u] /\ attempt'[u] = attempt[u]
    BY DEF LoadEpoch, TypeOK
  <1> QED BY <1>1, <1>2, BeginType
          DEF LoadEpoch, OthersSame, Same, SharedSame, RegistrySame, ServerSame, CountsSame, Phase

SendEffect(t) ==
    /\ pc[t] = "send" /\ pc'[t] = "sent" /\ sent'[t] = sid
    /\ phase'[t] = phase[t] /\ attempt'[t] = attempt[t] /\ seen'[t] = seen[t]
    /\ authed'[t] = authed[t] /\ stale'[t] = stale[t] /\ reply'[t] = reply[t]
    /\ OthersSame(t) /\ trouble' = trouble /\ SharedSame /\ RegistrySame /\ ServerSame
    /\ CountsSame /\ denied' = denied /\ collided' = collided

LEMMA SendDoes ==
    ASSUME TypeOK, NEW t \in Task, Send(t)
    PROVE  SendEffect(t)
  <1> USE DEF SendEffect, backendVars, registryVars, jobVars, serverVars, historyVars
  <1>1. pc'[t] = "sent" /\ \A u \in Task \ {t} : pc'[u] = pc[u]
    BY GotoType DEF Send, Location
  <1>2. sent'[t] = sid /\ \A u \in Task \ {t} : sent'[u] = sent[u]
    BY DEF Send, TypeOK
  <1> QED BY <1>1, <1>2 DEF Send, OthersSame, Same, SharedSame, RegistrySame, ServerSame, CountsSame

ServeEffect(t) ==
    /\ pc[t] = "sent" /\ pc'[t] = "replied"
    /\ phase'[t] = phase[t] /\ attempt'[t] = attempt[t] /\ seen'[t] = seen[t]
    /\ authed'[t] = authed[t] /\ stale'[t] = stale[t] /\ sent'[t] = sent[t]
    /\ \/ up /\ reply'[t] = ServerAnswer(t) /\ trouble' = trouble
       \/ /\ reply'[t] = Only("unreachable")
          /\ \A u \in Task : pc[u] # "idle" => trouble'[u] = 2
    /\ \/ /\ up /\ Opens(t) /\ issued < MaxSessions
          /\ issued' = issued + 1 /\ known' = known \union {issued + 1}
       \/ ~(up /\ Opens(t)) /\ issued' = issued /\ known' = known
    /\ OthersSame(t) /\ SharedSame /\ RegistrySame
    /\ CountsSame /\ denied' = denied /\ collided' = collided /\ style' = style /\ up' = up

LEMMA ServeDoes ==
    ASSUME TypeOK, NEW t \in Task, Serve(t)
    PROVE  ServeEffect(t)
  <1> USE DEF ServeEffect, backendVars, registryVars, jobVars
  <1>1. pc'[t] = "replied" /\ \A u \in Task \ {t} : pc'[u] = pc[u]
    BY GotoType DEF Serve, Location
  <1>2. /\ \/ up /\ reply' = [reply EXCEPT ![t] = ServerAnswer(t)] /\ trouble' = trouble
           \/ /\ reply' = [reply EXCEPT ![t] = Only("unreachable")]
              /\ \A u \in Task : pc[u] # "idle" => trouble'[u] = 2
    BY FaultType, DisturbedType DEF Serve
  <1>3. \A u \in Task \ {t} : reply'[u] = reply[u]
    BY <1>2 DEF TypeOK
  <1>4. \/ up /\ reply'[t] = ServerAnswer(t) /\ trouble' = trouble
        \/ /\ reply'[t] = Only("unreachable")
           /\ \A u \in Task : pc[u] # "idle" => trouble'[u] = 2
    BY <1>2 DEF TypeOK
  <1>5. \/ /\ up /\ Opens(t) /\ issued < MaxSessions
           /\ issued' = issued + 1 /\ known' = known \union {issued + 1}
        \/ ~(up /\ Opens(t)) /\ issued' = issued /\ known' = known
    BY DEF Serve
  <1> QED BY <1>1, <1>3, <1>4, <1>5
          DEF Serve, OthersSame, Same, SharedSame, RegistrySame, CountsSame

UnauthorizedEffect(t) ==
    /\ pc[t] = "sent" /\ pc'[t] = "replied" /\ reply'[t] = Only("unauthorized")
    /\ phase'[t] = phase[t] /\ attempt'[t] = attempt[t] /\ seen'[t] = seen[t]
    /\ authed'[t] = authed[t] /\ stale'[t] = stale[t] /\ sent'[t] = sent[t]
    /\ \A u \in Task : pc[u] # "idle" => trouble'[u] = 2
    /\ OthersSame(t) /\ SharedSame /\ RegistrySame /\ ServerSame
    /\ CountsSame /\ denied' = denied /\ collided' = collided

LEMMA UnauthorizedDoes ==
    ASSUME TypeOK, NEW t \in Task, Unauthorized(t)
    PROVE  UnauthorizedEffect(t)
  <1> USE DEF UnauthorizedEffect, backendVars, registryVars, jobVars, serverVars
  <1>1. pc'[t] = "replied" /\ \A u \in Task \ {t} : pc'[u] = pc[u]
    BY GotoType DEF Unauthorized, Location
  <1>2. reply'[t] = Only("unauthorized") /\ \A u \in Task \ {t} : reply'[u] = reply[u]
    BY DEF Unauthorized, TypeOK
  <1>3. \A u \in Task : pc[u] # "idle" => trouble'[u] = 2
    BY FaultType DEF Unauthorized
  <1> QED BY <1>1, <1>2, <1>3
          DEF Unauthorized, OthersSame, Same, SharedSame, RegistrySame, ServerSame, CountsSame

JobDoneEffect(t) ==
    /\ pc[t] = "replied" /\ pc'[t] \in {"idle", "connect"} /\ phase[t] = "job"
    /\ reply[t].kind # "unauthorized"
    /\ reply[t].kind = "ok" \/ ~SessionLost(t) \/ attempt[t] = 2
    /\ sid' = IF reply[t].session # NoSession THEN reply[t].session ELSE sid
    /\ phase'[t] = "job" /\ attempt'[t] = 1 /\ seen'[t] = 0
    /\ authed'[t] = FALSE /\ stale'[t] = stale[t] /\ sent'[t] = NoSession /\ reply'[t] = NoReply
    /\ trouble'[t] = IF pc'[t] = "connect" THEN PendingLosses' ELSE 0
    /\ connected' = connected /\ epoch' = epoch /\ reinit' = reinit
    /\ denied' = IF reply[t].kind = "ok" \/ trouble[t] = 2 THEN denied ELSE denied \union {t}
    /\ (indexed => indexed') /\ (indexed' => indexed \/ reply[t].kind = "ok")
    /\ healthy' => healthy \/ indexed'
    /\ OthersSame(t) /\ OthersTrouble(t) /\ ServerSame /\ CountsSame /\ collided' = collided

LEMMA JobDoneDoes ==
    ASSUME TypeOK, NEW t \in Task, JobDone(t)
    PROVE  JobDoneEffect(t)
  <1> USE DEF JobDoneEffect, serverVars
  <1>1. Finish(t, reply[t].kind = "ok")
    BY DEF JobDone
  <1>2. UNCHANGED stale
    BY DEF JobDone
  <1>3. trouble'[t] = (IF pc'[t] = "connect" THEN PendingLosses' ELSE 0) /\ OthersTrouble(t)
    BY DEF JobDone, OthersTrouble, TypeOK
  <1>4. \A u \in Task \ {t} : Same(u)
    <2>1. \A u \in Task \ {t} :
            /\ pc'[u] = pc[u] /\ phase'[u] = phase[u] /\ authed'[u] = authed[u]
            /\ sent'[u] = sent[u] /\ reply'[u] = reply[u] /\ attempt'[u] = attempt[u]
            /\ seen'[u] = seen[u]
      BY <1>1, FinishType
    <2> QED BY <1>2, <2>1 DEF Same
  <1>5. (indexed => indexed') /\ (indexed' => indexed \/ reply[t].kind = "ok") /\ (healthy' => healthy \/ indexed')
    BY <1>1, FinishType
  <1>6. /\ pc'[t] \in {"idle", "connect"}
        /\ phase'[t] = "job" /\ attempt'[t] = 1 /\ seen'[t] = 0
        /\ authed'[t] = FALSE /\ sent'[t] = NoSession /\ reply'[t] = NoReply
        /\ denied' = IF reply[t].kind = "ok" \/ trouble[t] = 2 THEN denied ELSE denied \union {t}
    BY <1>1, FinishType
  <1> QED BY <1>2, <1>3, <1>4, <1>5, <1>6 DEF JobDone, Capture, OthersSame, ServerSame, CountsSame

JobLostEffect(t) ==
    /\ pc[t] = "replied" /\ pc'[t] = "wait_reinit" /\ phase[t] = "job" /\ SessionLost(t)
    /\ attempt[t] = 1
    /\ sid' = IF reply[t].session # NoSession THEN reply[t].session ELSE sid
    /\ phase'[t] = phase[t] /\ attempt'[t] = attempt[t] /\ seen'[t] = seen[t]
    /\ authed'[t] = authed[t] /\ stale'[t] = stale[t] /\ sent'[t] = sent[t] /\ reply'[t] = reply[t]
    /\ connected' = connected /\ epoch' = epoch /\ reinit' = reinit
    /\ OthersSame(t) /\ trouble' = trouble /\ RegistrySame /\ ServerSame /\ CountsSame
    /\ denied' = denied /\ collided' = collided

LEMMA JobLostDoes ==
    ASSUME TypeOK, NEW t \in Task, JobLostSession(t)
    PROVE  JobLostEffect(t)
  <1> USE DEF JobLostEffect, registryVars, requestVars, jobVars, serverVars, historyVars
  <1>1. pc'[t] = "wait_reinit" /\ \A u \in Task \ {t} : pc'[u] = pc[u]
    BY GotoType DEF JobLostSession, Location
  <1> QED BY <1>1
          DEF JobLostSession, Capture, OthersSame, Same, RegistrySame, ServerSame, CountsSame

AcquireEffect(t) ==
    /\ pc[t] = "replied" /\ pc'[t] = "token" /\ reply[t].kind = "unauthorized"
    /\ phase'[t] = phase[t] /\ attempt'[t] = attempt[t] /\ seen'[t] = seen[t]
    /\ authed'[t] = authed[t] /\ stale'[t] = stale[t] /\ sent'[t] = sent[t] /\ reply'[t] = reply[t]
    /\ OthersSame(t) /\ trouble' = trouble /\ SharedSame /\ RegistrySame /\ ServerSame
    /\ CountsSame /\ denied' = denied /\ collided' = collided

LEMMA AcquireDoes ==
    ASSUME TypeOK, NEW t \in Task, AcquireToken(t)
    PROVE  AcquireEffect(t)
  <1> USE DEF AcquireEffect, backendVars, registryVars, requestVars, jobVars, serverVars, historyVars
  <1>1. pc'[t] = "token" /\ \A u \in Task \ {t} : pc'[u] = pc[u]
    BY GotoType DEF AcquireToken, Location
  <1> QED BY <1>1
          DEF AcquireToken, OthersSame, Same, SharedSame, RegistrySame, ServerSame, CountsSame

TokenEffect(t) ==
    /\ pc[t] = "token"
    /\ phase'[t] = phase[t] /\ attempt'[t] = attempt[t] /\ seen'[t] = seen[t]
    /\ stale'[t] = stale[t] /\ sent'[t] = sent[t]
    /\ \/ /\ pc'[t] = "sent" /\ authed'[t] = TRUE /\ reply'[t] = NoReply /\ trouble' = trouble
       \/ /\ pc'[t] = "replied" /\ authed'[t] = authed[t] /\ reply'[t] = Only("refused")
          /\ \A u \in Task : pc[u] # "idle" => trouble'[u] = 2
    /\ OthersSame(t) /\ SharedSame /\ RegistrySame /\ ServerSame
    /\ CountsSame /\ denied' = denied /\ collided' = collided

LEMMA TokenDoes ==
    ASSUME TypeOK, NEW t \in Task, TokenAcquired(t)
    PROVE  TokenEffect(t)
  <1> USE DEF TokenEffect, backendVars, registryVars, jobVars, serverVars
  <1>1. \/ /\ Goto(t, "sent") /\ authed' = [authed EXCEPT ![t] = TRUE]
           /\ reply' = [reply EXCEPT ![t] = NoReply] /\ trouble' = trouble
        \/ /\ Goto(t, "replied") /\ authed' = authed
           /\ reply' = [reply EXCEPT ![t] = Only("refused")]
           /\ \A u \in Task : pc[u] # "idle" => trouble'[u] = 2
    BY FaultType DEF TokenAcquired
  <1>2. \/ /\ pc'[t] = "sent" /\ authed'[t] = TRUE /\ reply'[t] = NoReply /\ trouble' = trouble
        \/ /\ pc'[t] = "replied" /\ authed'[t] = authed[t] /\ reply'[t] = Only("refused")
           /\ \A u \in Task : pc[u] # "idle" => trouble'[u] = 2
    BY <1>1, GotoType DEF Location, TypeOK
  <1>3. \A u \in Task \ {t} : pc'[u] = pc[u] /\ authed'[u] = authed[u] /\ reply'[u] = reply[u]
    BY <1>1, GotoType DEF Location, TypeOK
  <1> QED BY <1>2, <1>3
          DEF TokenAcquired, OthersSame, Same, SharedSame, RegistrySame, ServerSame, CountsSame

ReinitializeEffect(t) ==
    /\ pc[t] = "wait_reinit" /\ pc'[t] = "send" /\ reinit = NoTask
    /\ seen'[t] = seen[t] /\ authed'[t] = FALSE /\ sent'[t] = NoSession /\ reply'[t] = NoReply
    /\ \/ /\ epoch # seen[t] /\ phase'[t] = "job" /\ attempt'[t] = 2 /\ stale'[t] = stale[t]
          /\ reinit' = reinit /\ sid' = sid /\ OthersTrouble(t)
       \/ /\ epoch = seen[t] /\ phase'[t] = "reinit" /\ attempt'[t] = attempt[t] /\ stale'[t] = sid
          /\ reinit' = t /\ sid' = NoSession
          /\ \A u \in Task \ {t} : trouble'[u] = IF pc[u] = "idle" \/ trouble[u] = 2 \/ sid \notin known
                                               THEN trouble[u] ELSE trouble[u] + 1
    /\ OthersSame(t) /\ trouble'[t] = trouble[t] /\ connected' = connected /\ epoch' = epoch
    /\ RegistrySame /\ ServerSame /\ CountsSame /\ denied' = denied /\ collided' = collided

LEMMA ReinitializeDoes ==
    ASSUME TypeOK, NEW t \in Task, Reinitialize(t)
    PROVE  ReinitializeEffect(t)
  <1> USE DEF ReinitializeEffect, registryVars, serverVars, historyVars
  <1>1. /\ pc[t] = "wait_reinit" /\ reinit = NoTask
        /\ UNCHANGED <<connected, epoch, seen, indexed, healthy, style, up, known, issued, denied,
                       collided, reinits, crashes>>
    BY DEF Reinitialize
  <1>2. CASE epoch # seen[t]
    <2>1. Begin(t, "job") /\ UNCHANGED <<reinit, stale, sid, trouble>>
      BY <1>2 DEF Reinitialize
    <2>2. attempt'[t] = 2 /\ \A u \in Task \ {t} : attempt'[u] = attempt[u]
      BY <1>2 DEF Reinitialize, TypeOK
    <2> QED BY <1>1, <1>2, <2>1, <2>2, BeginType
            DEF OthersSame, OthersTrouble, Same, RegistrySame, ServerSame, CountsSame, Phase
  <1>3. CASE epoch = seen[t]
    <2>1. Begin(t, "reinit") /\ UNCHANGED attempt /\ reinit' = t /\ sid' = NoSession
      BY <1>3 DEF Reinitialize
    <2>2. stale'[t] = sid /\ \A u \in Task \ {t} : stale'[u] = stale[u]
      BY <1>3 DEF Reinitialize, TypeOK
    <2>3. /\ trouble'[t] = trouble[t]
          /\ \A u \in Task \ {t} : trouble'[u] = IF pc[u] = "idle" \/ trouble[u] = 2 \/ sid \notin known
                                               THEN trouble[u] ELSE trouble[u] + 1
      BY <1>3 DEF Reinitialize, Displaced
    <2> QED BY <1>1, <1>3, <2>1, <2>2, <2>3, BeginType
            DEF OthersSame, Same, RegistrySame, ServerSame, CountsSame, Phase
  <1> QED BY <1>2, <1>3

InitializedEffect(t) ==
    /\ pc[t] = "replied" /\ pc'[t] = "notify" /\ phase[t] # "job" /\ reply[t].kind = "ok"
    /\ sid' = IF reply[t].session # NoSession THEN reply[t].session ELSE sid
    /\ phase'[t] = phase[t] /\ attempt'[t] = attempt[t] /\ seen'[t] = seen[t]
    /\ authed'[t] = authed[t] /\ stale'[t] = stale[t] /\ sent'[t] = sent[t] /\ reply'[t] = reply[t]
    /\ phase[t] = "connect" /\ ~collided' => \A u \in Task \ {t} : pc[u] = "idle"
    /\ ~collided' => ~collided
    /\ connected' = connected /\ epoch' = epoch /\ reinit' = reinit
    /\ OthersSame(t) /\ trouble' = trouble /\ RegistrySame /\ ServerSame /\ CountsSame
    /\ denied' = denied

LEMMA InitializedDoes ==
    ASSUME TypeOK, NEW t \in Task, Initialized(t)
    PROVE  InitializedEffect(t)
  <1> USE DEF InitializedEffect, registryVars, requestVars, jobVars, serverVars
  <1>1. pc'[t] = "notify" /\ \A u \in Task \ {t} : pc'[u] = pc[u]
    BY GotoType DEF Initialized, Location
  <1>2. /\ phase[t] = "connect" /\ ~collided' => \A u \in Task \ {t} : pc[u] = "idle"
        /\ ~collided' => ~collided
    BY DEF Initialized, Collides, TypeOK
  <1>3. UNCHANGED <<phase, attempt, seen, authed, sent, stale, reply>>
    BY DEF Initialized
  <1> QED BY <1>1, <1>2, <1>3
          DEF Initialized, Capture, OthersSame, Same, RegistrySame, ServerSame, CountsSame

HandshakeDoneEffect(t) ==
    /\ pc[t] = "notify" /\ sid' = sid /\ seen'[t] = seen[t]
    /\ \/ /\ phase[t] = "reinit" /\ pc'[t] = "send" /\ phase'[t] = "job" /\ attempt'[t] = 2
          /\ authed'[t] = FALSE /\ sent'[t] = NoSession /\ reply'[t] = NoReply
          /\ stale'[t] = NoSession
          /\ epoch' = epoch + 1 /\ reinit' = NoTask /\ reinits' = reinits + 1
          /\ connected' = connected
       \/ /\ phase[t] # "reinit" /\ pc'[t] = "start" /\ connected'
          /\ phase'[t] = phase[t] /\ attempt'[t] = attempt[t] /\ authed'[t] = authed[t]
          /\ sent'[t] = sent[t] /\ reply'[t] = reply[t] /\ stale'[t] = stale[t]
          /\ epoch' = epoch /\ reinit' = reinit /\ reinits' = reinits
    /\ OthersSame(t) /\ trouble' = trouble /\ RegistrySame /\ ServerSame
    /\ crashes' = crashes /\ denied' = denied /\ collided' = collided

LEMMA HandshakeDoneDoes ==
    ASSUME TypeOK, NEW t \in Task, HandshakeDone(t)
    PROVE  HandshakeDoneEffect(t)
  <1> USE DEF HandshakeDoneEffect, registryVars, requestVars, serverVars
  <1>1. /\ pc[t] = "notify"
        /\ UNCHANGED <<sid, indexed, healthy, seen, style, up, known, issued, trouble, denied,
                       collided, crashes>>
    BY DEF HandshakeDone
  <1>2. CASE phase[t] = "reinit"
    <2>1. /\ Begin(t, "job") /\ epoch' = epoch + 1 /\ reinit' = NoTask /\ reinits' = reinits + 1
          /\ connected' = connected
      BY <1>2 DEF HandshakeDone
    <2>2. /\ attempt'[t] = 2 /\ \A u \in Task \ {t} : attempt'[u] = attempt[u]
          /\ stale'[t] = NoSession /\ \A u \in Task \ {t} : stale'[u] = stale[u]
      BY <1>2 DEF HandshakeDone, TypeOK
    <2> QED BY <1>1, <1>2, <2>1, <2>2, BeginType
            DEF OthersSame, Same, RegistrySame, ServerSame, CountsSame, Phase
  <1>3. CASE phase[t] # "reinit"
    <2>1. /\ Goto(t, "start") /\ connected'
          /\ UNCHANGED <<epoch, reinits, reinit, stale, attempt, phase, authed, sent, reply>>
      BY <1>3 DEF HandshakeDone
    <2>2. pc'[t] = "start" /\ \A u \in Task \ {t} : pc'[u] = pc[u]
      BY <2>1, GotoType DEF Location
    <2> QED BY <1>1, <1>3, <2>1, <2>2 DEF OthersSame, Same, RegistrySame, ServerSame
  <1> QED BY <1>2, <1>3

HandshakeFailedEffect(t) ==
    /\ pc[t] = "replied" /\ pc'[t] = "idle" /\ phase[t] # "job"
    /\ reply[t].kind \notin {"ok", "unauthorized"}
    /\ sid' = IF phase[t] = "reinit" /\ sid = NoSession THEN stale[t] ELSE sid
    /\ epoch' = IF phase[t] = "reinit" THEN epoch + 1 ELSE epoch
    /\ reinit' = IF phase[t] = "reinit" THEN NoTask ELSE reinit
    /\ phase'[t] = "job" /\ attempt'[t] = 1 /\ seen'[t] = 0
    /\ authed'[t] = FALSE /\ stale'[t] = NoSession /\ sent'[t] = NoSession /\ reply'[t] = NoReply
    /\ trouble'[t] = 0 /\ \A u \in Task \ {t} : pc[u] # "idle" => trouble'[u] = 2
    /\ \A u \in Task \ {t} : pc[u] = "idle" => trouble'[u] = 0
    /\ connected' = connected /\ indexed' = indexed /\ (healthy' => healthy)
    /\ denied' = IF trouble[t] = 2 THEN denied ELSE denied \union {t}
    /\ OthersSame(t) /\ ServerSame /\ CountsSame /\ collided' = collided

LEMMA HandshakeFailedDoes ==
    ASSUME TypeOK, NEW t \in Task, HandshakeFailed(t)
    PROVE  HandshakeFailedEffect(t)
  <1> USE DEF HandshakeFailedEffect, serverVars
  <1>1. Finish(t, FALSE)
    BY DEF HandshakeFailed
  <1>2. stale'[t] = NoSession /\ \A u \in Task \ {t} : stale'[u] = stale[u]
    BY DEF HandshakeFailed, TypeOK
  <1>3. /\ trouble'[t] = 0 /\ \A u \in Task \ {t} : pc[u] # "idle" => trouble'[u] = 2
        /\ \A u \in Task \ {t} : pc[u] = "idle" => trouble'[u] = 0
    BY DEF HandshakeFailed
  <1>4. OthersSame(t)
    <2>1. \A u \in Task \ {t} :
            /\ pc'[u] = pc[u] /\ phase'[u] = phase[u] /\ authed'[u] = authed[u]
            /\ sent'[u] = sent[u] /\ reply'[u] = reply[u] /\ attempt'[u] = attempt[u]
            /\ seen'[u] = seen[u]
      BY <1>1, FinishType
    <2> QED BY <1>2, <2>1 DEF OthersSame, Same
  <1>5. /\ pc'[t] = "idle" /\ phase'[t] = "job" /\ attempt'[t] = 1 /\ seen'[t] = 0
        /\ authed'[t] = FALSE /\ sent'[t] = NoSession /\ reply'[t] = NoReply
        /\ denied' = IF trouble[t] = 2 THEN denied ELSE denied \union {t}
    BY <1>1, FinishType
  <1>6. indexed' = indexed /\ (healthy' => healthy)
    BY <1>1 DEF Finish, TypeOK
  <1> QED BY <1>2, <1>3, <1>4, <1>5, <1>6 DEF HandshakeFailed, ServerSame, CountsSame

AbandonEffect(t) ==
    /\ pc[t] \in {"connect", "sent", "replied", "token", "wait_reinit", "notify"} /\ pc'[t] = "idle"
    /\ reinit' = IF reinit = t THEN NoTask ELSE reinit
    /\ phase'[t] = "job" /\ attempt'[t] = 1 /\ seen'[t] = 0
    /\ authed'[t] = FALSE /\ stale'[t] = NoSession /\ sent'[t] = NoSession /\ reply'[t] = NoReply
    /\ trouble'[t] = 0 /\ OthersTrouble(t)
    /\ connected' = connected /\ sid' = sid /\ epoch' = epoch
    /\ OthersSame(t) /\ RegistrySame /\ ServerSame /\ CountsSame /\ denied' = denied
    /\ collided' = collided

LEMMA AbandonDoes ==
    ASSUME TypeOK, NEW t \in Task, Abandon(t)
    PROVE  AbandonEffect(t)
  <1> USE DEF AbandonEffect, registryVars, serverVars
  <1>1. pc'[t] = "idle" /\ \A u \in Task \ {t} : pc'[u] = pc[u]
    BY GotoType DEF Abandon, Location
  <1>2. stale'[t] = NoSession /\ \A u \in Task \ {t} : stale'[u] = stale[u]
    BY DEF Abandon, TypeOK
  <1>3. trouble'[t] = 0 /\ OthersTrouble(t)
    BY DEF Abandon, OthersTrouble, TypeOK
  <1>4. Forget(t)
    BY DEF Abandon
  <1>5. /\ phase'[t] = "job" /\ attempt'[t] = 1 /\ seen'[t] = 0
        /\ authed'[t] = FALSE /\ sent'[t] = NoSession /\ reply'[t] = NoReply
    BY ONLY TypeOK, t \in Task, <1>4, ForgetType
  <1>6. OthersSame(t)
    <2>1. \A u \in Task \ {t} :
            /\ phase'[u] = phase[u] /\ authed'[u] = authed[u] /\ sent'[u] = sent[u]
            /\ reply'[u] = reply[u] /\ attempt'[u] = attempt[u] /\ seen'[u] = seen[u]
      BY ONLY TypeOK, t \in Task, <1>4, ForgetType
    <2> QED BY <1>1, <1>2, <2>1 DEF OthersSame, Same
  <1>7. RegistrySame /\ ServerSame /\ CountsSame
    BY DEF Abandon, RegistrySame, ServerSame, CountsSame
  <1> QED BY <1>1, <1>2, <1>3, <1>5, <1>6, <1>7, ZenonT(40) DEF Abandon

CrashEffect ==
    /\ known' = {} /\ issued' = issued /\ style' = style /\ crashes' = crashes + 1
    /\ \A u \in Task : Same(u)
    /\ \A u \in Task : pc[u] # "idle" => trouble'[u] = 2 \/ trouble'[u] = trouble[u] + 1
    /\ SharedSame /\ RegistrySame /\ reinits' = reinits /\ denied' = denied
    /\ collided' = collided

LEMMA CrashDoes ==
    ASSUME TypeOK, ServerCrash
    PROVE  CrashEffect
  <1> USE DEF CrashEffect, backendVars, registryVars, requestVars, jobVars
  <1>1. \A u \in Task : pc[u] # "idle" => trouble'[u] = 2 \/ trouble'[u] = trouble[u] + 1
    BY DisturbedType DEF ServerCrash
  <1> QED BY <1>1 DEF ServerCrash, Same, SharedSame, RegistrySame

-----------------------------------------------------------------------------
(* The shape of a task: who holds the lock, and what it may have in hand.  *)

Act(t) == Arrive(t) \/ Step(t) \/ Serve(t) \/ Unauthorized(t) \/ Abandon(t)

Requesting == {"send", "sent", "replied", "token"}

\* The holder of the lock is the task whose request is a re-initialisation, and
\* nobody's epoch is ahead; an epoch equal to the holder's is the current one.
TaskShape(t) ==
    /\ reinit = t <=> phase[t] = "reinit"
    /\ phase[t] = "reinit" => pc[t] \in Requesting \union {"notify"}
    /\ pc[t] = "notify" => phase[t] # "job"
    /\ pc[t] = "wait_reinit" => attempt[t] = 1
    /\ pc[t] \in {"idle", "disconnect", "connect", "wait_reinit"} => phase[t] = "job"
    /\ pc[t] \in {"idle", "disconnect", "connect", "send", "sent"} => reply[t] = NoReply
    /\ pc[t] \in {"idle", "disconnect", "connect", "send"} => ~authed[t]
    /\ pc[t] = "replied" => reply[t].kind # "none"
    /\ reply[t].session # NoSession => reply[t].kind = "ok"
    /\ phase[t] # "job" /\ reply[t].kind = "ok" => reply[t].session # NoSession
    /\ sent[t] <= issued /\ stale[t] <= issued /\ reply[t].session <= issued
    /\ seen[t] <= epoch
    /\ phase[t] = "reinit" => seen[t] = epoch

Shape ==
    /\ \A t \in Task : TaskShape(t)
    /\ sid <= issued
    /\ healthy => indexed

\* The types of one task's row, for the provers.
RowTypes(t) ==
    /\ pc[t] \in Location /\ phase[t] \in Phase /\ attempt[t] \in 1 .. 2 /\ authed[t] \in BOOLEAN
    /\ seen[t] \in Nat /\ sent[t] \in Nat /\ stale[t] \in Nat
    /\ reply[t].kind \in {"none", "ok", "http_404", "not_initialized", "refused", "unauthorized",
                          "unreachable"}
    /\ reply[t].session \in Nat
    /\ trouble[t] \in 0 .. 2
    /\ t # NoTask

LEMMA RowTyped == TypeOK => \A t \in Task : RowTypes(t)
  BY ConstantsAssumption DEF TypeOK, RowTypes, Reply, AnySession, Phase

LEMMA RowTypedNext == TypeOK' => \A t \in Task : RowTypes(t)'
  BY ConstantsAssumption DEF TypeOK, RowTypes, Reply, AnySession, Phase

LEMMA SharedTyped ==
    TypeOK => /\ sid \in Nat /\ issued \in Nat /\ epoch \in Nat /\ reinits \in Nat /\ crashes \in Nat
              /\ known \subseteq 1 .. issued
  BY ConstantsAssumption DEF TypeOK, AnySession

LEMMA SharedTypedNext ==
    TypeOK' => /\ sid' \in Nat /\ issued' \in Nat /\ epoch' \in Nat /\ reinits' \in Nat
               /\ crashes' \in Nat /\ known' \subseteq 1 .. issued'
  BY ConstantsAssumption DEF TypeOK, AnySession

\* A task that another's action leaves alone keeps its shape.
LEMMA BystanderShape ==
    ASSUME NEW u \in Task, TaskShape(u), RowTypes(u), Same(u), issued \in Nat, issued' \in Nat,
           epoch \in Nat, epoch' \in Nat, issued <= issued', epoch <= epoch',
           reinit' = u <=> reinit = u, phase[u] = "reinit" => epoch' = epoch
    PROVE  TaskShape(u)'
  BY DEF TaskShape, RowTypes, Same

LEMMA NoReplyIs == NoReply.kind = "none" /\ NoReply.session = 0 /\ NoSession = 0
  BY DEF NoReply, NoSession

LEMMA OnlyIs == \A k \in {"http_404", "not_initialized", "refused", "unauthorized", "unreachable"} :
                  Only(k).kind = k /\ Only(k).session = 0
  BY DEF Only, NoSession

LEMMA AnswerIs ==
    ASSUME TypeOK, NEW t \in Task
    PROVE  /\ ServerAnswer(t).kind \in {"ok", "http_404", "not_initialized", "refused"}
           /\ ServerAnswer(t).kind # "ok" => ServerAnswer(t).session = 0
           /\ phase[t] = "job" => /\ ServerAnswer(t).session \in {0, sent[t]}
                                  /\ ~style.echo => ServerAnswer(t).session = 0
                                  /\ ServerAnswer(t).kind = "ok" <=> sent[t] \in known
           /\ phase[t] # "job" /\ ServerAnswer(t).kind = "ok" => ServerAnswer(t).session = issued + 1
           /\ phase[t] # "job" /\ ~style.strict => ServerAnswer(t).kind = "ok"
           /\ phase[t] = "job" /\ ServerAnswer(t).kind = "http_404" => sent[t] # 0
           /\ Opens(t) <=> phase[t] # "job" /\ ServerAnswer(t).kind = "ok"
           /\ phase[t] = "job" /\ sent[t] = 0 /\ style.missing = "not_initialized" =>
                ServerAnswer(t).kind \in {"ok", "not_initialized"}
           /\ phase[t] = "job" /\ style.missing = "not_initialized" =>
                ServerAnswer(t).kind \in {"ok", "http_404", "not_initialized"}
  <1>1. style.gone \in {"http_404", "not_initialized"} /\ style.missing \in {"not_initialized", "refused"}
    BY ConstantsAssumption DEF TypeOK, Style
  <1>2. CASE phase[t] = "job"
    <2>1. CASE sent[t] \in known
      <3>1. ServerAnswer(t) = [kind |-> "ok", session |-> IF style.echo THEN sent[t] ELSE 0]
        <4>1. sent[t] # NoSession
          BY <2>1, SharedTyped DEF NoSession
        <4> QED BY <1>2, <2>1, <4>1 DEF ServerAnswer, NoSession
      <3> QED BY <1>2, <2>1, <3>1 DEF Opens
    <2>2. CASE sent[t] \notin known /\ sent[t] = NoSession
      BY <1>1, <1>2, <2>2, OnlyIs DEF ServerAnswer, Opens, NoSession
    <2>3. CASE sent[t] \notin known /\ sent[t] # NoSession
      BY <1>1, <1>2, <2>3, OnlyIs DEF ServerAnswer, Opens, NoSession
    <2> QED BY <2>1, <2>2, <2>3
  <1>3. CASE phase[t] # "job"
    <2>1. CASE style.strict /\ sent[t] \notin known \union {NoSession}
      BY <1>1, <1>3, <2>1, OnlyIs DEF ServerAnswer, Opens
    <2>2. CASE ~(style.strict /\ sent[t] \notin known \union {NoSession})
      BY <1>3, <2>2 DEF ServerAnswer, Opens
    <2> QED BY <2>1, <2>2
  <1> QED BY <1>2, <1>3

LEMMA ShapeStep ==
    ASSUME TypeOK, TypeOK', Shape, NEW t \in Task, Act(t)
    PROVE  Shape'
  <1>a. /\ TaskShape(t) /\ RowTypes(t) /\ RowTypes(t)'
        /\ sid <= issued /\ (healthy => indexed)
    BY RowTyped, RowTypedNext DEF Shape
  <1>b. /\ sid \in Nat /\ issued \in Nat /\ epoch \in Nat
        /\ sid' \in Nat /\ issued' \in Nat /\ epoch' \in Nat
    BY SharedTyped, SharedTypedNext
  <1>c. \A u \in Task : TaskShape(u) /\ RowTypes(u)
    BY RowTyped DEF Shape
  <1>1. CASE Arrive(t)
    <2>0. ArriveEffect(t)
      BY <1>1, ArriveDoes
    <2>1. TaskShape(t)'
      BY <2>0, <1>a DEF ArriveEffect, TaskShape, SharedSame, ServerSame
    <2>2. \A u \in Task \ {t} :
             Same(u) /\ (reinit' = u <=> reinit = u) /\ (phase[u] = "reinit" => epoch' = epoch)
      BY <2>0 DEF ArriveEffect, OthersSame, SharedSame
    <2>3. issued <= issued' /\ epoch <= epoch' /\ sid' <= issued' /\ (healthy' => indexed')
      BY <2>0, <1>a, <1>b DEF ArriveEffect, SharedSame, ServerSame
    <2> QED BY <2>1, <2>2, <2>3, <1>b, <1>c, BystanderShape DEF Shape
  <1>2. CASE Disconnect(t)
    <2>0. DisconnectEffect(t)
      BY <1>2, DisconnectDoes
    <2>1. TaskShape(t)'
      BY <2>0, <1>a DEF DisconnectEffect, TaskShape, ServerSame
    <2>2. \A u \in Task \ {t} :
             Same(u) /\ (reinit' = u <=> reinit = u) /\ (phase[u] = "reinit" => epoch' = epoch)
      BY <2>0 DEF DisconnectEffect, OthersSame
    <2>3. issued <= issued' /\ epoch <= epoch' /\ sid' <= issued' /\ (healthy' => indexed')
      BY <2>0, <1>a, <1>b DEF DisconnectEffect, RegistrySame, ServerSame
    <2> QED BY <2>1, <2>2, <2>3, <1>b, <1>c, BystanderShape DEF Shape
  <1>3. CASE Connect(t)
    <2>0. ConnectEffect(t)
      BY <1>3, ConnectDoes
    <2>1. TaskShape(t)'
      BY <2>0, <1>a, NoReplyIs DEF ConnectEffect, TaskShape, SharedSame, ServerSame
    <2>2. \A u \in Task \ {t} :
             Same(u) /\ (reinit' = u <=> reinit = u) /\ (phase[u] = "reinit" => epoch' = epoch)
      BY <2>0 DEF ConnectEffect, OthersSame, SharedSame
    <2>3. issued <= issued' /\ epoch <= epoch' /\ sid' <= issued' /\ (healthy' => indexed')
      BY <2>0, <1>a, <1>b DEF ConnectEffect, SharedSame, RegistrySame, ServerSame
    <2> QED BY <2>1, <2>2, <2>3, <1>b, <1>c, BystanderShape DEF Shape
  <1>4. CASE LoadEpoch(t)
    <2>0. LoadEpochEffect(t)
      BY <1>4, LoadEpochDoes
    <2>1. TaskShape(t)'
      BY <2>0, <1>a, <1>b, NoReplyIs
         DEF LoadEpochEffect, TaskShape, Requesting, SharedSame, ServerSame
    <2>2. \A u \in Task \ {t} :
             Same(u) /\ (reinit' = u <=> reinit = u) /\ (phase[u] = "reinit" => epoch' = epoch)
      BY <2>0 DEF LoadEpochEffect, OthersSame, SharedSame
    <2>3. issued <= issued' /\ epoch <= epoch' /\ sid' <= issued' /\ (healthy' => indexed')
      BY <2>0, <1>a, <1>b DEF LoadEpochEffect, SharedSame, RegistrySame, ServerSame
    <2> QED BY <2>1, <2>2, <2>3, <1>b, <1>c, BystanderShape DEF Shape
  <1>5. CASE Send(t)
    <2>0. SendEffect(t)
      BY <1>5, SendDoes
    <2>1. TaskShape(t)'
      BY <2>0, <1>a DEF SendEffect, TaskShape, Requesting, SharedSame, ServerSame
    <2>2. \A u \in Task \ {t} :
             Same(u) /\ (reinit' = u <=> reinit = u) /\ (phase[u] = "reinit" => epoch' = epoch)
      BY <2>0 DEF SendEffect, OthersSame, SharedSame
    <2>3. issued <= issued' /\ epoch <= epoch' /\ sid' <= issued' /\ (healthy' => indexed')
      BY <2>0, <1>a, <1>b DEF SendEffect, SharedSame, RegistrySame, ServerSame
    <2> QED BY <2>1, <2>2, <2>3, <1>b, <1>c, BystanderShape DEF Shape
  <1>6. CASE Serve(t)
    <2>0. ServeEffect(t)
      BY <1>6, ServeDoes
    <2>1. TaskShape(t)'
      BY <2>0, <1>a, <1>b, NoReplyIs, OnlyIs, AnswerIs
         DEF ServeEffect, TaskShape, RowTypes, Requesting, SharedSame
    <2>2. \A u \in Task \ {t} :
             Same(u) /\ (reinit' = u <=> reinit = u) /\ (phase[u] = "reinit" => epoch' = epoch)
      BY <2>0 DEF ServeEffect, OthersSame, SharedSame
    <2>3. issued <= issued' /\ epoch <= epoch' /\ sid' <= issued' /\ (healthy' => indexed')
      BY <2>0, <1>a, <1>b DEF ServeEffect, SharedSame, RegistrySame
    <2> QED BY <2>1, <2>2, <2>3, <1>b, <1>c, BystanderShape DEF Shape
  <1>7. CASE Unauthorized(t)
    <2>0. UnauthorizedEffect(t)
      BY <1>7, UnauthorizedDoes
    <2>1. TaskShape(t)'
      BY <2>0, <1>a, NoReplyIs, OnlyIs
         DEF UnauthorizedEffect, TaskShape, Requesting, SharedSame, ServerSame
    <2>2. \A u \in Task \ {t} :
             Same(u) /\ (reinit' = u <=> reinit = u) /\ (phase[u] = "reinit" => epoch' = epoch)
      BY <2>0 DEF UnauthorizedEffect, OthersSame, SharedSame
    <2>3. issued <= issued' /\ epoch <= epoch' /\ sid' <= issued' /\ (healthy' => indexed')
      BY <2>0, <1>a, <1>b DEF UnauthorizedEffect, SharedSame, RegistrySame, ServerSame
    <2> QED BY <2>1, <2>2, <2>3, <1>b, <1>c, BystanderShape DEF Shape
  <1>8. CASE JobDone(t)
    <2>0. JobDoneEffect(t)
      BY <1>8, JobDoneDoes
    <2>1. TaskShape(t)'
      BY <2>0, <1>a, <1>b, NoReplyIs DEF JobDoneEffect, TaskShape, ServerSame
    <2>2. \A u \in Task \ {t} :
             Same(u) /\ (reinit' = u <=> reinit = u) /\ (phase[u] = "reinit" => epoch' = epoch)
      BY <2>0 DEF JobDoneEffect, OthersSame
    <2>3. issued <= issued' /\ epoch <= epoch' /\ sid' <= issued' /\ (healthy' => indexed')
      BY <2>0, <1>a, <1>b DEF JobDoneEffect, ServerSame, TaskShape
    <2> QED BY <2>1, <2>2, <2>3, <1>b, <1>c, BystanderShape DEF Shape
  <1>9. CASE JobLostSession(t)
    <2>0. JobLostEffect(t)
      BY <1>9, JobLostDoes
    <2>1. TaskShape(t)'
      BY <2>0, <1>a DEF JobLostEffect, TaskShape, ServerSame
    <2>2. \A u \in Task \ {t} :
             Same(u) /\ (reinit' = u <=> reinit = u) /\ (phase[u] = "reinit" => epoch' = epoch)
      BY <2>0 DEF JobLostEffect, OthersSame
    <2>3. issued <= issued' /\ epoch <= epoch' /\ sid' <= issued' /\ (healthy' => indexed')
      BY <2>0, <1>a, <1>b DEF JobLostEffect, RegistrySame, ServerSame, TaskShape
    <2> QED BY <2>1, <2>2, <2>3, <1>b, <1>c, BystanderShape DEF Shape
  <1>10. CASE AcquireToken(t)
    <2>0. AcquireEffect(t)
      BY <1>10, AcquireDoes
    <2>1. TaskShape(t)'
      BY <2>0, <1>a DEF AcquireEffect, TaskShape, Requesting, SharedSame, ServerSame
    <2>2. \A u \in Task \ {t} :
             Same(u) /\ (reinit' = u <=> reinit = u) /\ (phase[u] = "reinit" => epoch' = epoch)
      BY <2>0 DEF AcquireEffect, OthersSame, SharedSame
    <2>3. issued <= issued' /\ epoch <= epoch' /\ sid' <= issued' /\ (healthy' => indexed')
      BY <2>0, <1>a, <1>b DEF AcquireEffect, SharedSame, RegistrySame, ServerSame
    <2> QED BY <2>1, <2>2, <2>3, <1>b, <1>c, BystanderShape DEF Shape
  <1>11. CASE TokenAcquired(t)
    <2>0. TokenEffect(t)
      BY <1>11, TokenDoes
    <2>1. TaskShape(t)'
      BY <2>0, <1>a, <1>b, NoReplyIs, OnlyIs
         DEF TokenEffect, TaskShape, Requesting, SharedSame, ServerSame
    <2>2. \A u \in Task \ {t} :
             Same(u) /\ (reinit' = u <=> reinit = u) /\ (phase[u] = "reinit" => epoch' = epoch)
      BY <2>0 DEF TokenEffect, OthersSame, SharedSame
    <2>3. issued <= issued' /\ epoch <= epoch' /\ sid' <= issued' /\ (healthy' => indexed')
      BY <2>0, <1>a, <1>b DEF TokenEffect, SharedSame, RegistrySame, ServerSame
    <2> QED BY <2>1, <2>2, <2>3, <1>b, <1>c, BystanderShape DEF Shape
  <1>12. CASE Reinitialize(t)
    <2>0. ReinitializeEffect(t)
      BY <1>12, ReinitializeDoes
    <2>1. TaskShape(t)'
      BY <2>0, <1>a, <1>b, NoReplyIs DEF ReinitializeEffect, TaskShape, Requesting, ServerSame
    <2>2. \A u \in Task \ {t} :
             Same(u) /\ (reinit' = u <=> reinit = u) /\ (phase[u] = "reinit" => epoch' = epoch)
      BY <2>0, <1>c DEF ReinitializeEffect, OthersSame, RowTypes
    <2>3. issued <= issued' /\ epoch <= epoch' /\ sid' <= issued' /\ (healthy' => indexed')
      BY <2>0, <1>a, <1>b, NoReplyIs DEF ReinitializeEffect, RegistrySame, ServerSame
    <2> QED BY <2>1, <2>2, <2>3, <1>b, <1>c, BystanderShape DEF Shape
  <1>13. CASE Initialized(t)
    <2>0. InitializedEffect(t)
      BY <1>13, InitializedDoes
    <2>1. TaskShape(t)'
      BY <2>0, <1>a DEF InitializedEffect, TaskShape, ServerSame
    <2>2. \A u \in Task \ {t} :
             Same(u) /\ (reinit' = u <=> reinit = u) /\ (phase[u] = "reinit" => epoch' = epoch)
      BY <2>0 DEF InitializedEffect, OthersSame
    <2>3. issued <= issued' /\ epoch <= epoch' /\ sid' <= issued' /\ (healthy' => indexed')
      BY <2>0, <1>a, <1>b DEF InitializedEffect, RegistrySame, ServerSame, TaskShape
    <2> QED BY <2>1, <2>2, <2>3, <1>b, <1>c, BystanderShape DEF Shape
  <1>14. CASE HandshakeDone(t)
    <2>0. HandshakeDoneEffect(t)
      BY <1>14, HandshakeDoneDoes
    <2>1. TaskShape(t)'
      BY <2>0, <1>a, <1>b, NoReplyIs DEF HandshakeDoneEffect, TaskShape, RowTypes, ServerSame
    <2>2. \A u \in Task \ {t} :
             Same(u) /\ (reinit' = u <=> reinit = u) /\ (phase[u] = "reinit" => epoch' = epoch)
      BY <2>0, <1>c DEF HandshakeDoneEffect, OthersSame, TaskShape, RowTypes
    <2>3. issued <= issued' /\ epoch <= epoch' /\ sid' <= issued' /\ (healthy' => indexed')
      BY <2>0, <1>a, <1>b DEF HandshakeDoneEffect, RegistrySame, ServerSame
    <2> QED BY <2>1, <2>2, <2>3, <1>b, <1>c, BystanderShape DEF Shape
  <1>15. CASE HandshakeFailed(t)
    <2>0. HandshakeFailedEffect(t)
      BY <1>15, HandshakeFailedDoes
    <2>1. TaskShape(t)'
      BY <2>0, <1>a, <1>b, NoReplyIs DEF HandshakeFailedEffect, TaskShape, RowTypes
    <2>2. \A u \in Task \ {t} :
             Same(u) /\ (reinit' = u <=> reinit = u) /\ (phase[u] = "reinit" => epoch' = epoch)
      BY <2>0, <1>c DEF HandshakeFailedEffect, OthersSame, TaskShape, RowTypes
    <2>3. issued <= issued' /\ epoch <= epoch' /\ sid' <= issued' /\ (healthy' => indexed')
      BY <2>0, <1>a, <1>b DEF HandshakeFailedEffect, ServerSame, TaskShape
    <2> QED BY <2>1, <2>2, <2>3, <1>b, <1>c, BystanderShape DEF Shape
  <1>16. CASE Abandon(t)
    <2>0. AbandonEffect(t)
      BY <1>16, AbandonDoes
    <2>1. TaskShape(t)'
      BY <2>0, <1>a, <1>b, NoReplyIs DEF AbandonEffect, TaskShape, RowTypes, ServerSame
    <2>2. \A u \in Task \ {t} :
             Same(u) /\ (reinit' = u <=> reinit = u) /\ (phase[u] = "reinit" => epoch' = epoch)
      BY <2>0, <1>c DEF AbandonEffect, OthersSame, RowTypes
    <2>3. issued <= issued' /\ epoch <= epoch' /\ sid' <= issued' /\ (healthy' => indexed')
      BY <2>0, <1>a, <1>b DEF AbandonEffect, RegistrySame, ServerSame
    <2> QED BY <2>1, <2>2, <2>3, <1>b, <1>c, BystanderShape DEF Shape
  <1> QED BY <1>1, <1>2, <1>3, <1>4, <1>5, <1>6, <1>7, <1>8, <1>9, <1>10, <1>11, <1>12, <1>13,
          <1>14, <1>15, <1>16
          DEF Act, Step, Proceed

-----------------------------------------------------------------------------
(* While nothing has collided: a connect runs alone, jobs run connected.   *)

InConnect(t) == phase[t] = "connect" /\ pc[t] \in Requesting \union {"notify"}
InJob(t) ==
    \/ pc[t] \in {"start", "wait_reinit"}
    \/ phase[t] # "connect" /\ pc[t] \in Requesting \union {"notify"}

AloneAt(t) ==
    /\ InConnect(t) => ~connected
    /\ InConnect(t) => \A u \in Task \ {t} : pc[u] \in {"idle", "disconnect", "connect"}
    /\ InJob(t) => connected

Alone ==
    /\ \A t \in Task : AloneAt(t)
    /\ ~connected => ~indexed

LEMMA AloneStep ==
    ASSUME TypeOK, TypeOK', Shape, Alone, ~collided', NEW t \in Task, Act(t)
    PROVE  Alone'
  <1>a. AloneAt(t) /\ TaskShape(t) /\ RowTypes(t) /\ (~connected => ~indexed)
    BY RowTyped DEF Shape, Alone
  <1>b. \A u \in Task : AloneAt(u) /\ TaskShape(u)
    BY DEF Shape, Alone
  <1>1. CASE Arrive(t)
    <2>0. ArriveEffect(t)
      BY <1>1, ArriveDoes
    <2>1. AloneAt(t)'
      BY <2>0 DEF ArriveEffect, AloneAt, InConnect, InJob, Requesting, SharedSame
    <2>2. ASSUME NEW u \in Task \ {t} PROVE AloneAt(u)'
      BY <2>0, <1>b DEF ArriveEffect, AloneAt, InConnect, InJob, SharedSame, OthersSame, Same
    <2>3. ~connected' => ~indexed'
      BY <2>0, <1>a DEF ArriveEffect, SharedSame
    <2> QED BY <2>1, <2>2, <2>3 DEF Alone
  <1>2. CASE Disconnect(t)
    <2>0. DisconnectEffect(t)
      BY <1>2, DisconnectDoes
    <2>1. AloneAt(t)'
      BY <2>0 DEF DisconnectEffect, AloneAt, InConnect, InJob, Requesting
    <2>2. ASSUME NEW u \in Task \ {t} PROVE AloneAt(u)'
      BY <2>0 DEF DisconnectEffect, AloneAt, InJob, Requesting, OthersSame, Same
    <2>3. ~connected' => ~indexed'
      BY <2>0 DEF DisconnectEffect, RegistrySame
    <2> QED BY <2>1, <2>2, <2>3 DEF Alone
  <1>3. CASE Connect(t)
    <2>0. ConnectEffect(t)
      BY <1>3, ConnectDoes
    <2>1. AloneAt(t)'
      BY <2>0 DEF ConnectEffect, AloneAt, InConnect, InJob, Requesting, SharedSame, OthersSame, Same
    <2>2. ASSUME NEW u \in Task \ {t} PROVE AloneAt(u)'
      BY <2>0, <1>b
         DEF ConnectEffect, AloneAt, InConnect, InJob, SharedSame, TaskShape, OthersSame, Same
    <2>3. ~connected' => ~indexed'
      BY <2>0, <1>a DEF ConnectEffect, SharedSame, RegistrySame
    <2> QED BY <2>1, <2>2, <2>3 DEF Alone
  <1>4. CASE LoadEpoch(t)
    <2>0. LoadEpochEffect(t)
      BY <1>4, LoadEpochDoes
    <2>1. AloneAt(t)'
      BY <2>0, <1>a DEF LoadEpochEffect, AloneAt, InConnect, InJob, SharedSame
    <2>2. ASSUME NEW u \in Task \ {t} PROVE AloneAt(u)'
      BY <2>0, <1>b DEF LoadEpochEffect, AloneAt, InConnect, InJob, SharedSame, OthersSame, Same
    <2>3. ~connected' => ~indexed'
      BY <2>0, <1>a DEF LoadEpochEffect, SharedSame, RegistrySame
    <2> QED BY <2>1, <2>2, <2>3 DEF Alone
  <1>5. CASE Send(t)
    <2>0. SendEffect(t)
      BY <1>5, SendDoes
    <2>1. AloneAt(t)'
      BY <2>0, <1>a
         DEF SendEffect, AloneAt, InConnect, InJob, Requesting, SharedSame, OthersSame, Same
    <2>2. ASSUME NEW u \in Task \ {t} PROVE AloneAt(u)'
      BY <2>0, <1>b DEF SendEffect, AloneAt, InConnect, InJob, SharedSame, OthersSame, Same
    <2>3. ~connected' => ~indexed'
      BY <2>0, <1>a DEF SendEffect, SharedSame, RegistrySame
    <2> QED BY <2>1, <2>2, <2>3 DEF Alone
  <1>6. CASE Serve(t)
    <2>0. ServeEffect(t)
      BY <1>6, ServeDoes
    <2>1. AloneAt(t)'
      BY <2>0, <1>a
         DEF ServeEffect, AloneAt, InConnect, InJob, Requesting, SharedSame, OthersSame, Same
    <2>2. ASSUME NEW u \in Task \ {t} PROVE AloneAt(u)'
      BY <2>0, <1>b DEF ServeEffect, AloneAt, InConnect, InJob, SharedSame, OthersSame, Same
    <2>3. ~connected' => ~indexed'
      BY <2>0, <1>a DEF ServeEffect, SharedSame, RegistrySame
    <2> QED BY <2>1, <2>2, <2>3 DEF Alone
  <1>7. CASE Unauthorized(t)
    <2>0. UnauthorizedEffect(t)
      BY <1>7, UnauthorizedDoes
    <2>1. AloneAt(t)'
      BY <2>0, <1>a
         DEF UnauthorizedEffect, AloneAt, InConnect, InJob, Requesting, SharedSame, OthersSame, Same
    <2>2. ASSUME NEW u \in Task \ {t} PROVE AloneAt(u)'
      BY <2>0, <1>b DEF UnauthorizedEffect, AloneAt, InConnect, InJob, SharedSame, OthersSame, Same
    <2>3. ~connected' => ~indexed'
      BY <2>0, <1>a DEF UnauthorizedEffect, SharedSame, RegistrySame
    <2> QED BY <2>1, <2>2, <2>3 DEF Alone
  <1>8. CASE JobDone(t)
    <2>0. JobDoneEffect(t)
      BY <1>8, JobDoneDoes
    <2>1. AloneAt(t)'
      BY <2>0 DEF JobDoneEffect, AloneAt, InConnect, InJob, Requesting
    <2>2. ASSUME NEW u \in Task \ {t} PROVE AloneAt(u)'
      BY <2>0, <1>b DEF JobDoneEffect, AloneAt, InConnect, InJob, OthersSame, Same
    <2>3. ~connected' => ~indexed'
      BY <2>0, <1>a DEF JobDoneEffect, InJob, Requesting, AloneAt
    <2> QED BY <2>1, <2>2, <2>3 DEF Alone
  <1>9. CASE JobLostSession(t)
    <2>0. JobLostEffect(t)
      BY <1>9, JobLostDoes
    <2>1. AloneAt(t)'
      BY <2>0, <1>a DEF JobLostEffect, AloneAt, InConnect, InJob, Requesting
    <2>2. ASSUME NEW u \in Task \ {t} PROVE AloneAt(u)'
      BY <2>0, <1>b DEF JobLostEffect, AloneAt, InConnect, InJob, OthersSame, Same
    <2>3. ~connected' => ~indexed'
      BY <2>0, <1>a DEF JobLostEffect, RegistrySame
    <2> QED BY <2>1, <2>2, <2>3 DEF Alone
  <1>10. CASE AcquireToken(t)
    <2>0. AcquireEffect(t)
      BY <1>10, AcquireDoes
    <2>1. AloneAt(t)'
      BY <2>0, <1>a
         DEF AcquireEffect, AloneAt, InConnect, InJob, Requesting, SharedSame, OthersSame, Same
    <2>2. ASSUME NEW u \in Task \ {t} PROVE AloneAt(u)'
      BY <2>0, <1>b DEF AcquireEffect, AloneAt, InConnect, InJob, SharedSame, OthersSame, Same
    <2>3. ~connected' => ~indexed'
      BY <2>0, <1>a DEF AcquireEffect, SharedSame, RegistrySame
    <2> QED BY <2>1, <2>2, <2>3 DEF Alone
  <1>11. CASE TokenAcquired(t)
    <2>0. TokenEffect(t)
      BY <1>11, TokenDoes
    <2>1. AloneAt(t)'
      BY <2>0, <1>a
         DEF TokenEffect, AloneAt, InConnect, InJob, Requesting, SharedSame, OthersSame, Same
    <2>2. ASSUME NEW u \in Task \ {t} PROVE AloneAt(u)'
      BY <2>0, <1>b DEF TokenEffect, AloneAt, InConnect, InJob, SharedSame, OthersSame, Same
    <2>3. ~connected' => ~indexed'
      BY <2>0, <1>a DEF TokenEffect, SharedSame, RegistrySame
    <2> QED BY <2>1, <2>2, <2>3 DEF Alone
  <1>12. CASE Reinitialize(t)
    <2>0. ReinitializeEffect(t)
      BY <1>12, ReinitializeDoes
    <2>1. AloneAt(t)'
      BY <2>0, <1>a DEF ReinitializeEffect, AloneAt, InConnect, InJob
    <2>2. ASSUME NEW u \in Task \ {t} PROVE AloneAt(u)'
      BY <2>0, <1>b DEF ReinitializeEffect, AloneAt, InConnect, InJob, OthersSame, Same
    <2>3. ~connected' => ~indexed'
      BY <2>0, <1>a DEF ReinitializeEffect, RegistrySame
    <2> QED BY <2>1, <2>2, <2>3 DEF Alone
  <1>13. CASE Initialized(t)
    <2>0. InitializedEffect(t)
      BY <1>13, InitializedDoes
    <2>1. AloneAt(t)'
      BY <2>0, <1>a DEF InitializedEffect, AloneAt, InConnect, InJob, Requesting, OthersSame, Same
    <2>2. ASSUME NEW u \in Task \ {t} PROVE AloneAt(u)'
      BY <2>0, <1>b DEF InitializedEffect, AloneAt, InConnect, InJob, OthersSame, Same
    <2>3. ~connected' => ~indexed'
      BY <2>0, <1>a DEF InitializedEffect, RegistrySame
    <2> QED BY <2>1, <2>2, <2>3 DEF Alone
  <1>14. CASE HandshakeDone(t)
    <2>0. HandshakeDoneEffect(t)
      BY <1>14, HandshakeDoneDoes
    <2>1. AloneAt(t)'
      BY <2>0, <1>a DEF HandshakeDoneEffect, AloneAt, InConnect, InJob, Requesting
    <2>2. ASSUME NEW u \in Task \ {t} PROVE AloneAt(u)'
      BY <2>0, <1>b DEF HandshakeDoneEffect, AloneAt, InConnect, InJob, OthersSame, Same
    <2>3. ~connected' => ~indexed'
      BY <2>0, <1>a DEF HandshakeDoneEffect, RegistrySame
    <2> QED BY <2>1, <2>2, <2>3 DEF Alone
  <1>15. CASE HandshakeFailed(t)
    <2>0. HandshakeFailedEffect(t)
      BY <1>15, HandshakeFailedDoes
    <2>1. AloneAt(t)'
      BY <2>0 DEF HandshakeFailedEffect, AloneAt, InConnect, InJob, Requesting
    <2>2. ASSUME NEW u \in Task \ {t} PROVE AloneAt(u)'
      BY <2>0, <1>b DEF HandshakeFailedEffect, AloneAt, InConnect, InJob, OthersSame, Same
    <2>3. ~connected' => ~indexed'
      BY <2>0, <1>a DEF HandshakeFailedEffect
    <2> QED BY <2>1, <2>2, <2>3 DEF Alone
  <1>16. CASE Abandon(t)
    <2>0. AbandonEffect(t)
      BY <1>16, AbandonDoes
    <2>1. AloneAt(t)'
      BY <2>0 DEF AbandonEffect, AloneAt, InConnect, InJob, Requesting
    <2>2. ASSUME NEW u \in Task \ {t} PROVE AloneAt(u)'
      BY <2>0, <1>b DEF AbandonEffect, AloneAt, InConnect, InJob, OthersSame, Same
    <2>3. ~connected' => ~indexed'
      BY <2>0, <1>a DEF AbandonEffect, RegistrySame
    <2> QED BY <2>1, <2>2, <2>3 DEF Alone
  <1> QED BY <1>1, <1>2, <1>3, <1>4, <1>5, <1>6, <1>7, <1>8, <1>9, <1>10, <1>11, <1>12, <1>13,
          <1>14, <1>15, <1>16
          DEF Act, Step, Proceed

-----------------------------------------------------------------------------
(* While nothing has collided, with a server that does not echo: a lost     *)
(* session is paid for once.                                               *)

Forgotten(s) == IF s \in known \union {NoSession} THEN 0 ELSE 1
Lost(t) == reply[t].kind \in {"http_404", "not_initialized"}

\* The session in use is set after a handshake, and not while one is fetched.
InUseAt(t) ==
    /\ pc[t] = "notify" => sid # NoSession
    /\ phase[t] = "reinit" /\ pc[t] # "notify" => sid = NoSession
    /\ phase[t] = "job" => reply[t].session = NoSession

\* The session a finished connect is about to install is covered by a crash too.
PaidAt(t) ==
    InConnect(t) /\ pc[t] = "replied" => reinits + Forgotten(reply[t].session) <= crashes

\* Whoever believes that the current session is lost, rightly or because a
\* dropped call has left its handshake unfinished, has a crash to show for it.
NoticedAt(t) == seen[t] = epoch /\ reinit = NoTask =>
    /\ phase[t] = "job" /\ pc[t] \in {"sent", "replied", "token"} => sent[t] = sid \/ reinits < crashes
    /\ phase[t] = "job" /\ pc[t] = "replied" /\ Lost(t) => reinits < crashes
    /\ pc[t] = "wait_reinit" => reinits < crashes

Debt ==
    /\ \A t \in Task : InUseAt(t) /\ PaidAt(t) /\ NoticedAt(t)
    /\ reinits + PendingLosses <= crashes

LEMMA DebtStep ==
    ASSUME TypeOK, TypeOK', Shape, Shape', Alone, Debt, ~style.echo, ~collided', NEW t \in Task, Act(t)
    PROVE  Debt'
  <1>a. /\ TaskShape(t) /\ RowTypes(t) /\ AloneAt(t) /\ InUseAt(t) /\ PaidAt(t) /\ NoticedAt(t)
        /\ TaskShape(t)' /\ RowTypes(t)' /\ sid <= issued
        /\ reinits + PendingLosses <= crashes
    BY RowTyped, RowTypedNext DEF Shape, Alone, Debt
  <1>b. \A u \in Task : /\ TaskShape(u) /\ RowTypes(u) /\ AloneAt(u)
                        /\ InUseAt(u) /\ PaidAt(u) /\ NoticedAt(u)
    BY RowTyped DEF Shape, Alone, Debt
  <1>c. /\ sid \in Nat /\ issued \in Nat /\ epoch \in Nat /\ reinits \in Nat /\ crashes \in Nat
        /\ known \subseteq 1 .. issued /\ sid' \in Nat /\ reinit \in Task \union {NoTask}
    BY SharedTyped, SharedTypedNext DEF TypeOK
  <1>1. CASE Arrive(t)
    <2>0. ArriveEffect(t)
      BY <1>1, ArriveDoes
    <2>1. InUseAt(t)' /\ PaidAt(t)'
      BY <2>0, <1>b DEF ArriveEffect, InUseAt, PaidAt, SharedSame, ServerSame
    <2>2. NoticedAt(t)'
      BY <2>0 DEF ArriveEffect, NoticedAt
    <2>3. ASSUME NEW u \in Task \ {t} PROVE InUseAt(u)' /\ PaidAt(u)'
      BY <2>0, <1>b
         DEF ArriveEffect, InUseAt, PaidAt, Forgotten, InConnect, SharedSame, ServerSame,
             CountsSame, OthersSame, Same
    <2>4. ASSUME NEW u \in Task \ {t} PROVE NoticedAt(u)'
      BY <2>0, <1>b DEF ArriveEffect, NoticedAt, Lost, CountsSame, SharedSame, ServerSame, OthersSame, Same
    <2>6. reinits' + PendingLosses' <= crashes'
      BY <2>0, <1>a, <1>c
         DEF ArriveEffect, SharedSame, ServerSame, CountsSame, OthersSame, Same, PendingLosses,
             Current, Bereft
    <2> QED BY <2>1, <2>2, <2>3, <2>4, <2>6 DEF Debt
  <1>2. CASE Disconnect(t)
    <2>0. DisconnectEffect(t)
      BY <1>2, DisconnectDoes
    <2>1. InUseAt(t)' /\ PaidAt(t)'
      BY <2>0, <1>b DEF DisconnectEffect, InUseAt, PaidAt, ServerSame
    <2>2. NoticedAt(t)'
      BY <2>0 DEF DisconnectEffect, NoticedAt
    <2>3. ASSUME NEW u \in Task \ {t} PROVE InUseAt(u)' /\ PaidAt(u)'
      BY <2>0, <1>b DEF DisconnectEffect, InUseAt, PaidAt, OthersSame, Same, TaskShape
    <2>4. ASSUME NEW u \in Task \ {t} PROVE NoticedAt(u)'
      BY <2>0 DEF DisconnectEffect, NoticedAt, OthersSame, Same
    <2>6. reinits' + PendingLosses' <= crashes'
      BY <2>0, <1>a, <1>b, <1>c
         DEF DisconnectEffect, ServerSame, CountsSame, TaskShape, PendingLosses, Current, Bereft
    <2> QED BY <2>1, <2>2, <2>3, <2>4, <2>6 DEF Debt
  <1>3. CASE Connect(t)
    <2>0. ConnectEffect(t)
      BY <1>3, ConnectDoes
    <2>1. InUseAt(t)' /\ PaidAt(t)'
      BY <2>0, <1>b DEF ConnectEffect, InUseAt, PaidAt, SharedSame, ServerSame
    <2>2. NoticedAt(t)'
      BY <2>0 DEF ConnectEffect, NoticedAt
    <2>3. ASSUME NEW u \in Task \ {t} PROVE InUseAt(u)' /\ PaidAt(u)'
      BY <2>0, <1>b
         DEF ConnectEffect, InUseAt, PaidAt, InConnect, AloneAt, SharedSame, ServerSame, OthersSame,
             Same
    <2>4. ASSUME NEW u \in Task \ {t} PROVE NoticedAt(u)'
      BY <2>0, <1>b DEF ConnectEffect, NoticedAt, Lost, CountsSame, SharedSame, ServerSame, OthersSame, Same
    <2>6. reinits' + PendingLosses' <= crashes'
      BY <2>0, <1>a, <1>c
         DEF ConnectEffect, SharedSame, ServerSame, CountsSame, OthersSame, Same, TaskShape,
             PendingLosses, Current, Bereft
    <2> QED BY <2>1, <2>2, <2>3, <2>4, <2>6 DEF Debt
  <1>4. CASE LoadEpoch(t)
    <2>0. LoadEpochEffect(t)
      BY <1>4, LoadEpochDoes
    <2>1. InUseAt(t)' /\ PaidAt(t)'
      BY <2>0, NoReplyIs DEF LoadEpochEffect, InUseAt, PaidAt
    <2>2. NoticedAt(t)'
      BY <2>0 DEF LoadEpochEffect, NoticedAt
    <2>3. ASSUME NEW u \in Task \ {t} PROVE InUseAt(u)' /\ PaidAt(u)'
      BY <2>0, <1>b
         DEF LoadEpochEffect, InUseAt, PaidAt, InConnect, AloneAt, SharedSame, ServerSame,
             OthersSame, Same
    <2>4. ASSUME NEW u \in Task \ {t} PROVE NoticedAt(u)'
      BY <2>0, <1>b DEF LoadEpochEffect, NoticedAt, Lost, CountsSame, SharedSame, ServerSame, OthersSame, Same
    <2>6. reinits' + PendingLosses' <= crashes'
      BY <2>0, <1>a, <1>c
         DEF LoadEpochEffect, SharedSame, ServerSame, CountsSame, OthersSame, Same, TaskShape,
             PendingLosses, Current, Bereft
    <2> QED BY <2>1, <2>2, <2>3, <2>4, <2>6 DEF Debt
  <1>5. CASE Send(t)
    <2>0. SendEffect(t)
      BY <1>5, SendDoes
    <2>1. InUseAt(t)' /\ PaidAt(t)'
      BY <2>0, <1>b DEF SendEffect, InUseAt, PaidAt, SharedSame, ServerSame
    <2>2. NoticedAt(t)'
      BY <2>0 DEF SendEffect, NoticedAt, SharedSame
    <2>3. ASSUME NEW u \in Task \ {t} PROVE InUseAt(u)' /\ PaidAt(u)'
      BY <2>0, <1>b
         DEF SendEffect, InUseAt, PaidAt, InConnect, AloneAt, SharedSame, ServerSame, OthersSame,
             Same
    <2>4. ASSUME NEW u \in Task \ {t} PROVE NoticedAt(u)'
      BY <2>0, <1>b DEF SendEffect, NoticedAt, Lost, CountsSame, SharedSame, ServerSame, OthersSame, Same
    <2>6. reinits' + PendingLosses' <= crashes'
      BY <2>0, <1>a, <1>c
         DEF SendEffect, SharedSame, ServerSame, CountsSame, OthersSame, Same, PendingLosses,
             Current, Bereft
    <2> QED BY <2>1, <2>2, <2>3, <2>4, <2>6 DEF Debt
  <1>6. CASE Serve(t)
    <2>0. ServeEffect(t)
      BY <1>6, ServeDoes
    <2>1. InUseAt(t)' /\ PaidAt(t)'
      BY <2>0, <1>a, <1>c, OnlyIs, AnswerIs
         DEF ServeEffect, InUseAt, PaidAt, Forgotten, SharedSame, CountsSame, TaskShape, NoSession,
             PendingLosses
    <2>2. NoticedAt(t)'
      <3>1. phase[t] = "job" /\ sent[t] = sid /\ reinit = NoTask /\ sid \notin known => reinits < crashes
        BY <2>0, <1>a, <1>c
           DEF ServeEffect, AloneAt, InJob, Requesting, PendingLosses, Current, Bereft
      <3>2. phase[t] = "job" /\ Lost(t)' => sent[t] \notin known
        BY <2>0, <1>a, OnlyIs, AnswerIs DEF ServeEffect, Lost
      <3> QED BY <3>1, <3>2, <2>0, <1>a DEF ServeEffect, NoticedAt, SharedSame, CountsSame
    <2>3. ASSUME NEW u \in Task \ {t} PROVE InUseAt(u)' /\ PaidAt(u)'
      BY <2>0, <1>b, <1>c
         DEF ServeEffect, InUseAt, PaidAt, Forgotten, InConnect, SharedSame, CountsSame, OthersSame,
             Same, TaskShape
    <2>4. ASSUME NEW u \in Task \ {t} PROVE NoticedAt(u)'
      BY <2>0, <1>a, <1>b, <1>c DEF ServeEffect, NoticedAt, Lost, CountsSame, SharedSame, OthersSame, Same
    <2>6. reinits' + PendingLosses' <= crashes'
      BY <2>0, <1>a, <1>c, OnlyIs, AnswerIs
         DEF ServeEffect, SharedSame, CountsSame, OthersSame, Same, TaskShape, PendingLosses,
             Current, Bereft
    <2> QED BY <2>1, <2>2, <2>3, <2>4, <2>6 DEF Debt
  <1>7. CASE Unauthorized(t)
    <2>0. UnauthorizedEffect(t)
      BY <1>7, UnauthorizedDoes
    <2>1. InUseAt(t)' /\ PaidAt(t)'
      BY <2>0, <1>a, <1>c, OnlyIs
         DEF UnauthorizedEffect, InUseAt, PaidAt, Forgotten, SharedSame, ServerSame, CountsSame,
             NoSession, PendingLosses
    <2>2. NoticedAt(t)'
      BY <2>0, <1>b, OnlyIs DEF UnauthorizedEffect, NoticedAt, Lost, SharedSame, CountsSame
    <2>3. ASSUME NEW u \in Task \ {t} PROVE InUseAt(u)' /\ PaidAt(u)'
      BY <2>0, <1>b
         DEF UnauthorizedEffect, InUseAt, PaidAt, InConnect, AloneAt, SharedSame, ServerSame,
             OthersSame, Same
    <2>4. ASSUME NEW u \in Task \ {t} PROVE NoticedAt(u)'
      BY <2>0, <1>b
         DEF UnauthorizedEffect, NoticedAt, Lost, CountsSame, SharedSame, ServerSame, OthersSame, Same
    <2>6. reinits' + PendingLosses' <= crashes'
      BY <2>0, <1>a, <1>c, OnlyIs
         DEF UnauthorizedEffect, SharedSame, ServerSame, CountsSame, OthersSame, Same, NoSession,
             PendingLosses, Current, Bereft
    <2> QED BY <2>1, <2>2, <2>3, <2>4, <2>6 DEF Debt
  <1>8. CASE JobDone(t)
    <2>0. JobDoneEffect(t)
      BY <1>8, JobDoneDoes
    <2>1. InUseAt(t)' /\ PaidAt(t)'
      BY <2>0, NoReplyIs DEF JobDoneEffect, InUseAt, PaidAt
    <2>2. NoticedAt(t)'
      BY <2>0 DEF JobDoneEffect, NoticedAt
    <2>3. ASSUME NEW u \in Task \ {t} PROVE InUseAt(u)' /\ PaidAt(u)'
      BY <2>0, <1>b
         DEF JobDoneEffect, InUseAt, PaidAt, Forgotten, InConnect, ServerSame, CountsSame,
             OthersSame, Same
    <2>4. ASSUME NEW u \in Task \ {t} PROVE NoticedAt(u)'
      <3>1. sid' = sid
        BY <2>0, <1>a DEF JobDoneEffect, InUseAt
      <3> QED BY <3>1, <2>0, <1>b DEF JobDoneEffect, NoticedAt, Lost, CountsSame, ServerSame, OthersSame, Same
    <2>6. reinits' + PendingLosses' <= crashes'
      BY <2>0, <1>a, <1>c
         DEF JobDoneEffect, InUseAt, ServerSame, CountsSame, OthersSame, Same, TaskShape,
             PendingLosses, Current, Bereft
    <2> QED BY <2>1, <2>2, <2>3, <2>4, <2>6 DEF Debt
  <1>9. CASE JobLostSession(t)
    <2>0. JobLostEffect(t)
      BY <1>9, JobLostDoes
    <2>1. InUseAt(t)' /\ PaidAt(t)'
      BY <2>0, <1>b DEF JobLostEffect, InUseAt, PaidAt
    <2>2. NoticedAt(t)'
      BY <2>0, <1>b DEF JobLostEffect, InUseAt, NoticedAt, Lost, SessionLost, CountsSame, TaskShape
    <2>3. ASSUME NEW u \in Task \ {t} PROVE InUseAt(u)' /\ PaidAt(u)'
      BY <2>0, <1>b
         DEF JobLostEffect, InUseAt, PaidAt, Forgotten, InConnect, ServerSame, CountsSame,
             OthersSame, Same
    <2>4. ASSUME NEW u \in Task \ {t} PROVE NoticedAt(u)'
      <3>1. sid' = sid
        BY <2>0, <1>a DEF JobLostEffect, InUseAt
      <3> QED BY <3>1, <2>0, <1>b DEF JobLostEffect, NoticedAt, Lost, CountsSame, ServerSame, OthersSame, Same
    <2>6. reinits' + PendingLosses' <= crashes'
      BY <2>0, <1>a, <1>c
         DEF JobLostEffect, InUseAt, ServerSame, CountsSame, OthersSame, Same, PendingLosses,
             Current, Bereft
    <2> QED BY <2>1, <2>2, <2>3, <2>4, <2>6 DEF Debt
  <1>10. CASE AcquireToken(t)
    <2>0. AcquireEffect(t)
      BY <1>10, AcquireDoes
    <2>1. InUseAt(t)' /\ PaidAt(t)'
      BY <2>0, <1>b DEF AcquireEffect, InUseAt, PaidAt, SharedSame, ServerSame
    <2>2. NoticedAt(t)'
      BY <2>0, <1>b DEF AcquireEffect, NoticedAt, SharedSame, CountsSame
    <2>3. ASSUME NEW u \in Task \ {t} PROVE InUseAt(u)' /\ PaidAt(u)'
      BY <2>0, <1>b
         DEF AcquireEffect, InUseAt, PaidAt, InConnect, AloneAt, SharedSame, ServerSame, OthersSame,
             Same
    <2>4. ASSUME NEW u \in Task \ {t} PROVE NoticedAt(u)'
      BY <2>0, <1>b DEF AcquireEffect, NoticedAt, Lost, CountsSame, SharedSame, ServerSame, OthersSame, Same
    <2>6. reinits' + PendingLosses' <= crashes'
      BY <2>0, <1>a, <1>c
         DEF AcquireEffect, SharedSame, ServerSame, CountsSame, OthersSame, Same, PendingLosses,
             Current, Bereft
    <2> QED BY <2>1, <2>2, <2>3, <2>4, <2>6 DEF Debt
  <1>11. CASE TokenAcquired(t)
    <2>0. TokenEffect(t)
      BY <1>11, TokenDoes
    <2>1. InUseAt(t)' /\ PaidAt(t)'
      BY <2>0, <1>a, <1>c, NoReplyIs, OnlyIs
         DEF TokenEffect, InUseAt, PaidAt, Forgotten, SharedSame, ServerSame, CountsSame,
             PendingLosses
    <2>2. NoticedAt(t)'
      BY <2>0, <1>b, OnlyIs DEF TokenEffect, NoticedAt, Lost, SharedSame, CountsSame
    <2>3. ASSUME NEW u \in Task \ {t} PROVE InUseAt(u)' /\ PaidAt(u)'
      BY <2>0, <1>b
         DEF TokenEffect, InUseAt, PaidAt, InConnect, AloneAt, SharedSame, ServerSame, OthersSame,
             Same
    <2>4. ASSUME NEW u \in Task \ {t} PROVE NoticedAt(u)'
      BY <2>0, <1>b DEF TokenEffect, NoticedAt, Lost, CountsSame, SharedSame, ServerSame, OthersSame, Same
    <2>6. reinits' + PendingLosses' <= crashes'
      BY <2>0, <1>a, <1>c, NoReplyIs, OnlyIs
         DEF TokenEffect, SharedSame, ServerSame, CountsSame, OthersSame, Same, PendingLosses,
             Current, Bereft
    <2> QED BY <2>1, <2>2, <2>3, <2>4, <2>6 DEF Debt
  <1>12. CASE Reinitialize(t)
    <2>0. ReinitializeEffect(t)
      BY <1>12, ReinitializeDoes
    <2>1. InUseAt(t)' /\ PaidAt(t)'
      <3>1. CASE epoch # seen[t]
        BY <3>1, <2>0, NoReplyIs DEF ReinitializeEffect, InUseAt, PaidAt
      <3>2. CASE epoch = seen[t]
        <4>1. phase'[t] = "reinit" /\ sid' = NoSession /\ pc'[t] = "send" /\ reply'[t] = NoReply
          BY <3>2, <2>0 DEF ReinitializeEffect
        <4> QED BY <4>1 DEF InUseAt, PaidAt
      <3> QED BY <3>1, <3>2
    <2>2. NoticedAt(t)'
      BY <2>0 DEF ReinitializeEffect, NoticedAt
    <2>3. ASSUME NEW u \in Task \ {t} PROVE InUseAt(u)' /\ PaidAt(u)'
      <3>1. Same(u) /\ TaskShape(u) /\ RowTypes(u) /\ InUseAt(u)
        BY <2>0, <1>b DEF ReinitializeEffect, OthersSame
      <3>2. ~InConnect(u) /\ phase[u] # "reinit"
        BY <2>0, <1>b DEF ReinitializeEffect, AloneAt, TaskShape, RowTypes
      <3>3. phase[u] = "job" \/ pc[u] # "notify"
        BY <3>1, <3>2 DEF InConnect, RowTypes, Phase
      <3> QED BY <3>1, <3>2, <3>3 DEF InUseAt, PaidAt, InConnect, Same, TaskShape
    <2>4. ASSUME NEW u \in Task \ {t} PROVE NoticedAt(u)'
      BY <2>0, <1>b DEF ReinitializeEffect, NoticedAt, Lost, CountsSame, ServerSame, OthersSame, Same, RowTypes
    <2>6. reinits' + PendingLosses' <= crashes'
      <3>1. CASE epoch # seen[t]
        BY <3>1, <2>0, <1>a, <1>c
           DEF ReinitializeEffect, ServerSame, CountsSame, PendingLosses, Current, Bereft
      <3>2. CASE epoch = seen[t]
        <4>1. reinits < crashes
          BY <3>2, <2>0, <1>a DEF ReinitializeEffect, NoticedAt
        <4>2. PendingLosses' = 1
          BY <3>2, <2>0, <1>a, NoReplyIs DEF ReinitializeEffect, RowTypes, PendingLosses, Current, Bereft
        <4> QED BY <4>1, <4>2, <2>0, <1>c DEF ReinitializeEffect, CountsSame
      <3> QED BY <3>1, <3>2
    <2> QED BY <2>1, <2>2, <2>3, <2>4, <2>6 DEF Debt
  <1>13. CASE Initialized(t)
    <2>0. InitializedEffect(t)
      BY <1>13, InitializedDoes
    <2>1. InUseAt(t)' /\ PaidAt(t)'
      BY <2>0, <1>b DEF InitializedEffect, InUseAt, PaidAt, ServerSame, TaskShape
    <2>2. NoticedAt(t)'
      BY <2>0 DEF InitializedEffect, NoticedAt
    <2>3. ASSUME NEW u \in Task \ {t} PROVE InUseAt(u)' /\ PaidAt(u)'
      <3>1. CASE phase[t] = "connect"
        <4>1. \A v \in Task \ {t} : pc[v] = "idle" /\ phase[v] = "job" /\ reinit # v
          BY <3>1, <2>0, <1>b DEF InitializedEffect, TaskShape
        <4>2. reinit = NoTask /\ reinit' = NoTask /\ sid' = reply[t].session /\ sid' # NoSession
          BY <3>1, <4>1, <2>0, <1>a, <1>c DEF InitializedEffect, TaskShape
        <4> QED BY <4>1, <2>0, <1>b DEF InitializedEffect, InUseAt, PaidAt, OthersSame, Same
      <3>2. CASE phase[t] = "reinit"
        <4>1. reinit = t /\ reinit' = t /\ sid = NoSession /\ sid' = reply[t].session /\ sid' # NoSession
          BY <3>2, <2>0, <1>a DEF InitializedEffect, TaskShape, InUseAt
        <4> QED BY <4>1, <2>0, <1>b
                DEF InitializedEffect, InUseAt, PaidAt, Forgotten, InConnect, ServerSame,
                    CountsSame, OthersSame, Same, TaskShape
      <3> QED BY <3>1, <3>2, <2>0, <1>a DEF InitializedEffect, RowTypes, Phase
    <2>4. ASSUME NEW u \in Task \ {t} PROVE NoticedAt(u)'
      <3>1. CASE phase[t] = "connect"
        <4>1. \A v \in Task \ {t} : pc[v] = "idle" /\ phase[v] = "job" /\ reinit # v
          BY <3>1, <2>0, <1>b DEF InitializedEffect, TaskShape
        <4>2. reinit = NoTask /\ reinit' = NoTask /\ sid' = reply[t].session /\ sid' # NoSession
          BY <3>1, <4>1, <2>0, <1>a, <1>c DEF InitializedEffect, TaskShape
        <4> QED BY <4>1, <2>0 DEF InitializedEffect, NoticedAt, OthersSame, Same
      <3>2. CASE phase[t] = "reinit"
        <4>1. reinit = t /\ reinit' = t /\ sid = NoSession /\ sid' = reply[t].session /\ sid' # NoSession
          BY <3>2, <2>0, <1>a DEF InitializedEffect, TaskShape, InUseAt
        <4> QED BY <4>1, <1>b DEF NoticedAt, RowTypes
      <3> QED BY <3>1, <3>2, <2>0, <1>a DEF InitializedEffect, RowTypes, Phase
    <2>6. reinits' + PendingLosses' <= crashes'
      <3>1. CASE phase[t] = "connect"
        <4>1. \A v \in Task \ {t} : pc[v] = "idle" /\ phase[v] = "job" /\ reinit # v
          BY <3>1, <2>0, <1>b DEF InitializedEffect, TaskShape
        <4>2. reinit = NoTask /\ reinit' = NoTask /\ sid' = reply[t].session /\ sid' # NoSession
          BY <3>1, <4>1, <2>0, <1>a, <1>c DEF InitializedEffect, TaskShape
        <4> QED BY <3>1, <4>2, <2>0, <1>a
                DEF InitializedEffect, PaidAt, Forgotten, InConnect, Requesting, ServerSame,
                    CountsSame, PendingLosses, Current, Bereft
      <3>2. CASE phase[t] = "reinit"
        <4>1. reinit = t /\ reinit' = t /\ sid = NoSession /\ sid' = reply[t].session /\ sid' # NoSession
          BY <3>2, <2>0, <1>a DEF InitializedEffect, TaskShape, InUseAt
        <4> QED BY <4>1, <2>0, <1>a
                DEF InitializedEffect, ServerSame, CountsSame, RowTypes, PendingLosses, Current, Bereft
      <3> QED BY <3>1, <3>2, <2>0, <1>a DEF InitializedEffect, RowTypes, Phase
    <2> QED BY <2>1, <2>2, <2>3, <2>4, <2>6 DEF Debt
  <1>14. CASE HandshakeDone(t)
    <2>0. HandshakeDoneEffect(t)
      BY <1>14, HandshakeDoneDoes
    <2>1. InUseAt(t)' /\ PaidAt(t)'
      BY <2>0, <1>b, NoReplyIs DEF HandshakeDoneEffect, InUseAt, PaidAt
    <2>2. NoticedAt(t)'
      BY <2>0 DEF HandshakeDoneEffect, NoticedAt
    <2>3. ASSUME NEW u \in Task \ {t} PROVE InUseAt(u)' /\ PaidAt(u)'
      BY <2>0, <1>b
         DEF HandshakeDoneEffect, InUseAt, PaidAt, InConnect, AloneAt, ServerSame, OthersSame, Same
    <2>4. ASSUME NEW u \in Task \ {t} PROVE NoticedAt(u)'
      BY <2>0, <1>b
         DEF HandshakeDoneEffect, NoticedAt, Lost, CountsSame, ServerSame, OthersSame, Same, TaskShape, RowTypes
    <2>6. reinits' + PendingLosses' <= crashes'
      BY <2>0, <1>a, <1>c
         DEF HandshakeDoneEffect, InUseAt, ServerSame, TaskShape, PendingLosses, Current, Bereft
    <2> QED BY <2>1, <2>2, <2>3, <2>4, <2>6 DEF Debt
  <1>15. CASE HandshakeFailed(t)
    <2>0. HandshakeFailedEffect(t)
      BY <1>15, HandshakeFailedDoes
    <2>1. InUseAt(t)' /\ PaidAt(t)'
      BY <2>0, NoReplyIs DEF HandshakeFailedEffect, InUseAt, PaidAt
    <2>2. NoticedAt(t)'
      BY <2>0 DEF HandshakeFailedEffect, NoticedAt
    <2>3. ASSUME NEW u \in Task \ {t} PROVE InUseAt(u)' /\ PaidAt(u)'
      BY <2>0, <1>b
         DEF HandshakeFailedEffect, InUseAt, PaidAt, Forgotten, InConnect, ServerSame, CountsSame,
             OthersSame, Same, TaskShape
    <2>4. ASSUME NEW u \in Task \ {t} PROVE NoticedAt(u)'
      BY <2>0, <1>b
         DEF HandshakeFailedEffect, NoticedAt, Lost, CountsSame, ServerSame, OthersSame, Same, TaskShape,
             RowTypes
    <2>6. reinits' + PendingLosses' <= crashes'
      BY <2>0, <1>a, <1>c
         DEF HandshakeFailedEffect, ServerSame, CountsSame, OthersSame, Same, TaskShape,
             PendingLosses, Current, Bereft
    <2> QED BY <2>1, <2>2, <2>3, <2>4, <2>6 DEF Debt
  <1>16. CASE Abandon(t)
    <2>0. AbandonEffect(t)
      BY <1>16, AbandonDoes
    <2>1. InUseAt(t)' /\ PaidAt(t)'
      BY <2>0, NoReplyIs DEF AbandonEffect, InUseAt, PaidAt, InConnect
    <2>2. NoticedAt(t)'
      BY <2>0 DEF AbandonEffect, NoticedAt
    <2>3. ASSUME NEW u \in Task \ {t} PROVE InUseAt(u)' /\ PaidAt(u)'
      BY <2>0, <1>b
         DEF AbandonEffect, InUseAt, PaidAt, Forgotten, InConnect, ServerSame, CountsSame,
             OthersSame, Same
    <2>4. ASSUME NEW u \in Task \ {t} PROVE NoticedAt(u)'
      <3>1. reinit = t => reinits < crashes
        BY <1>a, <1>c DEF PendingLosses, RowTypes
      <3> QED BY <3>1, <2>0, <1>b
              DEF AbandonEffect, NoticedAt, Lost, CountsSame, OthersSame, Same
    <2>6. reinits' + PendingLosses' <= crashes'
      BY <2>0, <1>a, <1>c
         DEF AbandonEffect, ServerSame, CountsSame, OthersSame, Same, RowTypes, PendingLosses,
             Current, Bereft
    <2> QED BY <2>1, <2>2, <2>3, <2>4, <2>6 DEF Debt
  <1> QED BY <1>1, <1>2, <1>3, <1>4, <1>5, <1>6, <1>7, <1>8, <1>9, <1>10, <1>11, <1>12, <1>13,
          <1>14, <1>15, <1>16
          DEF Act, Step, Proceed

-----------------------------------------------------------------------------
(* While nothing has collided, with a plain server: every loss a task could *)
(* still run into is one its `trouble` counts.                             *)

Enough(t, n) == trouble[t] = 2 \/ trouble[t] >= n

\* One loss of the task's own is made good already: it runs its second attempt,
\* or will, because the epoch it loaded is not the current one.
Repaired(t) == IF InJob(t) /\ pc[t] # "start" /\ (attempt[t] = 2 \/ seen[t] # epoch) THEN 1 ELSE 0

CoveredAt(t) ==
    InJob(t) \/ (pc[t] = "connect" /\ (connected \/ \E u \in Task : InConnect(u)))
        => Enough(t, PendingLosses + Repaired(t))

ConnectCoveredAt(t) == InConnect(t) =>
    /\ pc[t] = "notify" => Enough(t, Forgotten(sid))
    /\ pc[t] = "replied" => Enough(t, Forgotten(reply[t].session))

\* A task that has not been through two disturbances has met no other error
\* than a lost session, and its second attempt succeeds.
CleanAt(t) == trouble[t] < 2 =>
    /\ ~authed[t] /\ pc[t] # "token"
    /\ reply[t].kind \in {"none", "ok", "http_404", "not_initialized"}
    /\ phase[t] # "job" => reply[t].kind \in {"none", "ok"}
    /\ reply[t].kind = "http_404" => sent[t] # NoSession

SecondAt(t) == trouble[t] < 2 /\ phase[t] = "job" /\ attempt[t] = 2 =>
    /\ pc[t] = "sent" => sent[t] = sid
    /\ pc[t] = "replied" => reply[t].kind = "ok"

\* Whoever believes that the current session is lost has been disturbed, even
\* when it is only that a dropped call has replaced the session unannounced.
BelievesAt(t) == seen[t] = epoch /\ reinit = NoTask /\ phase[t] = "job" =>
    /\ pc[t] \in {"sent", "replied", "token"} => sent[t] = sid \/ Enough(t, 1)
    /\ pc[t] = "replied" /\ Lost(t) => Enough(t, 1)
    /\ pc[t] = "wait_reinit" => Enough(t, 1)

Cover ==
    /\ \A t \in Task : /\ CoveredAt(t) /\ ConnectCoveredAt(t) /\ CleanAt(t) /\ SecondAt(t)
                       /\ BelievesAt(t)
    /\ denied = {}

\* A second attempt with trouble to spare has no loss ahead of it.
LEMMA SecondPending ==
    ASSUME NEW u \in Task, RowTypes(u), CoveredAt(u), PendingLosses \in 0 .. 2, trouble[u] < 2,
           phase[u] = "job", pc[u] \in {"sent", "replied"}, attempt[u] = 2
    PROVE  PendingLosses = 0
  BY DEF RowTypes, CoveredAt, Enough, Repaired, InJob, Requesting

LEMMA NothingPending ==
    ASSUME PendingLosses = 0
    PROVE  reinit = NoTask /\ sid \in known \union {NoSession} /\ ~Bereft
  BY DEF PendingLosses, Current, Bereft

LEMMA CoverStep ==
    ASSUME TypeOK, TypeOK', Shape, Shape', Alone, Alone', Debt, Debt', Cover, PlainServer, ~collided', NEW t \in Task, Act(t)
    PROVE  Cover'
  <1>a. /\ TaskShape(t) /\ RowTypes(t) /\ AloneAt(t) /\ InUseAt(t) /\ NoticedAt(t)
        /\ CoveredAt(t) /\ ConnectCoveredAt(t) /\ CleanAt(t) /\ SecondAt(t) /\ BelievesAt(t)
        /\ TaskShape(t)' /\ RowTypes(t)' /\ sid <= issued /\ denied = {}
    BY RowTyped, RowTypedNext DEF Shape, Alone, Debt, Cover
  <1>b. \A u \in Task : /\ TaskShape(u) /\ RowTypes(u) /\ RowTypes(u)' /\ AloneAt(u)
                        /\ InUseAt(u) /\ NoticedAt(u)
                        /\ CoveredAt(u) /\ ConnectCoveredAt(u) /\ CleanAt(u) /\ SecondAt(u) /\ BelievesAt(u)
    BY RowTyped, RowTypedNext DEF Shape, Alone, Debt, Cover
  <1>c. /\ sid \in Nat /\ issued \in Nat /\ epoch \in Nat /\ known \subseteq 1 .. issued
        /\ sid' \in Nat /\ reinit \in Task \union {NoTask} /\ collided' = FALSE
        /\ style.missing = "not_initialized" /\ ~style.echo /\ ~style.strict
        /\ PendingLosses \in 0 .. 2 /\ PendingLosses' \in 0 .. 2
    BY SharedTyped, SharedTypedNext DEF TypeOK, PlainServer, PendingLosses
  <1>1. CASE Arrive(t)
    <2>0. ArriveEffect(t)
      BY <1>1, ArriveDoes
    <2>1. PendingLosses' <= PendingLosses
      BY <2>0, <1>c
         DEF ArriveEffect, PendingLosses, Current, Bereft, SharedSame, ServerSame, OthersSame, Same
    <2>2. CoveredAt(t)'
      BY <2>0, <1>c, <2>1 DEF ArriveEffect, CoveredAt, Enough, Repaired, InJob, Requesting
    <2>3. ConnectCoveredAt(t)'
      BY <2>0 DEF ArriveEffect, ConnectCoveredAt
    <2>4. CleanAt(t)' /\ SecondAt(t)'
      BY <2>0, <1>a, NoReplyIs DEF ArriveEffect, CleanAt, SecondAt, TaskShape
    <2>5. ASSUME NEW u \in Task \ {t} PROVE CoveredAt(u)'
      BY <2>0, <1>b, <1>c, <2>1
         DEF ArriveEffect, CoveredAt, Enough, Repaired, InConnect, InJob, SharedSame, OthersSame,
             OthersTrouble, Same, TaskShape, RowTypes
    <2>6. ASSUME NEW u \in Task \ {t} PROVE ConnectCoveredAt(u)'
      BY <2>0, <1>b
         DEF ArriveEffect, ConnectCoveredAt, Enough, Forgotten, InConnect, SharedSame, ServerSame,
             OthersSame, OthersTrouble, Same
    <2>7. ASSUME NEW u \in Task \ {t} PROVE CleanAt(u)' /\ SecondAt(u)'
      BY <2>0, <1>b DEF ArriveEffect, CleanAt, SecondAt, SharedSame, OthersSame, OthersTrouble, Same
    <2>8. denied' = {}
      BY <2>0, <1>a DEF ArriveEffect
    <2>9. BelievesAt(t)'
      BY <2>0 DEF ArriveEffect, BelievesAt
    <2>10. ASSUME NEW u \in Task \ {t} PROVE BelievesAt(u)'
      BY <2>0, <1>b DEF ArriveEffect, BelievesAt, Lost, Enough, SharedSame, OthersSame, Same, OthersTrouble
    <2> QED BY <2>2, <2>3, <2>4, <2>5, <2>6, <2>7, <2>8, <2>9, <2>10 DEF Cover
  <1>2. CASE Disconnect(t)
    <2>0. DisconnectEffect(t)
      BY <1>2, DisconnectDoes
    <2>1. PendingLosses' <= PendingLosses
      BY <2>0, <1>b, <1>c DEF DisconnectEffect, PendingLosses, Current, Bereft, ServerSame, TaskShape
    <2>2. CoveredAt(t)'
      BY <2>0 DEF DisconnectEffect, CoveredAt, InConnect, InJob, Requesting, OthersSame, Same
    <2>3. ConnectCoveredAt(t)'
      BY <2>0 DEF DisconnectEffect, ConnectCoveredAt
    <2>4. CleanAt(t)' /\ SecondAt(t)'
      BY <2>0, <1>a DEF DisconnectEffect, CleanAt, SecondAt
    <2>5. ASSUME NEW u \in Task \ {t} PROVE CoveredAt(u)'
      BY <2>0 DEF DisconnectEffect, CoveredAt, InJob, Requesting, OthersSame, Same
    <2>6. ASSUME NEW u \in Task \ {t} PROVE ConnectCoveredAt(u)'
      BY <2>0 DEF DisconnectEffect, ConnectCoveredAt, OthersSame, Same
    <2>7. ASSUME NEW u \in Task \ {t} PROVE CleanAt(u)' /\ SecondAt(u)'
      BY <2>0, <1>b DEF DisconnectEffect, CleanAt, SecondAt, OthersSame, Same
    <2>8. denied' = {}
      BY <2>0, <1>a DEF DisconnectEffect
    <2>9. BelievesAt(t)'
      BY <2>0 DEF DisconnectEffect, BelievesAt
    <2>10. ASSUME NEW u \in Task \ {t} PROVE BelievesAt(u)'
      BY <2>0, <1>b DEF DisconnectEffect, BelievesAt, Lost, Enough, OthersSame, Same
    <2> QED BY <2>2, <2>3, <2>4, <2>5, <2>6, <2>7, <2>8, <2>9, <2>10 DEF Cover
  <1>3. CASE Connect(t)
    <2>0. ConnectEffect(t)
      BY <1>3, ConnectDoes
    <2>1. PendingLosses' <= PendingLosses
      BY <2>0, <1>b, <1>c
         DEF ConnectEffect, PendingLosses, Current, Bereft, SharedSame, ServerSame, OthersSame, Same,
             TaskShape
    <2>2. CoveredAt(t)'
      BY <2>0, <1>b, <1>c, <2>1 DEF ConnectEffect, CoveredAt, Enough, Repaired, InJob, RowTypes
    <2>3. ConnectCoveredAt(t)'
      BY <2>0 DEF ConnectEffect, ConnectCoveredAt
    <2>4. CleanAt(t)' /\ SecondAt(t)'
      BY <2>0, <1>a, NoReplyIs DEF ConnectEffect, CleanAt, SecondAt
    <2>5. ASSUME NEW u \in Task \ {t} PROVE CoveredAt(u)'
      BY <2>0, <1>b, <1>c, <2>1
         DEF ConnectEffect, CoveredAt, Enough, Repaired, InJob, SharedSame, OthersSame, Same,
             RowTypes
    <2>6. ASSUME NEW u \in Task \ {t} PROVE ConnectCoveredAt(u)'
      BY <2>0, <1>b DEF ConnectEffect, ConnectCoveredAt, InConnect, AloneAt, OthersSame, Same
    <2>7. ASSUME NEW u \in Task \ {t} PROVE CleanAt(u)' /\ SecondAt(u)'
      BY <2>0, <1>b DEF ConnectEffect, CleanAt, SecondAt, SharedSame, OthersSame, Same
    <2>8. denied' = {}
      BY <2>0, <1>a DEF ConnectEffect
    <2>9. BelievesAt(t)'
      BY <2>0 DEF ConnectEffect, BelievesAt
    <2>10. ASSUME NEW u \in Task \ {t} PROVE BelievesAt(u)'
      BY <2>0, <1>b DEF ConnectEffect, BelievesAt, Lost, Enough, SharedSame, OthersSame, Same
    <2> QED BY <2>2, <2>3, <2>4, <2>5, <2>6, <2>7, <2>8, <2>9, <2>10 DEF Cover
  <1>4. CASE LoadEpoch(t)
    <2>0. LoadEpochEffect(t)
      BY <1>4, LoadEpochDoes
    <2>1. PendingLosses' <= PendingLosses
      BY <2>0, <1>a, <1>c
         DEF LoadEpochEffect, PendingLosses, Current, Bereft, SharedSame, ServerSame, OthersSame, Same,
             TaskShape
    <2>2. CoveredAt(t)'
      BY <2>0, <1>b, <1>c, <2>1
         DEF LoadEpochEffect, CoveredAt, Enough, Repaired, InJob, SharedSame, RowTypes
    <2>3. ConnectCoveredAt(t)'
      BY <2>0 DEF LoadEpochEffect, ConnectCoveredAt
    <2>4. CleanAt(t)' /\ SecondAt(t)'
      BY <2>0, NoReplyIs DEF LoadEpochEffect, CleanAt, SecondAt
    <2>5. ASSUME NEW u \in Task \ {t} PROVE CoveredAt(u)'
      BY <2>0, <1>b, <1>c, <2>1
         DEF LoadEpochEffect, CoveredAt, Enough, Repaired, InJob, AloneAt, SharedSame, OthersSame,
             Same, RowTypes
    <2>6. ASSUME NEW u \in Task \ {t} PROVE ConnectCoveredAt(u)'
      BY <2>0, <1>b DEF LoadEpochEffect, ConnectCoveredAt, InConnect, AloneAt, OthersSame, Same
    <2>7. ASSUME NEW u \in Task \ {t} PROVE CleanAt(u)' /\ SecondAt(u)'
      BY <2>0, <1>b DEF LoadEpochEffect, CleanAt, SecondAt, SharedSame, OthersSame, Same
    <2>8. denied' = {}
      BY <2>0, <1>a DEF LoadEpochEffect
    <2>9. BelievesAt(t)'
      BY <2>0 DEF LoadEpochEffect, BelievesAt
    <2>10. ASSUME NEW u \in Task \ {t} PROVE BelievesAt(u)'
      BY <2>0, <1>b DEF LoadEpochEffect, BelievesAt, Lost, Enough, SharedSame, OthersSame, Same
    <2> QED BY <2>2, <2>3, <2>4, <2>5, <2>6, <2>7, <2>8, <2>9, <2>10 DEF Cover
  <1>5. CASE Send(t)
    <2>0. SendEffect(t)
      BY <1>5, SendDoes
    <2>1. PendingLosses' <= PendingLosses
      BY <2>0, <1>c DEF SendEffect, PendingLosses, Current, Bereft, SharedSame, ServerSame, OthersSame, Same
    <2>2. CoveredAt(t)'
      BY <2>0, <1>b, <1>c, <2>1
         DEF SendEffect, CoveredAt, Enough, Repaired, InJob, Requesting, SharedSame, RowTypes
    <2>3. ConnectCoveredAt(t)'
      BY <2>0 DEF SendEffect, ConnectCoveredAt
    <2>4. CleanAt(t)' /\ SecondAt(t)'
      BY <2>0, <1>a, NoReplyIs DEF SendEffect, CleanAt, SecondAt, SharedSame, TaskShape
    <2>5. ASSUME NEW u \in Task \ {t} PROVE CoveredAt(u)'
      BY <2>0, <1>b, <1>c, <2>1
         DEF SendEffect, CoveredAt, Enough, Repaired, InConnect, InJob, Requesting, SharedSame,
             OthersSame, Same, RowTypes
    <2>6. ASSUME NEW u \in Task \ {t} PROVE ConnectCoveredAt(u)'
      BY <2>0, <1>b DEF SendEffect, ConnectCoveredAt, InConnect, AloneAt, OthersSame, Same
    <2>7. ASSUME NEW u \in Task \ {t} PROVE CleanAt(u)' /\ SecondAt(u)'
      BY <2>0, <1>b DEF SendEffect, CleanAt, SecondAt, SharedSame, OthersSame, Same
    <2>8. denied' = {}
      BY <2>0, <1>a DEF SendEffect
    <2>9. BelievesAt(t)'
      BY <2>0 DEF SendEffect, BelievesAt, SharedSame
    <2>10. ASSUME NEW u \in Task \ {t} PROVE BelievesAt(u)'
      BY <2>0, <1>b DEF SendEffect, BelievesAt, Lost, Enough, SharedSame, OthersSame, Same
    <2> QED BY <2>2, <2>3, <2>4, <2>5, <2>6, <2>7, <2>8, <2>9, <2>10 DEF Cover
  <1>6. CASE Serve(t)
    <2>0. ServeEffect(t)
      BY <1>6, ServeDoes
    <2>1. PendingLosses' <= PendingLosses
      BY <2>0, <1>c, NoReplyIs, OnlyIs, AnswerIs
         DEF ServeEffect, PendingLosses, Current, Bereft, SharedSame, OthersSame, Same
    <2>2. CoveredAt(t)'
      BY <2>0, <1>b, <1>c, <2>1
         DEF ServeEffect, CoveredAt, Enough, Repaired, InJob, Requesting, SharedSame, RowTypes
    <2>3. ConnectCoveredAt(t)'
      BY <2>0, <1>a, AnswerIs
         DEF ServeEffect, ConnectCoveredAt, Enough, Forgotten, RowTypes, NoSession
    <2>4. CleanAt(t)' /\ SecondAt(t)'
      <3>1. CleanAt(t)'
        BY <2>0, <1>a, <1>c, AnswerIs DEF ServeEffect, CleanAt, TaskShape
      <3>2. SUFFICES ASSUME trouble'[t] < 2, phase[t] = "job", attempt[t] = 2
                     PROVE  reply'[t].kind = "ok"
        BY <3>1, <2>0 DEF ServeEffect, SecondAt
      <3>3. up /\ reply'[t] = ServerAnswer(t) /\ trouble[t] < 2
        BY <3>2, <2>0 DEF ServeEffect
      <3>4. PendingLosses = 0
        BY <3>2, <2>0, <1>a, <1>c, SecondPending DEF ServeEffect
      <3>5. sent[t] \in known
        BY <3>2, <3>4, <2>0, <1>a, <1>c, NothingPending
           DEF ServeEffect, SecondAt, AloneAt, InJob, Requesting, Bereft
      <3> QED BY <3>2, <3>3, <3>5, AnswerIs
    <2>5. ASSUME NEW u \in Task \ {t} PROVE CoveredAt(u)'
      BY <2>0, <1>b, <1>c, <2>1
         DEF ServeEffect, CoveredAt, Enough, Repaired, InConnect, InJob, Requesting, SharedSame,
             OthersSame, Same, RowTypes
    <2>6. ASSUME NEW u \in Task \ {t} PROVE ConnectCoveredAt(u)'
      BY <2>0, <1>b DEF ServeEffect, ConnectCoveredAt, InConnect, AloneAt, OthersSame, Same
    <2>7. ASSUME NEW u \in Task \ {t} PROVE CleanAt(u)' /\ SecondAt(u)'
      BY <2>0, <1>b, NoReplyIs
         DEF ServeEffect, CleanAt, SecondAt, SharedSame, OthersSame, Same, TaskShape
    <2>8. denied' = {}
      BY <2>0, <1>a DEF ServeEffect
    <2>9. BelievesAt(t)'
      <3>1. phase[t] = "job" /\ sent[t] = sid /\ reinit = NoTask /\ sid \notin known => Enough(t, 1)
        <4>1. phase[t] = "job" => InJob(t) /\ connected
          BY <2>0, <1>a DEF ServeEffect, AloneAt, InJob, Requesting
        <4>2. reinit = NoTask /\ sid \notin known /\ connected => PendingLosses >= 1
          BY DEF PendingLosses, Current, Bereft
        <4> QED BY <4>1, <4>2, <1>a, <1>c DEF CoveredAt, Enough, Repaired, RowTypes
      <3>2. phase[t] = "job" /\ Lost(t)' => sent[t] \notin known
        BY <2>0, <1>a, OnlyIs, AnswerIs DEF ServeEffect, Lost
      <3>3. Enough(t, 1) => Enough(t, 1)'
        BY <2>0 DEF ServeEffect, Enough
      <3> QED BY <3>1, <3>2, <3>3, <2>0, <1>a DEF ServeEffect, BelievesAt, SharedSame
    <2>10. ASSUME NEW u \in Task \ {t} PROVE BelievesAt(u)'
      <3>1. /\ Same(u) /\ BelievesAt(u) /\ sid' = sid /\ epoch' = epoch /\ reinit' = reinit
            /\ pc[u] # "idle" => trouble'[u] \in {trouble[u], 2}
        BY <2>0, <1>b DEF ServeEffect, SharedSame, OthersSame
      <3> QED BY <3>1 DEF BelievesAt, Lost, Enough, Same
    <2> QED BY <2>2, <2>3, <2>4, <2>5, <2>6, <2>7, <2>8, <2>9, <2>10 DEF Cover
  <1>7. CASE Unauthorized(t)
    <2>0. UnauthorizedEffect(t)
      BY <1>7, UnauthorizedDoes
    <2>1. PendingLosses' <= PendingLosses
      BY <2>0, <1>c, NoReplyIs, OnlyIs
         DEF UnauthorizedEffect, PendingLosses, Current, Bereft, SharedSame, ServerSame, OthersSame, Same
    <2>2. CoveredAt(t)'
      BY <2>0 DEF UnauthorizedEffect, CoveredAt, Enough
    <2>3. ConnectCoveredAt(t)'
      BY <2>0 DEF UnauthorizedEffect, ConnectCoveredAt, Enough
    <2>4. CleanAt(t)' /\ SecondAt(t)'
      BY <2>0 DEF UnauthorizedEffect, CleanAt, SecondAt
    <2>5. ASSUME NEW u \in Task \ {t} PROVE CoveredAt(u)'
      BY <2>0 DEF UnauthorizedEffect, CoveredAt, Enough, InJob, Requesting, OthersSame, Same
    <2>6. ASSUME NEW u \in Task \ {t} PROVE ConnectCoveredAt(u)'
      BY <2>0 DEF UnauthorizedEffect, ConnectCoveredAt, Enough, OthersSame, Same
    <2>7. ASSUME NEW u \in Task \ {t} PROVE CleanAt(u)' /\ SecondAt(u)'
      BY <2>0, <1>b, NoReplyIs
         DEF UnauthorizedEffect, CleanAt, SecondAt, OthersSame, Same, TaskShape
    <2>8. denied' = {}
      BY <2>0, <1>a DEF UnauthorizedEffect
    <2>9. BelievesAt(t)'
      BY <2>0, <1>a, OnlyIs DEF UnauthorizedEffect, BelievesAt, Enough
    <2>10. ASSUME NEW u \in Task \ {t} PROVE BelievesAt(u)'
      <3>1. /\ Same(u) /\ BelievesAt(u) /\ sid' = sid /\ epoch' = epoch /\ reinit' = reinit
            /\ pc[u] # "idle" => trouble'[u] \in {trouble[u], 2}
        BY <2>0, <1>b DEF UnauthorizedEffect, SharedSame, OthersSame
      <3> QED BY <3>1 DEF BelievesAt, Lost, Enough, Same
    <2> QED BY <2>2, <2>3, <2>4, <2>5, <2>6, <2>7, <2>8, <2>9, <2>10 DEF Cover
  <1>8. CASE JobDone(t)
    <2>0. JobDoneEffect(t)
      BY <1>8, JobDoneDoes
    <2>1. PendingLosses' <= PendingLosses
      BY <2>0, <1>b, <1>c
         DEF JobDoneEffect, InUseAt, PendingLosses, Current, Bereft, ServerSame, OthersSame, Same, TaskShape
    <2>2. CoveredAt(t)'
      BY <2>0, <1>a DEF JobDoneEffect, CoveredAt, Enough, Repaired, InJob, Requesting, RowTypes
    <2>3. ConnectCoveredAt(t)'
      BY <2>0 DEF JobDoneEffect, ConnectCoveredAt
    <2>4. CleanAt(t)' /\ SecondAt(t)'
      BY <2>0, NoReplyIs DEF JobDoneEffect, CleanAt, SecondAt
    <2>5. ASSUME NEW u \in Task \ {t} PROVE CoveredAt(u)'
      BY <2>0, <1>b, <1>c, <2>1
         DEF JobDoneEffect, CoveredAt, Enough, Repaired, InConnect, InJob, OthersSame,
             OthersTrouble, Same, RowTypes
    <2>6. ASSUME NEW u \in Task \ {t} PROVE ConnectCoveredAt(u)'
      BY <2>0, <1>b DEF JobDoneEffect, ConnectCoveredAt, InConnect, AloneAt, OthersSame, Same
    <2>7. ASSUME NEW u \in Task \ {t} PROVE CleanAt(u)' /\ SecondAt(u)'
      <3>1. sid' = sid
        BY <2>0, <1>a DEF JobDoneEffect, InUseAt
      <3> QED BY <3>1, <2>0, <1>b
              DEF JobDoneEffect, CleanAt, SecondAt, OthersSame, OthersTrouble, Same
    <2>8. denied' = {}
      BY <2>0, <1>a DEF JobDoneEffect, CleanAt, SecondAt, SessionLost, TaskShape, RowTypes
    <2>9. BelievesAt(t)'
      BY <2>0 DEF JobDoneEffect, BelievesAt
    <2>10. ASSUME NEW u \in Task \ {t} PROVE BelievesAt(u)'
      <3>1. sid' = sid
        BY <2>0, <1>a DEF JobDoneEffect, InUseAt
      <3> QED BY <3>1, <2>0, <1>b
              DEF JobDoneEffect, BelievesAt, Lost, Enough, OthersSame, OthersTrouble, Same
    <2> QED BY <2>2, <2>3, <2>4, <2>5, <2>6, <2>7, <2>8, <2>9, <2>10 DEF Cover
  <1>9. CASE JobLostSession(t)
    <2>0. JobLostEffect(t)
      BY <1>9, JobLostDoes
    <2>1. PendingLosses' <= PendingLosses
      BY <2>0, <1>b, <1>c
         DEF JobLostEffect, InUseAt, PendingLosses, Current, Bereft, ServerSame, OthersSame, Same
    <2>2. CoveredAt(t)'
      BY <2>0, <1>b, <1>c, <2>1
         DEF JobLostEffect, CoveredAt, Enough, Repaired, InJob, Requesting, RowTypes
    <2>3. ConnectCoveredAt(t)'
      BY <2>0 DEF JobLostEffect, ConnectCoveredAt
    <2>4. CleanAt(t)' /\ SecondAt(t)'
      BY <2>0, <1>a DEF JobLostEffect, CleanAt, SecondAt
    <2>5. ASSUME NEW u \in Task \ {t} PROVE CoveredAt(u)'
      BY <2>0, <1>b, <1>c, <2>1
         DEF JobLostEffect, CoveredAt, Enough, Repaired, InConnect, InJob, OthersSame, Same,
             RowTypes
    <2>6. ASSUME NEW u \in Task \ {t} PROVE ConnectCoveredAt(u)'
      BY <2>0, <1>b DEF JobLostEffect, ConnectCoveredAt, InConnect, AloneAt, OthersSame, Same
    <2>7. ASSUME NEW u \in Task \ {t} PROVE CleanAt(u)' /\ SecondAt(u)'
      <3>1. sid' = sid
        BY <2>0, <1>a DEF JobLostEffect, InUseAt
      <3> QED BY <3>1, <2>0, <1>b DEF JobLostEffect, CleanAt, SecondAt, OthersSame, Same
    <2>8. denied' = {}
      BY <2>0, <1>a DEF JobLostEffect
    <2>9. BelievesAt(t)'
      BY <2>0, <1>a DEF JobLostEffect, BelievesAt, Lost, SessionLost, Enough
    <2>10. ASSUME NEW u \in Task \ {t} PROVE BelievesAt(u)'
      <3>1. sid' = sid
        BY <2>0, <1>a DEF JobLostEffect, InUseAt
      <3> QED BY <3>1, <2>0, <1>b
              DEF JobLostEffect, BelievesAt, Lost, Enough, OthersSame, Same
    <2> QED BY <2>2, <2>3, <2>4, <2>5, <2>6, <2>7, <2>8, <2>9, <2>10 DEF Cover
  <1>10. CASE AcquireToken(t)
    <2>0. AcquireEffect(t)
      BY <1>10, AcquireDoes
    <2>1. PendingLosses' <= PendingLosses
      BY <2>0, <1>c
         DEF AcquireEffect, PendingLosses, Current, Bereft, SharedSame, ServerSame, OthersSame, Same
    <2>2. CoveredAt(t)'
      BY <2>0, <1>b, <1>c, <2>1
         DEF AcquireEffect, CoveredAt, Enough, Repaired, InJob, Requesting, SharedSame, RowTypes
    <2>3. ConnectCoveredAt(t)'
      BY <2>0 DEF AcquireEffect, ConnectCoveredAt
    <2>4. CleanAt(t)' /\ SecondAt(t)'
      BY <2>0, <1>a DEF AcquireEffect, CleanAt, SecondAt
    <2>5. ASSUME NEW u \in Task \ {t} PROVE CoveredAt(u)'
      BY <2>0, <1>b, <1>c, <2>1
         DEF AcquireEffect, CoveredAt, Enough, Repaired, InConnect, InJob, Requesting, SharedSame,
             OthersSame, Same, RowTypes
    <2>6. ASSUME NEW u \in Task \ {t} PROVE ConnectCoveredAt(u)'
      BY <2>0, <1>b DEF AcquireEffect, ConnectCoveredAt, InConnect, AloneAt, OthersSame, Same
    <2>7. ASSUME NEW u \in Task \ {t} PROVE CleanAt(u)' /\ SecondAt(u)'
      BY <2>0, <1>b DEF AcquireEffect, CleanAt, SecondAt, SharedSame, OthersSame, Same
    <2>8. denied' = {}
      BY <2>0, <1>a DEF AcquireEffect
    <2>9. BelievesAt(t)'
      BY <2>0, <1>a DEF AcquireEffect, BelievesAt, Enough, SharedSame
    <2>10. ASSUME NEW u \in Task \ {t} PROVE BelievesAt(u)'
      BY <2>0, <1>b DEF AcquireEffect, BelievesAt, Lost, Enough, SharedSame, OthersSame, Same
    <2> QED BY <2>2, <2>3, <2>4, <2>5, <2>6, <2>7, <2>8, <2>9, <2>10 DEF Cover
  <1>11. CASE TokenAcquired(t)
    <2>0. TokenEffect(t)
      BY <1>11, TokenDoes
    <2>1. PendingLosses' <= PendingLosses
      BY <2>0, <1>c, NoReplyIs, OnlyIs
         DEF TokenEffect, PendingLosses, Current, Bereft, SharedSame, ServerSame, OthersSame, Same
    <2>2. CoveredAt(t)'
      BY <2>0, <1>b, <1>c, <2>1
         DEF TokenEffect, CoveredAt, Enough, Repaired, InJob, Requesting, SharedSame, RowTypes
    <2>3. ConnectCoveredAt(t)'
      BY <2>0 DEF TokenEffect, ConnectCoveredAt, Enough
    <2>4. CleanAt(t)' /\ SecondAt(t)'
      BY <2>0, <1>a DEF TokenEffect, CleanAt, SecondAt
    <2>5. ASSUME NEW u \in Task \ {t} PROVE CoveredAt(u)'
      BY <2>0, <1>b, <1>c, <2>1
         DEF TokenEffect, CoveredAt, Enough, Repaired, InConnect, InJob, Requesting, SharedSame,
             OthersSame, Same, RowTypes
    <2>6. ASSUME NEW u \in Task \ {t} PROVE ConnectCoveredAt(u)'
      BY <2>0, <1>b DEF TokenEffect, ConnectCoveredAt, InConnect, AloneAt, OthersSame, Same
    <2>7. ASSUME NEW u \in Task \ {t} PROVE CleanAt(u)' /\ SecondAt(u)'
      BY <2>0, <1>b, NoReplyIs
         DEF TokenEffect, CleanAt, SecondAt, SharedSame, OthersSame, Same, TaskShape
    <2>8. denied' = {}
      BY <2>0, <1>a DEF TokenEffect
    <2>9. BelievesAt(t)'
      BY <2>0, <1>a, OnlyIs DEF TokenEffect, BelievesAt, Lost, Enough, SharedSame
    <2>10. ASSUME NEW u \in Task \ {t} PROVE BelievesAt(u)'
      <3>1. /\ Same(u) /\ BelievesAt(u) /\ sid' = sid /\ epoch' = epoch /\ reinit' = reinit
            /\ pc[u] # "idle" => trouble'[u] \in {trouble[u], 2}
        BY <2>0, <1>b DEF TokenEffect, SharedSame, OthersSame
      <3> QED BY <3>1 DEF BelievesAt, Lost, Enough, Same
    <2> QED BY <2>2, <2>3, <2>4, <2>5, <2>6, <2>7, <2>8, <2>9, <2>10 DEF Cover
  <1>12. CASE Reinitialize(t)
    <2>0. ReinitializeEffect(t)
      BY <1>12, ReinitializeDoes
    <2>a. connected /\ ~InConnect(t) /\ (\A u \in Task : ~InConnect(u) /\ ~InConnect(u)')
      <3>1. connected /\ connected'
        BY <2>0, <1>a DEF ReinitializeEffect, AloneAt, InJob
      <3> QED BY <3>1, <1>b, <2>0 DEF ReinitializeEffect, AloneAt, InConnect, OthersSame, Same
    <2>1. epoch # seen[t] => PendingLosses' = PendingLosses
      BY <2>0, <1>c DEF ReinitializeEffect, PendingLosses, Current, Bereft, ServerSame
    <2>b. epoch = seen[t] =>
             /\ PendingLosses' = 1
             /\ sid \notin known => PendingLosses = 1
             /\ sid \in known => PendingLosses = 0
      BY <2>0, <2>a, <1>a, <1>c, NoReplyIs
         DEF ReinitializeEffect, PendingLosses, Current, Bereft, RowTypes
    <2>2. CoveredAt(t)'
      <3>1. trouble'[t] = trouble[t] /\ CoveredAt(t) /\ BelievesAt(t) /\ InJob(t)
        BY <2>0, <1>a DEF ReinitializeEffect, InJob
      <3>2. CASE epoch # seen[t]
        BY <3>1, <3>2, <2>0, <2>1, <1>a, <1>c
           DEF ReinitializeEffect, CoveredAt, Enough, Repaired, RowTypes
      <3>3. CASE epoch = seen[t]
        <4>1. Enough(t, 1)
          BY <3>1, <3>3, <2>0, <1>a DEF ReinitializeEffect, BelievesAt, TaskShape
        <4>2. Repaired(t)' = 0
          BY <3>3, <2>0, <1>a DEF ReinitializeEffect, Repaired, TaskShape
        <4> QED BY <3>1, <3>3, <4>1, <4>2, <2>b DEF CoveredAt, Enough
      <3> QED BY <3>2, <3>3
    <2>3. ConnectCoveredAt(t)'
      BY <2>0 DEF ReinitializeEffect, ConnectCoveredAt
    <2>4. CleanAt(t)' /\ SecondAt(t)'
      BY <2>0, NoReplyIs DEF ReinitializeEffect, CleanAt, SecondAt
    <2>5. ASSUME NEW u \in Task \ {t} PROVE CoveredAt(u)'
      <3>1. Same(u) /\ CoveredAt(u) /\ RowTypes(u) /\ connected' = connected /\ epoch' = epoch
        BY <2>0, <1>b DEF ReinitializeEffect, OthersSame
      <3>2. (InJob(u)' <=> InJob(u)) /\ Repaired(u)' = Repaired(u) /\ Repaired(u) \in 0 .. 1
        BY <3>1 DEF InJob, Repaired, Same
      <3>3. CASE epoch # seen[t]
        <4>1. trouble'[u] = trouble[u]
          BY <3>3, <2>0 DEF ReinitializeEffect, OthersTrouble
        <4> QED BY <3>1, <3>2, <3>3, <4>1, <2>1, <2>a DEF CoveredAt, Enough, Same
      <3>4. CASE epoch = seen[t]
        <4>1. InJob(u) \/ pc[u] = "connect" => pc[u] # "idle"
          BY DEF InJob, Requesting
        <4>2. pc[u] # "idle" => trouble'[u] = IF trouble[u] = 2 \/ sid \notin known THEN trouble[u] ELSE trouble[u] + 1
          BY <3>4, <2>0 DEF ReinitializeEffect
        <4>3. CASE sid \in known
          BY <3>1, <3>2, <3>4, <4>1, <4>2, <4>3, <2>a, <2>b DEF CoveredAt, Enough, RowTypes, Same
        <4>4. CASE sid \notin known
          BY <3>1, <3>2, <3>4, <4>1, <4>2, <4>4, <2>a, <2>b DEF CoveredAt, Enough, RowTypes, Same
        <4> QED BY <4>3, <4>4
      <3> QED BY <3>3, <3>4
    <2>6. ASSUME NEW u \in Task \ {t} PROVE ConnectCoveredAt(u)'
      BY <2>0, <1>b DEF ReinitializeEffect, ConnectCoveredAt, InConnect, AloneAt, OthersSame, Same
    <2>7. ASSUME NEW u \in Task \ {t} PROVE CleanAt(u)' /\ SecondAt(u)'
      <3>1. /\ Same(u) /\ CleanAt(u) /\ SecondAt(u) /\ CoveredAt(u) /\ RowTypes(u) /\ TaskShape(u)
        BY <2>0, <1>b DEF ReinitializeEffect, OthersSame
      <3>2. trouble'[u] = trouble[u] \/ (trouble[u] # 2 /\ trouble'[u] = trouble[u] + 1)
        BY <2>0 DEF ReinitializeEffect, OthersTrouble
      <3>3. CleanAt(u)'
        BY <3>1, <3>2 DEF CleanAt, RowTypes, Same
      <3>4. CASE epoch # seen[t]
        BY <3>1, <3>2, <3>3, <3>4, <2>0 DEF ReinitializeEffect, SecondAt, RowTypes, Same
      <3>5. ASSUME epoch = seen[t], trouble'[u] < 2, phase[u] = "job", attempt[u] = 2,
                   pc[u] \in {"sent", "replied"}
            PROVE  FALSE
        <4>1. InJob(u) /\ Repaired(u) = 1
          BY <3>5 DEF InJob, Repaired, Requesting
        <4>2. sid \notin known => Enough(u, 2)
          BY <3>1, <3>5, <4>1, <2>b DEF CoveredAt, Enough
        <4>3. Enough(u, 1)
          BY <3>1, <4>1, <1>c DEF CoveredAt, Enough, RowTypes
        <4>4. trouble'[u] = IF trouble[u] = 2 \/ sid \notin known THEN trouble[u] ELSE trouble[u] + 1
          BY <3>5, <2>0 DEF ReinitializeEffect
        <4> QED BY <3>1, <3>5, <4>2, <4>3, <4>4 DEF Enough, RowTypes
      <3> QED BY <3>1, <3>3, <3>4, <3>5 DEF SecondAt, Same
    <2>8. denied' = {}
      BY <2>0, <1>a DEF ReinitializeEffect
    <2>9. BelievesAt(t)'
      BY <2>0 DEF ReinitializeEffect, BelievesAt
    <2>10. ASSUME NEW u \in Task \ {t} PROVE BelievesAt(u)'
      <3>1. /\ Same(u) /\ BelievesAt(u) /\ RowTypes(u) /\ RowTypes(u)' /\ epoch' = epoch
            /\ trouble'[u] = trouble[u] \/ trouble'[u] = trouble[u] + 1
        BY <2>0, <1>b DEF ReinitializeEffect, OthersSame, OthersTrouble
      <3>2. reinit' = NoTask => sid' = sid /\ reinit = NoTask /\ trouble'[u] = trouble[u]
        BY <2>0, <1>a DEF ReinitializeEffect, OthersTrouble, RowTypes
      <3> QED BY <3>1, <3>2 DEF BelievesAt, Lost, Enough, Same
    <2> QED BY <2>2, <2>3, <2>4, <2>5, <2>6, <2>7, <2>8, <2>9, <2>10 DEF Cover
  <1>13. CASE Initialized(t)
    <2>0. InitializedEffect(t)
      BY <1>13, InitializedDoes
    <2>1. phase[t] = "reinit" => PendingLosses' <= PendingLosses
      BY <2>0, <1>a
         DEF InitializedEffect, InUseAt, PendingLosses, Current, Bereft, ServerSame, TaskShape, RowTypes
    <2>2. CoveredAt(t)'
      <3>1. CASE phase[t] = "connect"
        BY <3>1, <2>0 DEF InitializedEffect, CoveredAt, InJob
      <3>2. CASE phase[t] = "reinit"
        BY <3>2, <2>0, <2>1, <1>a, <1>c
           DEF InitializedEffect, CoveredAt, Enough, Repaired, InJob, Requesting, RowTypes
      <3> QED BY <3>1, <3>2, <2>0, <1>a DEF InitializedEffect, RowTypes, Phase
    <2>3. ConnectCoveredAt(t)'
      BY <2>0, <1>a
         DEF InitializedEffect, ConnectCoveredAt, Enough, Forgotten, InConnect, Requesting,
             ServerSame, TaskShape
    <2>4. CleanAt(t)' /\ SecondAt(t)'
      BY <2>0, <1>a DEF InitializedEffect, CleanAt, SecondAt
    <2>5. ASSUME NEW u \in Task \ {t} PROVE CoveredAt(u)'
      <3>1. Same(u) /\ trouble'[u] = trouble[u] /\ CoveredAt(u) /\ RowTypes(u)
        BY <2>0, <1>b DEF InitializedEffect, OthersSame
      <3>2. CASE phase[t] = "connect"
        BY <3>1, <3>2, <2>0 DEF InitializedEffect, CoveredAt, InJob, Requesting, Same
      <3>3. CASE phase[t] = "reinit"
        <4>1. \A v \in Task : ~InConnect(v) /\ ~InConnect(v)'
          BY <3>3, <2>0, <1>b DEF InitializedEffect, OthersSame, Same, InConnect, AloneAt
        <4>2. connected /\ connected'
          BY <3>3, <2>0, <1>a DEF InitializedEffect, AloneAt, InJob, Requesting
        <4> QED BY <3>1, <3>3, <4>2, <2>0, <2>1, <1>c
                DEF InitializedEffect, CoveredAt, Enough, Repaired, InJob, RowTypes, Same
      <3> QED BY <3>2, <3>3, <2>0, <1>a DEF InitializedEffect, RowTypes, Phase
    <2>6. ASSUME NEW u \in Task \ {t} PROVE ConnectCoveredAt(u)'
      BY <2>0, <1>b DEF InitializedEffect, ConnectCoveredAt, InConnect, AloneAt, OthersSame, Same
    <2>7. ASSUME NEW u \in Task \ {t} PROVE CleanAt(u)' /\ SecondAt(u)'
      <3>1. Same(u) /\ trouble'[u] = trouble[u] /\ CleanAt(u) /\ SecondAt(u)
        BY <2>0, <1>b DEF InitializedEffect, OthersSame
      <3>2. CleanAt(u)'
        BY <3>1 DEF CleanAt, Same
      <3>3. CASE phase[t] = "connect"
        BY <3>1, <3>2, <3>3, <2>0 DEF InitializedEffect, SecondAt, Same
      <3>4. CASE phase[t] = "reinit"
        <4>1. PendingLosses # 0
          BY <3>4, <1>a, NothingPending DEF TaskShape, RowTypes
        <4> QED BY <3>1, <3>2, <4>1, <1>b, <1>c, SecondPending DEF SecondAt, Same
      <3> QED BY <3>3, <3>4, <2>0, <1>a DEF InitializedEffect, RowTypes, Phase
    <2>8. denied' = {}
      BY <2>0, <1>a DEF InitializedEffect
    <2>9. BelievesAt(t)'
      BY <2>0 DEF InitializedEffect, BelievesAt
    <2>10. ASSUME NEW u \in Task \ {t} PROVE BelievesAt(u)'
      <3>1. Same(u) /\ trouble'[u] = trouble[u] /\ BelievesAt(u)
        BY <2>0, <1>b DEF InitializedEffect, OthersSame
      <3>2. CASE phase[t] = "connect"
        BY <3>1, <3>2, <2>0 DEF InitializedEffect, BelievesAt, Same
      <3>3. CASE phase[t] = "reinit"
        BY <3>1, <3>3, <2>0, <1>a DEF InitializedEffect, BelievesAt, TaskShape, RowTypes
      <3> QED BY <3>2, <3>3, <2>0, <1>a DEF InitializedEffect, RowTypes, Phase
    <2> QED BY <2>2, <2>3, <2>4, <2>5, <2>6, <2>7, <2>8, <2>9, <2>10 DEF Cover
  <1>14. CASE HandshakeDone(t)
    <2>0. HandshakeDoneEffect(t)
      BY <1>14, HandshakeDoneDoes
    <2>1. IF phase[t] = "reinit" THEN PendingLosses' + 1 <= PendingLosses ELSE PendingLosses' <= PendingLosses
      BY <2>0, <1>a DEF HandshakeDoneEffect, InUseAt, PendingLosses, Current, Bereft, ServerSame, TaskShape
    <2>2. CoveredAt(t)'
      <3>1. CASE phase[t] = "reinit"
        <4>1. InJob(t)
          BY <3>1, <2>0 DEF HandshakeDoneEffect, InJob
        <4>2. Repaired(t) \in 0 .. 1 /\ Repaired(t)' \in 0 .. 1
          BY DEF Repaired
        <4>3. trouble'[t] = trouble[t] /\ PendingLosses' + 1 <= PendingLosses
          BY <3>1, <2>0, <2>1 DEF HandshakeDoneEffect
        <4>4. Enough(t, PendingLosses + Repaired(t)) /\ RowTypes(t)
          BY <4>1, <1>a DEF CoveredAt
        <4>5. PendingLosses' + Repaired(t)' <= PendingLosses + Repaired(t)
          <5>1. PendingLosses \in Nat /\ PendingLosses' \in Nat
            BY <1>c
          <5>2. \A m, n \in Nat : \A i, j \in 0 .. 1 : n + 1 <= m => n + j <= m + i
            OBVIOUS
          <5> QED BY <5>1, <5>2, <4>2, <4>3
        <4>6. PendingLosses + Repaired(t) \in Nat /\ PendingLosses' + Repaired(t)' \in Nat
          BY <4>2, <1>c
        <4>7. Enough(t, PendingLosses + Repaired(t))'
          BY <4>3, <4>4, <4>5, <4>6 DEF Enough, RowTypes
        <4> QED BY <4>7 DEF CoveredAt
      <3>2. CASE phase[t] # "reinit"
        <4>1. \A v \in Task : reinit # v
          BY <3>2, <2>0, <1>b
             DEF HandshakeDoneEffect, TaskShape, AloneAt, InConnect, RowTypes, Phase
        <4>2. PendingLosses = Forgotten(sid) /\ Enough(t, Forgotten(sid))
          BY <4>1, <2>0, <1>a, <1>c
             DEF HandshakeDoneEffect, PendingLosses, Current, Bereft, Forgotten, ConnectCoveredAt,
                 InConnect, InUseAt, TaskShape, RowTypes, Phase
        <4> QED BY <4>2, <2>0, <2>1, <1>a, <1>c
                DEF HandshakeDoneEffect, CoveredAt, Enough, Repaired, RowTypes
      <3> QED BY <3>1, <3>2
    <2>3. ConnectCoveredAt(t)'
      BY <2>0 DEF HandshakeDoneEffect, ConnectCoveredAt
    <2>4. CleanAt(t)' /\ SecondAt(t)'
      BY <2>0, <1>a, NoReplyIs DEF HandshakeDoneEffect, CleanAt, SecondAt
    <2>5. ASSUME NEW u \in Task \ {t} PROVE CoveredAt(u)'
      <3>1. Same(u) /\ trouble'[u] = trouble[u] /\ CoveredAt(u) /\ RowTypes(u) /\ TaskShape(u)
        BY <2>0, <1>b DEF HandshakeDoneEffect, OthersSame
      <3>2. CASE phase[t] = "reinit"
        <4>1. Repaired(u)' <= Repaired(u) + 1 /\ Repaired(u) \in 0 .. 1 /\ Repaired(u)' \in 0 .. 1
          BY DEF Repaired
        <4>2. connected
          BY <3>2, <2>0, <1>a DEF HandshakeDoneEffect, AloneAt, InJob
        <4>3. InJob(u)' => InJob(u)
          BY <3>1 DEF InJob, Same
        <4>4. ASSUME InJob(u)' \/ pc'[u] = "connect" PROVE Enough(u, PendingLosses + Repaired(u))
          BY <3>1, <4>2, <4>3, <4>4 DEF CoveredAt, Same
        <4>5. PendingLosses' + Repaired(u)' <= PendingLosses + Repaired(u)
          <5>1. PendingLosses \in Nat /\ PendingLosses' \in Nat
            BY <1>c
          <5>2. PendingLosses' + 1 <= PendingLosses
            BY <2>1, <3>2
          <5>3. \A m, n \in Nat : \A i, j \in 0 .. 1 : n + 1 <= m => n + j <= m + i
            OBVIOUS
          <5> QED BY <5>1, <5>2, <5>3, <4>1
        <4>6. PendingLosses + Repaired(u) \in Nat /\ PendingLosses' + Repaired(u)' \in Nat
          BY <4>1, <1>c
        <4>7. ASSUME InJob(u)' \/ pc'[u] = "connect" PROVE Enough(u, PendingLosses + Repaired(u))'
          BY <3>1, <4>4, <4>5, <4>6, <4>7 DEF Enough, RowTypes
        <4> QED BY <4>7 DEF CoveredAt
      <3>3. CASE phase[t] # "reinit"
        <4>1. InConnect(t)
          BY <3>3, <2>0, <1>a DEF HandshakeDoneEffect, InConnect, TaskShape, RowTypes, Phase
        <4>2. ~InJob(u) /\ ~InJob(u)'
          BY <3>1, <4>1, <1>a DEF AloneAt, InJob, Requesting, Same
        <4>3. Repaired(u)' = 0 /\ Repaired(u) = 0
          BY <4>2 DEF Repaired
        <4>4. ASSUME pc'[u] = "connect" PROVE trouble[u] = 2 \/ trouble[u] >= PendingLosses
          BY <3>1, <4>1, <4>2, <4>3, <4>4, <1>c DEF CoveredAt, Enough, Same
        <4>5. PendingLosses \in Nat /\ PendingLosses' \in Nat /\ PendingLosses' <= PendingLosses
          BY <3>3, <2>1, <1>c
        <4>6. ASSUME pc'[u] = "connect" PROVE trouble'[u] = 2 \/ trouble'[u] >= PendingLosses'
          BY <3>1, <4>4, <4>5, <4>6 DEF RowTypes
        <4> QED BY <4>2, <4>3, <4>5, <4>6 DEF CoveredAt, Enough
      <3> QED BY <3>2, <3>3
    <2>6. ASSUME NEW u \in Task \ {t} PROVE ConnectCoveredAt(u)'
      BY <2>0, <1>b
         DEF HandshakeDoneEffect, ConnectCoveredAt, Enough, Forgotten, InConnect, ServerSame,
             OthersSame, Same
    <2>7. ASSUME NEW u \in Task \ {t} PROVE CleanAt(u)' /\ SecondAt(u)'
      BY <2>0, <1>b DEF HandshakeDoneEffect, CleanAt, SecondAt, OthersSame, Same
    <2>8. denied' = {}
      BY <2>0, <1>a DEF HandshakeDoneEffect
    <2>9. BelievesAt(t)'
      BY <2>0 DEF HandshakeDoneEffect, BelievesAt
    <2>10. ASSUME NEW u \in Task \ {t} PROVE BelievesAt(u)'
      BY <2>0, <1>b, <1>c
         DEF HandshakeDoneEffect, BelievesAt, Lost, Enough, OthersSame, Same, TaskShape, RowTypes
    <2> QED BY <2>2, <2>3, <2>4, <2>5, <2>6, <2>7, <2>8, <2>9, <2>10 DEF Cover
  <1>15. CASE HandshakeFailed(t)
    <2>0. HandshakeFailedEffect(t)
      BY <1>15, HandshakeFailedDoes
    <2>1. PendingLosses' <= PendingLosses
      BY <2>0, <1>a, <1>c
         DEF HandshakeFailedEffect, PendingLosses, Current, Bereft, ServerSame, OthersSame, Same, TaskShape
    <2>2. CoveredAt(t)'
      BY <2>0 DEF HandshakeFailedEffect, CoveredAt, InJob, Requesting
    <2>3. ConnectCoveredAt(t)'
      BY <2>0 DEF HandshakeFailedEffect, ConnectCoveredAt
    <2>4. CleanAt(t)' /\ SecondAt(t)'
      BY <2>0, NoReplyIs DEF HandshakeFailedEffect, CleanAt, SecondAt
    <2>5. ASSUME NEW u \in Task \ {t} PROVE CoveredAt(u)'
      BY <2>0 DEF HandshakeFailedEffect, CoveredAt, Enough, InJob, Requesting, OthersSame, Same
    <2>6. ASSUME NEW u \in Task \ {t} PROVE ConnectCoveredAt(u)'
      BY <2>0 DEF HandshakeFailedEffect, ConnectCoveredAt, Enough, OthersSame, Same
    <2>7. ASSUME NEW u \in Task \ {t} PROVE CleanAt(u)' /\ SecondAt(u)'
      BY <2>0, <1>b, NoReplyIs
         DEF HandshakeFailedEffect, CleanAt, SecondAt, OthersSame, Same, TaskShape
    <2>8. denied' = {}
      BY <2>0, <1>a DEF HandshakeFailedEffect, CleanAt, TaskShape, RowTypes
    <2>9. BelievesAt(t)'
      BY <2>0 DEF HandshakeFailedEffect, BelievesAt
    <2>10. ASSUME NEW u \in Task \ {t} PROVE BelievesAt(u)'
      BY <2>0, <1>b, <1>c
         DEF HandshakeFailedEffect, BelievesAt, Enough, OthersSame, Same
    <2> QED BY <2>2, <2>3, <2>4, <2>5, <2>6, <2>7, <2>8, <2>9, <2>10 DEF Cover
  <1>16. CASE Abandon(t)
    <2>0. AbandonEffect(t)
      BY <1>16, AbandonDoes
    <2>1. PendingLosses' <= PendingLosses
      BY <2>0, <1>a, <1>c
         DEF AbandonEffect, PendingLosses, Current, Bereft, ServerSame, OthersSame, Same, RowTypes
    <2>2. CoveredAt(t)'
      BY <2>0 DEF AbandonEffect, CoveredAt, InJob, Requesting
    <2>3. ConnectCoveredAt(t)'
      BY <2>0 DEF AbandonEffect, ConnectCoveredAt
    <2>4. CleanAt(t)' /\ SecondAt(t)'
      BY <2>0, NoReplyIs DEF AbandonEffect, CleanAt, SecondAt
    <2>5. ASSUME NEW u \in Task \ {t} PROVE CoveredAt(u)'
      <3>1. /\ Same(u) /\ trouble'[u] = trouble[u] /\ CoveredAt(u) /\ RowTypes(u)
            /\ connected' = connected /\ epoch' = epoch
        BY <2>0, <1>b DEF AbandonEffect, OthersSame, OthersTrouble
      <3>2. (InJob(u)' <=> InJob(u)) /\ Repaired(u)' = Repaired(u) /\ Repaired(u) \in 0 .. 1
        BY <3>1 DEF InJob, Repaired, Same
      <3>3. (\E v \in Task : InConnect(v)') => (\E v \in Task : InConnect(v))
        BY <2>0 DEF AbandonEffect, OthersSame, Same, InConnect
      <3> QED BY <3>1, <3>2, <3>3, <2>1, <1>c DEF CoveredAt, Enough, RowTypes, Same
    <2>6. ASSUME NEW u \in Task \ {t} PROVE ConnectCoveredAt(u)'
      BY <2>0, <1>b
         DEF AbandonEffect, ConnectCoveredAt, Enough, Forgotten, InConnect, ServerSame, OthersSame,
             OthersTrouble, Same
    <2>7. ASSUME NEW u \in Task \ {t} PROVE CleanAt(u)' /\ SecondAt(u)'
      BY <2>0, <1>b DEF AbandonEffect, CleanAt, SecondAt, OthersSame, OthersTrouble, Same
    <2>8. denied' = {}
      BY <2>0, <1>a DEF AbandonEffect
    <2>9. BelievesAt(t)'
      BY <2>0 DEF AbandonEffect, BelievesAt
    <2>10. ASSUME NEW u \in Task \ {t} PROVE BelievesAt(u)'
      <3>1. /\ Same(u) /\ trouble'[u] = trouble[u] /\ BelievesAt(u) /\ CoveredAt(u) /\ RowTypes(u)
            /\ sid' = sid /\ epoch' = epoch
        BY <2>0, <1>b DEF AbandonEffect, OthersSame, OthersTrouble
      <3>2. CASE reinit = t
        <4>1. PendingLosses >= 1
          BY <3>2, <1>a DEF PendingLosses, RowTypes
        <4>2. InJob(u) => Enough(u, 1)
          BY <4>1, <3>1, <1>c DEF CoveredAt, Enough, Repaired, RowTypes
        <4> QED BY <4>2, <3>1 DEF BelievesAt, InJob, Requesting, Enough, Same
      <3>3. CASE reinit # t
        BY <3>1, <3>3, <2>0 DEF AbandonEffect, BelievesAt, Lost, Enough, Same
      <3> QED BY <3>2, <3>3
    <2> QED BY <2>2, <2>3, <2>4, <2>5, <2>6, <2>7, <2>8, <2>9, <2>10 DEF Cover
  <1> QED BY <1>1, <1>2, <1>3, <1>4, <1>5, <1>6, <1>7, <1>8, <1>9, <1>10, <1>11, <1>12, <1>13,
          <1>14, <1>15, <1>16
          DEF Act, Step, Proceed

-----------------------------------------------------------------------------
(* The inductive invariant.                                                *)

IInv ==
    /\ TypeOK
    /\ Shape
    /\ ~collided => Alone
    /\ ~collided /\ ~style.echo => Debt
    /\ ~collided /\ PlainServer => Cover

LEMMA InitInv == Init => IInv
  <1> SUFFICES ASSUME Init PROVE IInv
    OBVIOUS
  <1>1. TypeOK
    BY InitType
  <1>2. PICK how \in Startup : StartedUp(how)
    BY DEF Init
  <1>3. /\ connected <=> indexed
        /\ connected <=> healthy
        /\ sid = issued /\ sid \in Nat /\ sid \in known \union {NoSession}
        /\ connected => sid # NoSession
    <2>1. CASE how = "connected"
      BY <1>2, <2>1 DEF StartedUp, NoSession
    <2>2. CASE how # "connected"
      BY <1>2, <2>2 DEF StartedUp, NoSession
    <2> QED BY <2>1, <2>2
  <1>4. reinit = NoTask /\ epoch = 0 /\ denied = {} /\ reinits = 0 /\ crashes = 0
    BY DEF Init
  <1>5. \A t \in Task : /\ pc[t] = "idle" /\ phase[t] = "job" /\ reply[t] = NoReply /\ authed[t] = FALSE
                        /\ attempt[t] = 1 /\ seen[t] = 0 /\ sent[t] = 0 /\ stale[t] = 0 /\ trouble[t] = 0
                        /\ t # NoTask
    BY ConstantsAssumption DEF Init, NoSession
  <1>6. Shape
    BY <1>3, <1>4, <1>5, NoReplyIs DEF Shape, TaskShape
  <1>7. Alone
    BY <1>3, <1>5 DEF Alone, AloneAt, InConnect, InJob, Requesting
  <1>8. Debt
    <2>1. PendingLosses = 0
      BY <1>3, <1>4 DEF PendingLosses, Current, Bereft
    <2> QED BY <2>1, <1>3, <1>4, <1>5, NoReplyIs
            DEF Debt, InUseAt, PaidAt, NoticedAt, InConnect, Requesting
  <1>9. Cover
    BY <1>4, <1>5, NoReplyIs
       DEF Cover, CoveredAt, ConnectCoveredAt, CleanAt, SecondAt, BelievesAt, InJob, InConnect, Requesting
  <1> QED BY <1>1, <1>6, <1>7, <1>8, <1>9 DEF IInv

\* A collision is remembered, and a server keeps its style.
LEMMA HistoryKept ==
    ASSUME TypeOK, NEW t \in Task, Act(t)
    PROVE  (~collided' => ~collided) /\ style' = style
  <1> USE DEF ServerSame
  <1>1. CASE Arrive(t)
    BY <1>1, ArriveDoes DEF ArriveEffect
  <1>2. CASE Disconnect(t)
    BY <1>2, DisconnectDoes DEF DisconnectEffect
  <1>3. CASE Connect(t)
    BY <1>3, ConnectDoes DEF ConnectEffect
  <1>4. CASE LoadEpoch(t) \/ Send(t)
    BY <1>4, LoadEpochDoes, SendDoes DEF LoadEpochEffect, SendEffect
  <1>5. CASE Serve(t) \/ Unauthorized(t)
    BY <1>5, ServeDoes, UnauthorizedDoes DEF ServeEffect, UnauthorizedEffect
  <1>6. CASE JobDone(t) \/ JobLostSession(t)
    BY <1>6, JobDoneDoes, JobLostDoes DEF JobDoneEffect, JobLostEffect
  <1>7. CASE AcquireToken(t) \/ TokenAcquired(t)
    BY <1>7, AcquireDoes, TokenDoes DEF AcquireEffect, TokenEffect
  <1>8. CASE Reinitialize(t) \/ Initialized(t)
    BY <1>8, ReinitializeDoes, InitializedDoes DEF ReinitializeEffect, InitializedEffect
  <1>9. CASE HandshakeDone(t) \/ HandshakeFailed(t)
    BY <1>9, HandshakeDoneDoes, HandshakeFailedDoes DEF HandshakeDoneEffect, HandshakeFailedEffect
  <1>10. CASE Abandon(t)
    BY <1>10, AbandonDoes DEF AbandonEffect
  <1> QED BY <1>1, <1>2, <1>3, <1>4, <1>5, <1>6, <1>7, <1>8, <1>9, <1>10 DEF Act, Step, Proceed

LEMMA TaskKeepsInv ==
    ASSUME IInv, NEW t \in Task, Act(t)
    PROVE  IInv'
  <1>1. TypeOK /\ TypeOK'
    BY NextType DEF IInv, Act, Next
  <1>2. Shape /\ Shape'
    BY <1>1, ShapeStep DEF IInv
  <1>3. (~collided' => ~collided) /\ style' = style
    BY <1>1, HistoryKept
  <1>4. ~collided' => Alone /\ Alone'
    BY <1>1, <1>2, <1>3, AloneStep DEF IInv
  <1>5. ~collided' /\ ~style.echo => Debt /\ Debt'
    BY <1>1, <1>2, <1>3, <1>4, DebtStep DEF IInv
  <1>6. ~collided' /\ PlainServer => Cover'
    BY <1>1, <1>2, <1>3, <1>4, <1>5, CoverStep DEF IInv, PlainServer
  <1>7. PlainServer' <=> PlainServer
    BY <1>3 DEF PlainServer
  <1> QED BY <1>1, <1>2, <1>3, <1>4, <1>5, <1>6, <1>7 DEF IInv

LEMMA CrashKeepsInv ==
    ASSUME IInv, ServerCrash
    PROVE  IInv'
  <1> USE DEF SharedSame, RegistrySame
  <1>1. TypeOK /\ TypeOK'
    BY NextType DEF IInv, Next
  <1>2. CrashEffect
    BY <1>1, CrashDoes
  <1>3. \A u \in Task : Same(u) /\ RowTypes(u) /\ RowTypes(u)' /\ TaskShape(u)
    BY <1>1, <1>2, RowTyped, RowTypedNext DEF CrashEffect, IInv, Shape
  <1>4. /\ sid \in Nat /\ issued \in Nat /\ epoch \in Nat /\ reinits \in Nat /\ crashes \in Nat
        /\ sid' = sid /\ issued' = issued /\ epoch' = epoch /\ reinit' = reinit /\ style' = style
        /\ collided' = collided /\ connected' = connected /\ known' = {} /\ reinits' = reinits
        /\ crashes' = crashes + 1 /\ denied' = denied
    BY <1>1, <1>2, SharedTyped DEF CrashEffect
  <1>5. Shape'
    <2>1. \A u \in Task : TaskShape(u)'
      BY <1>3, <1>4, BystanderShape
    <2> QED BY <1>2, <1>4, <2>1 DEF Shape, IInv, CrashEffect
  <1>6. ~collided' => Alone'
    BY <1>2, <1>3, <1>4 DEF IInv, Alone, AloneAt, InConnect, InJob, Same, CrashEffect
  <1>7. /\ PendingLosses \in 0 .. 2 /\ PendingLosses' \in 0 .. 2
        /\ PendingLosses' <= PendingLosses + 1
    <2>1. reinit # NoTask => reply'[reinit] = reply[reinit]
      BY <1>1, <1>3 DEF TypeOK, Same
    <2>2. Current' = Current
      BY <1>4, <2>1 DEF Current
    <2>3. Bereft' <=> Bereft
      BY <1>4 DEF Bereft
    <2> QED BY <1>4, <2>2, <2>3 DEF PendingLosses
  <1>8. ASSUME ~collided', ~style.echo PROVE Debt'
    <2>1. Debt
      BY <1>4, <1>8 DEF IInv
    <2>2. ASSUME NEW u \in Task PROVE InUseAt(u)' /\ PaidAt(u)' /\ NoticedAt(u)'
      <3>1. InUseAt(u) /\ PaidAt(u) /\ NoticedAt(u) /\ Same(u)
        BY <1>3, <2>1 DEF Debt
      <3>2. InUseAt(u)'
        BY <1>4, <3>1 DEF InUseAt, Same
      <3>3. reinits' + Forgotten(reply[u].session)' <= crashes'
        BY <1>4, <1>7, <2>1 DEF Debt, Forgotten
      <3>4. NoticedAt(u)'
        BY <1>4, <1>7, <2>1, <3>1 DEF NoticedAt, Lost, Debt, Same
      <3> QED BY <3>2, <3>3, <3>4 DEF PaidAt
    <2>4. reinits' + PendingLosses' <= crashes'
      <3>1. reinits + PendingLosses <= crashes
        BY <2>1 DEF Debt
      <3>2. reinits' = reinits /\ crashes' = crashes + 1 /\ reinits \in Nat /\ crashes \in Nat
        BY <1>4
      <3>3. \A r, p, q, c \in Nat : r + p <= c /\ q <= p + 1 => r + q <= c + 1
        OBVIOUS
      <3>4. PendingLosses \in Nat /\ PendingLosses' \in Nat /\ PendingLosses' <= PendingLosses + 1
        BY <1>7
      <3> QED BY <3>1, <3>2, <3>3, <3>4
    <2> QED BY <2>2, <2>4 DEF Debt
  <1>9. ASSUME ~collided', PlainServer PROVE Cover'
    <2>1. Cover
      BY <1>4, <1>9 DEF IInv
    <2>2. ASSUME NEW u \in Task
          PROVE  CoveredAt(u)' /\ ConnectCoveredAt(u)' /\ CleanAt(u)' /\ SecondAt(u)' /\ BelievesAt(u)'
      <3>1. /\ CoveredAt(u) /\ ConnectCoveredAt(u) /\ CleanAt(u) /\ SecondAt(u) /\ BelievesAt(u)
            /\ Same(u) /\ RowTypes(u) /\ RowTypes(u)' /\ TaskShape(u)
        BY <1>3, <2>1 DEF Cover
      <3>2. pc[u] # "idle" => trouble'[u] = 2 \/ trouble'[u] = trouble[u] + 1
        BY <1>2 DEF CrashEffect
      <3>3. CoveredAt(u)'
        <4>1. InJob(u)' <=> InJob(u)
          BY <3>1 DEF InJob, Same
        <4>2. (\E v \in Task : InConnect(v)') <=> (\E v \in Task : InConnect(v))
          BY <1>3 DEF InConnect, Same
        <4>3. Repaired(u)' = Repaired(u) /\ Repaired(u) \in 0 .. 1
          BY <1>4, <3>1, <4>1 DEF Repaired, Same
        <4>4. InJob(u) => pc[u] # "idle"
          BY DEF InJob, Requesting
        <4> QED BY <1>4, <1>7, <3>1, <3>2, <4>1, <4>2, <4>3, <4>4
                DEF CoveredAt, Enough, RowTypes, Same
      <3>4. ConnectCoveredAt(u)'
        BY <3>1, <3>2 DEF ConnectCoveredAt, InConnect, Requesting, Enough, Forgotten, RowTypes, Same
      <3>5. CleanAt(u)' /\ SecondAt(u)'
        BY <1>4, <3>1, <3>2, NoReplyIs DEF CleanAt, SecondAt, TaskShape, RowTypes, Same
      <3>6. BelievesAt(u)'
        BY <1>4, <3>1, <3>2 DEF BelievesAt, Lost, Enough, RowTypes, Same
      <3> QED BY <3>3, <3>4, <3>5, <3>6
    <2> QED BY <1>4, <2>1, <2>2 DEF Cover
  <1>10. PlainServer' <=> PlainServer
    BY <1>4 DEF PlainServer
  <1> QED BY <1>1, <1>4, <1>5, <1>6, <1>8, <1>9, <1>10 DEF IInv

\* What the invariant speaks of, apart from the types, changes neither when the
\* server starts nor in a stuttering step.
LEMMA StillKeepsInv ==
    ASSUME IInv, ServerStart \/ UNCHANGED vars
    PROVE  IInv'
  <1>1. TypeOK'
    BY NextType DEF IInv, Next
  <1>2. UNCHANGED <<connected, sid, epoch, reinit, indexed, healthy, pc, phase, attempt, authed, seen,
                    sent, stale, reply, style, known, issued, trouble, denied, collided, reinits,
                    crashes>>
    BY DEF ServerStart, vars, backendVars, registryVars, requestVars, jobVars, historyVars
  <1>3. Shape'
    BY <1>2 DEF IInv, Shape, TaskShape
  <1>4. ~collided' => Alone'
    BY <1>2 DEF IInv, Alone, AloneAt, InConnect, InJob
  <1>5. PendingLosses' = PendingLosses
    BY <1>2 DEF PendingLosses, Current, Bereft
  <1>6. ~collided' /\ ~style'.echo => Debt'
    BY <1>2, <1>5 DEF IInv, Debt, InUseAt, PaidAt, NoticedAt, Lost, Forgotten, InConnect
  <1>7. ~collided' /\ PlainServer' => Cover'
    BY <1>2, <1>5
       DEF IInv, PlainServer, Cover, CoveredAt, ConnectCoveredAt, CleanAt, SecondAt, BelievesAt, Lost,
           Enough, Repaired, Forgotten, InJob, InConnect
  <1> QED BY <1>1, <1>3, <1>4, <1>6, <1>7 DEF IInv

LEMMA NextInv == IInv /\ [Next]_vars => IInv'
  BY TaskKeepsInv, CrashKeepsInv, StillKeepsInv DEF Next, Act

THEOREM Invariance == Spec => []IInv
  BY InitInv, NextInv, PTL DEF Spec

-----------------------------------------------------------------------------
(* What follows from it.                                                   *)

(* Types: every field of HttpBackend, every request under way and the        *)
(* registry's flags keep their types, whatever tasks, server and faults.     *)
THEOREM TypeCorrect == Spec => []TypeOK
  <1>1. IInv => TypeOK
    BY DEF IInv
  <1> QED BY <1>1, Invariance, PTL

(* A backend that is not connected is neither indexed nor healthy once all   *)
(* is quiet, so the next call reconnects it, as long as no reconnect has     *)
(* overlapped another job: connect runs alone, and only it clears the flag.  *)
THEOREM DownIsReconnected == Spec => []NextCallReconnects
  <1>1. IInv => NextCallReconnects
    <2> SUFFICES ASSUME IInv, ~connected, ~collided PROVE ~indexed /\ ~healthy
      BY DEF NextCallReconnects
    <2> QED BY DEF IInv, Alone, Shape
  <1> QED BY <1>1, Invariance, PTL

(* The double check of the epoch under reinit_lock: each completed           *)
(* re-initialisation has a crash of its own, however many callers met the    *)
(* loss, whoever won the lock and whoever was dropped on the way.            *)
THEOREM LossPaidOnce == Spec => []OneHandshakePerLoss
  <1>1. IInv => OneHandshakePerLoss
    <2> SUFFICES ASSUME IInv, ~style.echo, ~collided PROVE reinits <= crashes
      BY DEF OneHandshakePerLoss
    <2>1. TypeOK /\ reinits + PendingLosses <= crashes
      BY DEF IInv, Debt
    <2>2. PendingLosses \in 0 .. 2
      BY <2>1, PendingType
    <2> QED BY <2>1, <2>2, SharedTyped
  <1> QED BY <1>1, Invariance, PTL

(* send_request's one retry is enough for one restart: a job that has met    *)
(* fewer than two disturbances does not fail, for any number of callers,     *)
(* dropped in whatever order.                                                *)
THEOREM RestartIsInvisible == Spec => []OneRestartIsInvisible
  <1>1. IInv => OneRestartIsInvisible
    BY DEF IInv, OneRestartIsInvisible, Cover
  <1> QED BY <1>1, Invariance, PTL

-----------------------------------------------------------------------------
(* HttpBackend implements the McpBackend trait.                            *)

Doings == [t \in Task |-> Doing(t)]
CarriedSet == {t \in Task : Carried(t)}

Keeps(t) == Doing(t)' = Doing(t) /\ (Carried(t)' <=> Carried(t))

\* What t's step is, seen from the trait.
TraitStep(t) ==
    \/ Keeps(t) /\ connected' = connected /\ refresh' = refresh
    \/ /\ Doing(t) = "none" /\ Doing(t)' = "connect" /\ ~connected /\ connected' = connected
       /\ refresh' = refresh /\ ~Carried(t) /\ ~Carried(t)'
    \/ /\ Doing(t) = "connect" /\ Doing(t)' = "request" /\ connected'
       /\ refresh' = refresh /\ ~Carried(t) /\ ~Carried(t)'
    \/ /\ Doing(t) = "none" /\ Doing(t)' = "request" /\ connected /\ connected' = connected
       /\ refresh' = refresh /\ ~Carried(t) /\ ~Carried(t)'
    \/ /\ Doing(t) = "request" /\ Doing(t)' = "request" /\ ~Carried(t) /\ Carried(t)'
       /\ connected' = connected /\ refresh' = refresh
    \/ /\ Doing(t) = "request" /\ Doing(t)' = "request" /\ ~Carried(t) /\ ~Carried(t)'
       /\ connected' = connected /\ refresh' = TRUE
    \/ /\ Doing(t) = "none" /\ Doing(t)' = "none" /\ ~Carried(t) /\ ~Carried(t)'
       /\ connected' = FALSE /\ refresh' = refresh
    \/ /\ Doing(t) # "none" /\ Doing(t)' = "none" /\ ~Carried(t)'
       /\ connected' = connected /\ refresh' \in {refresh, FALSE}

LEMMA OthersDoings ==
    ASSUME NEW t \in Task, OthersSame(t)
    PROVE  /\ Doings' = [Doings EXCEPT ![t] = Doing(t)']
           /\ CarriedSet' = IF Carried(t)' THEN CarriedSet \union {t} ELSE CarriedSet \ {t}
  <1>1. \A u \in Task \ {t} : Keeps(u)
    BY DEF OthersSame, Same, Keeps, Doing, Carried
  <1>2. Doings' = [Doings EXCEPT ![t] = Doing(t)']
    BY <1>1 DEF Doings, Keeps
  <1>3. CarriedSet' = IF Carried(t)' THEN CarriedSet \union {t} ELSE CarriedSet \ {t}
    BY <1>1 DEF CarriedSet, Keeps
  <1> QED BY <1>2, <1>3

LEMMA StepIsTraits ==
    ASSUME NEW t \in Task, OthersSame(t), TraitStep(t)
    PROVE  [Contract!Next]_(Contract!vars)
  <1> USE DEF Contract!Next, Contract!vars, Contract!Enter
  <1>a. /\ Doings' = [Doings EXCEPT ![t] = Doing(t)']
        /\ CarriedSet' = IF Carried(t)' THEN CarriedSet \union {t} ELSE CarriedSet \ {t}
    BY OthersDoings
  <1>b. Doings[t] = Doing(t) /\ (t \in CarriedSet <=> Carried(t)) /\ Doings = [Doings EXCEPT ![t] = Doing(t)]
    BY DEF Doings, CarriedSet
  <1>c. ~Carried(t) /\ ~Carried(t)' => CarriedSet' = CarriedSet
    BY <1>a, <1>b
  <1>1. CASE Keeps(t) /\ connected' = connected /\ refresh' = refresh
    <2>1. Doings' = Doings /\ CarriedSet' = CarriedSet
      BY <1>a, <1>b, <1>1 DEF Keeps
    <2> QED BY <1>1, <2>1 DEF Doings, CarriedSet
  <1>2. CASE /\ Doing(t) = "none" /\ Doing(t)' = "connect" /\ ~connected /\ connected' = connected
             /\ refresh' = refresh /\ ~Carried(t) /\ ~Carried(t)'
    <2>1. Contract!Connect(t)
      BY <1>a, <1>b, <1>c, <1>2 DEF Contract!Connect, Doings, CarriedSet
    <2> QED BY <2>1
  <1>3. CASE /\ Doing(t) = "connect" /\ Doing(t)' = "request" /\ connected'
             /\ refresh' = refresh /\ ~Carried(t) /\ ~Carried(t)'
    <2>1. Contract!Connected(t)
      BY <1>a, <1>b, <1>c, <1>3 DEF Contract!Connected, Doings, CarriedSet
    <2> QED BY <2>1
  <1>4. CASE /\ Doing(t) = "none" /\ Doing(t)' = "request" /\ connected /\ connected' = connected
             /\ refresh' = refresh /\ ~Carried(t) /\ ~Carried(t)'
    <2>1. Contract!Request(t)
      BY <1>a, <1>b, <1>c, <1>4 DEF Contract!Request, Doings, CarriedSet
    <2> QED BY <2>1
  <1>5. CASE /\ Doing(t) = "request" /\ Doing(t)' = "request" /\ ~Carried(t) /\ Carried(t)'
             /\ connected' = connected /\ refresh' = refresh
    <2>1. Contract!Carry(t)
      BY <1>a, <1>b, <1>5 DEF Contract!Carry, Doings, CarriedSet
    <2> QED BY <2>1
  <1>6. CASE /\ Doing(t) = "request" /\ Doing(t)' = "request" /\ ~Carried(t) /\ ~Carried(t)'
             /\ connected' = connected /\ refresh' = TRUE
    <2>1. Contract!Renew(t)
      BY <1>a, <1>b, <1>c, <1>6 DEF Contract!Renew, Doings, CarriedSet
    <2> QED BY <2>1
  <1>7. CASE /\ Doing(t) = "none" /\ Doing(t)' = "none" /\ ~Carried(t) /\ ~Carried(t)'
             /\ connected' = FALSE /\ refresh' = refresh
    <2>1. Contract!Disconnect(t)
      BY <1>a, <1>b, <1>c, <1>7 DEF Contract!Disconnect, Doings, CarriedSet
    <2> QED BY <2>1
  <1>8. CASE /\ Doing(t) # "none" /\ Doing(t)' = "none" /\ ~Carried(t)'
             /\ connected' = connected /\ refresh' \in {refresh, FALSE}
    <2>1. Contract!Return(t)
      BY <1>a, <1>b, <1>8 DEF Contract!Return, Doings, CarriedSet
    <2> QED BY <2>1
  <1> QED BY <1>1, <1>2, <1>3, <1>4, <1>5, <1>6, <1>7, <1>8 DEF TraitStep

\* Only the end of a job that was a health check takes the refresh, and only a
\* re-initialisation sets it.
LEMMA RefreshDoes ==
    ASSUME NEW t \in Task, TypeOK
    PROVE  /\ JobDone(t) \/ HandshakeFailed(t) => refresh' \in {refresh, FALSE}
           /\ HandshakeDone(t) => refresh' = IF phase[t] = "reinit" THEN TRUE ELSE refresh
           /\ \/ Arrive(t) \/ Serve(t) \/ Unauthorized(t) \/ Disconnect(t) \/ Connect(t) \/ LoadEpoch(t)
              \/ Send(t) \/ JobLostSession(t) \/ AcquireToken(t) \/ TokenAcquired(t)
              \/ Reinitialize(t) \/ Initialized(t) \/ Abandon(t)
              => refresh' = refresh
  <1>1. JobDone(t) \/ HandshakeFailed(t) => refresh' \in {refresh, FALSE}
    BY DEF JobDone, HandshakeFailed, Finish, TypeOK
  <1>2. HandshakeDone(t) => refresh' = IF phase[t] = "reinit" THEN TRUE ELSE refresh
    BY DEF HandshakeDone
  <1>3. Arrive(t) => refresh' = refresh
    BY DEF Arrive, CallTool, ReconnectOnCall, HealthCheck, backendVars
  <1>4. \/ Serve(t) \/ Unauthorized(t) \/ Disconnect(t) \/ Connect(t) \/ LoadEpoch(t) \/ Send(t)
        \/ JobLostSession(t) \/ AcquireToken(t) \/ TokenAcquired(t) \/ Reinitialize(t) \/ Initialized(t)
        \/ Abandon(t)
        => refresh' = refresh
    BY DEF Serve, Unauthorized, Disconnect, Connect, LoadEpoch, Send, JobLostSession, AcquireToken,
           TokenAcquired, Reinitialize, Initialized, Abandon, backendVars
  <1> QED BY <1>1, <1>2, <1>3, <1>4

LEMMA TaskIsTraits ==
    ASSUME TypeOK, Shape, NEW t \in Task, Act(t)
    PROVE  [Contract!Next]_(Contract!vars)
  <1> USE DEF Doing, Carried, SharedSame
  <1>a. TaskShape(t) /\ RowTypes(t)
    BY RowTyped DEF Shape
  <1>b. SUFFICES OthersSame(t) /\ TraitStep(t)
    BY StepIsTraits
  <1>1. CASE Arrive(t)
    <2>1. ArriveEffect(t) /\ refresh' = refresh
      BY <1>1, ArriveDoes, RefreshDoes
    <2> QED BY <1>a, <2>1 DEF ArriveEffect, TaskShape, TraitStep, Keeps
  <1>2. CASE Disconnect(t)
    <2>1. DisconnectEffect(t) /\ refresh' = refresh
      BY <1>2, DisconnectDoes, RefreshDoes
    <2> QED BY <2>1 DEF DisconnectEffect, TraitStep
  <1>3. CASE Connect(t)
    <2>1. ConnectEffect(t) /\ refresh' = refresh
      BY <1>3, ConnectDoes, RefreshDoes
    <2> QED BY <1>a, <2>1 DEF ConnectEffect, TaskShape, TraitStep
  <1>4. CASE LoadEpoch(t)
    <2>1. LoadEpochEffect(t) /\ refresh' = refresh
      BY <1>4, LoadEpochDoes, RefreshDoes
    <2> QED BY <2>1 DEF LoadEpochEffect, TraitStep, Keeps
  <1>5. CASE Send(t)
    <2>1. SendEffect(t) /\ refresh' = refresh
      BY <1>5, SendDoes, RefreshDoes
    <2> QED BY <2>1 DEF SendEffect, TraitStep, Keeps
  <1>6. CASE Serve(t)
    <2>1. ServeEffect(t) /\ refresh' = refresh
      BY <1>6, ServeDoes, RefreshDoes
    <2> QED BY <2>1 DEF ServeEffect, TraitStep, Keeps
  <1>7. CASE Unauthorized(t)
    <2>1. UnauthorizedEffect(t) /\ refresh' = refresh
      BY <1>7, UnauthorizedDoes, RefreshDoes
    <2> QED BY <2>1, OnlyIs DEF UnauthorizedEffect, TraitStep, Keeps
  <1>8. CASE JobDone(t)
    <2>1. JobDoneEffect(t) /\ refresh' \in {refresh, FALSE}
      BY <1>8, JobDoneDoes, RefreshDoes
    <2> QED BY <2>1 DEF JobDoneEffect, TraitStep
  <1>9. CASE JobLostSession(t)
    <2>1. JobLostEffect(t) /\ refresh' = refresh
      BY <1>9, JobLostDoes, RefreshDoes
    <2> QED BY <2>1 DEF JobLostEffect, SessionLost, TraitStep, Keeps
  <1>10. CASE AcquireToken(t)
    <2>1. AcquireEffect(t) /\ refresh' = refresh
      BY <1>10, AcquireDoes, RefreshDoes
    <2> QED BY <2>1 DEF AcquireEffect, TraitStep, Keeps
  <1>11. CASE TokenAcquired(t)
    <2>1. TokenEffect(t) /\ refresh' = refresh
      BY <1>11, TokenDoes, RefreshDoes
    <2> QED BY <2>1, OnlyIs DEF TokenEffect, TraitStep, Keeps
  <1>12. CASE Reinitialize(t)
    <2>1. ReinitializeEffect(t) /\ refresh' = refresh
      BY <1>12, ReinitializeDoes, RefreshDoes
    <2> QED BY <1>a, <2>1 DEF ReinitializeEffect, TaskShape, TraitStep, Keeps
  <1>13. CASE Initialized(t)
    <2>1. InitializedEffect(t) /\ refresh' = refresh
      BY <1>13, InitializedDoes, RefreshDoes
    <2> QED BY <2>1 DEF InitializedEffect, TraitStep, Keeps
  <1>14. CASE HandshakeDone(t)
    <2>1. HandshakeDoneEffect(t) /\ refresh' = IF phase[t] = "reinit" THEN TRUE ELSE refresh
      BY <1>14, HandshakeDoneDoes, RefreshDoes
    <2> QED BY <1>a, <2>1 DEF HandshakeDoneEffect, TaskShape, RowTypes, Phase, TraitStep
  <1>15. CASE HandshakeFailed(t)
    <2>1. HandshakeFailedEffect(t) /\ refresh' \in {refresh, FALSE}
      BY <1>15, HandshakeFailedDoes, RefreshDoes
    <2> QED BY <2>1 DEF HandshakeFailedEffect, TraitStep
  <1>16. CASE Abandon(t)
    <2>1. AbandonEffect(t) /\ refresh' = refresh
      BY <1>16, AbandonDoes, RefreshDoes
    <2> QED BY <2>1 DEF AbandonEffect, TraitStep, Keeps
  <1> QED BY <1>1, <1>2, <1>3, <1>4, <1>5, <1>6, <1>7, <1>8, <1>9, <1>10, <1>11, <1>12, <1>13,
          <1>14, <1>15, <1>16
          DEF Act, Step, Proceed

(* Whatever the server does and however the callers, the re-initialisations *)
(* and the registry's reconnects interleave, HttpBackend keeps the trait's   *)
(* word: no request that may have been carried out is sent again, none       *)
(* starts on a backend that is not connected, only a whole handshake         *)
(* connects, and only a re-initialisation asks for a new listing.            *)
THEOREM Implements == Spec => ImplementsBackend
  <1>1. Init => Contract!Init
    <2> SUFFICES ASSUME Init PROVE Contract!Init
      OBVIOUS
    <2>1. connected \in BOOLEAN
      BY InitType DEF TypeOK
    <2>2. \A t \in Task : Doing(t) = "none" /\ ~Carried(t)
      BY DEF Init, Doing, Carried
    <2> QED BY <2>1, <2>2 DEF Init, Contract!Init
  <1>2. IInv /\ [Next]_vars => [Contract!Next]_(Contract!vars)
    <2> SUFFICES ASSUME IInv, [Next]_vars PROVE [Contract!Next]_(Contract!vars)
      OBVIOUS
    <2>1. CASE \E t \in Task : Act(t)
      BY <2>1, TaskIsTraits DEF IInv
    <2>2. CASE ServerCrash \/ ServerStart \/ UNCHANGED vars
      <3>1. UNCHANGED <<connected, refresh, pc, phase, reply>>
        BY <2>2 DEF ServerCrash, ServerStart, vars, backendVars, requestVars
      <3> QED BY <3>1 DEF Contract!vars, Doing, Carried
    <2> QED BY <2>1, <2>2 DEF Next, Act
  <1> QED BY <1>1, <1>2, Invariance, PTL DEF Spec, ImplementsBackend, Contract!Spec

-----------------------------------------------------------------------------
(* A job takes a bounded number of steps.                                  *)

\* Steps left of the request that is out; a 401 costs a token and a second answer.
RequestLeft(t) ==
    CASE pc[t] = "send" -> 6
      [] pc[t] = "sent" -> IF authed[t] THEN 2 ELSE 5
      [] pc[t] = "token" -> 3
      [] OTHER -> IF reply[t].kind = "unauthorized" THEN 4 ELSE 1

\* Steps left of a job, at most: the second attempt, the handshake before it,
\* the first attempt, connect's handshake, disconnect; a health check may be
\* followed by a connect and a listing.
StepsLeft(t) ==
    (IF job[t] = "check" THEN 31 ELSE 0) +
    (CASE pc[t] = "disconnect" -> 30
       [] pc[t] = "connect" -> 29
       [] pc[t] = "notify" -> IF phase[t] = "reinit" THEN 7 ELSE 22
       [] pc[t] = "start" -> 21
       [] pc[t] = "wait_reinit" -> 14
       [] OTHER -> RequestLeft(t) + (CASE phase[t] = "connect" -> 22
                                       [] phase[t] = "reinit" -> 7
                                       [] OTHER -> IF attempt[t] = 1 THEN 14 ELSE 0))

Works(t) == Step(t) \/ Serve(t) \/ Unauthorized(t)

\* Every step of a job uses up some of what is left of it, and nobody else's
\* adds to it.
WorkShrinks ==
    [][\A t \in Task : pc[t] # "idle" =>
          /\ Works(t) => pc'[t] = "idle" \/ StepsLeft(t)' < StepsLeft(t)
          /\ pc'[t] = "idle" \/ StepsLeft(t)' <= StepsLeft(t)]_vars

\* No job has more than 61 steps before it.
LEMMA StepsLeftBound ==
    ASSUME NEW t \in Task
    PROVE  StepsLeft(t) \in 1 .. 61
  <1>1. RequestLeft(t) \in 1 .. 6
    BY DEF RequestLeft
  <1> QED BY <1>1 DEF StepsLeft

LEMMA StepsLeftBoundNext ==
    ASSUME NEW t \in Task
    PROVE  StepsLeft(t)' \in 1 .. 61
  <1>1. RequestLeft(t)' \in 1 .. 6
    BY DEF RequestLeft
  <1> QED BY <1>1 DEF StepsLeft

\* Which job a task has changes at its ends only, and when connect begins a listing.
LEMMA JobDoes ==
    ASSUME TypeOK, NEW t \in Task, Works(t), pc[t] # "idle"
    PROVE  /\ \A u \in Task \ {t} : job'[u] = job[u]
           /\ job'[t] \in {job[t], "list"}
           /\ JobDone(t) => job'[t] = "list" /\ (pc'[t] = "connect" => job[t] = "check")
           /\ ~(Connect(t) \/ JobDone(t) \/ HandshakeFailed(t)) => job'[t] = job[t]
  <1> USE DEF TypeOK
  <1>1. CASE JobDone(t) \/ HandshakeFailed(t)
    <2>1. PICK ok \in BOOLEAN : Finish(t, ok)
      BY <1>1 DEF JobDone, HandshakeFailed
    <2>2. job' = [job EXCEPT ![t] = "list"] /\ (pc'[t] = "connect" => job[t] = "check")
      BY <2>1 DEF Finish, Forget, Goto
    <2> QED BY <1>1, <2>2
  <1>2. CASE Connect(t)
    <2>1. job' = [job EXCEPT ![t] = "list"] /\ pc[t] = "connect"
      BY <1>2 DEF Connect
    <2> QED BY <1>2, <2>1 DEF JobDone
  <1>3. CASE ~(Connect(t) \/ JobDone(t) \/ HandshakeFailed(t))
    <2>1. job' = job
      BY <1>3 DEF Works, Step, Proceed, Serve, Unauthorized, Disconnect, LoadEpoch, Send, JobLostSession,
            AcquireToken, TokenAcquired, Reinitialize, Initialized, HandshakeDone, jobVars
    <2> QED BY <1>3, <2>1
  <1> QED BY <1>1, <1>2, <1>3

LEMMA WorkIsDone ==
    ASSUME TypeOK, TypeOK', Shape, NEW t \in Task, Works(t), pc[t] # "idle"
    PROVE  /\ pc'[t] = "idle" \/ StepsLeft(t)' < StepsLeft(t)
           /\ \A u \in Task \ {t} : pc'[u] = pc[u] /\ StepsLeft(u)' = StepsLeft(u)
  <1> USE DEF StepsLeft, RequestLeft
  <1>a. TaskShape(t) /\ RowTypes(t)
    BY RowTyped DEF Shape
  <1>b. /\ \A u \in Task \ {t} : job'[u] = job[u]
        /\ job'[t] \in {job[t], "list"}
    BY JobDoes
  <1>c. ASSUME OthersSame(t) PROVE \A u \in Task \ {t} : pc'[u] = pc[u] /\ StepsLeft(u)' = StepsLeft(u)
    BY <1>b, <1>c DEF OthersSame, Same
  <1>1. CASE Disconnect(t)
    BY <1>1, <1>b, <1>c, DisconnectDoes DEF DisconnectEffect
  <1>2. CASE Connect(t)
    <2>1. ConnectEffect(t)
      BY <1>2, ConnectDoes
    <2>2. pc'[t] = "idle" \/ StepsLeft(t)' < StepsLeft(t)
      BY <1>a, <1>b, <2>1 DEF ConnectEffect, RowTypes, Phase, TaskShape
    <2> QED BY <1>c, <2>1, <2>2 DEF ConnectEffect
  <1>3. CASE LoadEpoch(t)
    <2>1. LoadEpochEffect(t)
      BY <1>3, LoadEpochDoes
    <2>2. pc'[t] = "idle" \/ StepsLeft(t)' < StepsLeft(t)
      BY <1>a, <1>b, <2>1 DEF LoadEpochEffect, RowTypes, Phase, TaskShape
    <2> QED BY <1>c, <2>1, <2>2 DEF LoadEpochEffect
  <1>4. CASE Send(t)
    BY <1>4, <1>b, <1>c, SendDoes DEF SendEffect
  <1>5. CASE Serve(t)
    <2>1. ServeEffect(t)
      BY <1>5, ServeDoes
    <2>2. reply'[t].kind # "unauthorized"
      BY <2>1, AnswerIs, OnlyIs DEF ServeEffect
    <2> QED BY <1>b, <1>c, <2>1, <2>2 DEF ServeEffect
  <1>6. CASE Unauthorized(t)
    <2>1. UnauthorizedEffect(t) /\ ~authed[t]
      BY <1>6, UnauthorizedDoes DEF Unauthorized
    <2> QED BY <1>b, <1>c, <2>1, OnlyIs DEF UnauthorizedEffect
  <1>7. CASE JobDone(t)
    <2>1. JobDoneEffect(t) /\ job'[t] = "list" /\ (pc'[t] = "connect" => job[t] = "check")
      BY <1>7, JobDoneDoes, JobDoes
    <2> QED BY <1>b, <1>c, <2>1 DEF JobDoneEffect
  <1>8. CASE JobLostSession(t)
    <2>1. JobLostEffect(t)
      BY <1>8, JobLostDoes
    <2> QED BY <1>b, <1>c, <2>1 DEF JobLostEffect, SessionLost
  <1>9. CASE AcquireToken(t)
    BY <1>9, <1>b, <1>c, AcquireDoes DEF AcquireEffect
  <1>10. CASE TokenAcquired(t)
    <2>1. TokenEffect(t)
      BY <1>10, TokenDoes
    <2> QED BY <1>b, <1>c, <2>1, OnlyIs DEF TokenEffect
  <1>11. CASE Reinitialize(t)
    <2>1. ReinitializeEffect(t)
      BY <1>11, ReinitializeDoes
    <2>2. pc'[t] = "idle" \/ StepsLeft(t)' < StepsLeft(t)
      BY <1>a, <1>b, <2>1 DEF ReinitializeEffect, RowTypes, Phase, TaskShape
    <2> QED BY <1>c, <2>1, <2>2 DEF ReinitializeEffect
  <1>12. CASE Initialized(t)
    BY <1>12, <1>a, <1>b, <1>c, InitializedDoes DEF InitializedEffect, RowTypes, Phase
  <1>13. CASE HandshakeDone(t)
    <2>1. HandshakeDoneEffect(t)
      BY <1>13, HandshakeDoneDoes
    <2>2. pc'[t] = "idle" \/ StepsLeft(t)' < StepsLeft(t)
      BY <1>a, <1>b, <2>1 DEF HandshakeDoneEffect, RowTypes, Phase, TaskShape
    <2> QED BY <1>c, <2>1, <2>2 DEF HandshakeDoneEffect
  <1>14. CASE HandshakeFailed(t)
    BY <1>14, <1>b, <1>c, HandshakeFailedDoes DEF HandshakeFailedEffect
  <1> QED BY <1>1, <1>2, <1>3, <1>4, <1>5, <1>6, <1>7, <1>8, <1>9, <1>10, <1>11, <1>12, <1>13,
          <1>14 DEF Works, Step, Proceed

(* send_request cannot go round in circles: whatever the server answers and  *)
(* however often it restarts, every step of a call, a listing, a health      *)
(* check or a reconnect shrinks what is left of it, from 61 steps at most    *)
(* (StepsLeftBound); the other tasks never add to it.                        *)
THEOREM JobsAreBounded == Spec => WorkShrinks
  <1>1. IInv /\ [Next]_vars =>
          [\A t \in Task : pc[t] # "idle" =>
              /\ Works(t) => pc'[t] = "idle" \/ StepsLeft(t)' < StepsLeft(t)
              /\ pc'[t] = "idle" \/ StepsLeft(t)' <= StepsLeft(t)]_vars
    <2> SUFFICES ASSUME IInv, Next, NEW t \in Task, pc[t] # "idle"
                 PROVE  /\ Works(t) => pc'[t] = "idle" \/ StepsLeft(t)' < StepsLeft(t)
                        /\ pc'[t] = "idle" \/ StepsLeft(t)' <= StepsLeft(t)
      OBVIOUS
    <2>1. TypeOK /\ Shape /\ TypeOK'
      BY NextType DEF IInv
    <2>2. StepsLeft(t) \in Nat /\ (StepsLeft(t)' < StepsLeft(t) => StepsLeft(t)' <= StepsLeft(t))
      <3>1. StepsLeft(t) \in 1 .. 61
        BY StepsLeftBound
      <3>2. StepsLeft(t)' \in 1 .. 61
        BY StepsLeftBoundNext
      <3> QED BY <3>1, <3>2
    <2>3. Works(t) => pc'[t] = "idle" \/ StepsLeft(t)' < StepsLeft(t)
      BY <2>1, WorkIsDone
    <2>4. pc'[t] = "idle" \/ StepsLeft(t)' <= StepsLeft(t)
      <3>1. CASE Works(t)
        BY <2>2, <2>3, <3>1
      <3>2. ASSUME NEW u \in Task \ {t}, Works(u) PROVE StepsLeft(t)' <= StepsLeft(t)
        <4>1. CASE pc[u] # "idle"
          <5>1. StepsLeft(t)' = StepsLeft(t)
            BY <2>1, <3>2, <4>1, WorkIsDone
          <5> QED BY <2>2, <5>1
        <4>2. CASE pc[u] = "idle"
          BY <3>2, <4>2 DEF Works, Step, Proceed, Serve, Unauthorized, Disconnect, Connect, LoadEpoch, Send,
                JobDone, JobLostSession, AcquireToken, TokenAcquired, Reinitialize, Initialized,
                HandshakeDone, HandshakeFailed
        <4> QED BY <4>1, <4>2
      <3>3. ASSUME NEW u \in Task, Arrive(u) PROVE StepsLeft(t)' <= StepsLeft(t)
        <4>1. ArriveEffect(u) /\ u # t
          BY <2>1, <3>3, ArriveDoes DEF ArriveEffect
        <4>2. job'[t] = job[t]
          BY <2>1, <3>3, <4>1 DEF Arrive, CallTool, ReconnectOnCall, HealthCheck, StartJob, TypeOK
        <4>3. StepsLeft(t)' = StepsLeft(t)
          BY <4>1, <4>2 DEF ArriveEffect, OthersSame, Same, StepsLeft, RequestLeft
        <4> QED BY <2>2, <4>3
      <3>4. CASE ServerCrash \/ ServerStart
        <4>1. UNCHANGED <<pc, job, phase, attempt, authed, reply>>
          BY <3>4 DEF ServerCrash, ServerStart, requestVars, jobVars
        <4>2. StepsLeft(t)' = StepsLeft(t)
          BY <4>1 DEF StepsLeft, RequestLeft
        <4> QED BY <2>2, <4>2
      <3>5. ASSUME NEW u \in Task, Abandon(u) PROVE pc'[t] = "idle" \/ StepsLeft(t)' <= StepsLeft(t)
        <4>1. AbandonEffect(u)
          BY <2>1, <3>5, AbandonDoes
        <4>2. CASE u = t
          BY <4>1, <4>2 DEF AbandonEffect
        <4>3. CASE u # t
          <5>1. job'[t] = job[t]
            BY <3>5, <4>3, <2>1 DEF Abandon, Forget, TypeOK
          <5>2. StepsLeft(t)' = StepsLeft(t)
            BY <4>1, <4>3, <5>1 DEF AbandonEffect, OthersSame, Same, StepsLeft, RequestLeft
          <5> QED BY <2>2, <5>2
        <4> QED BY <4>2, <4>3
      <3> QED BY <3>1, <3>2, <3>3, <3>4, <3>5 DEF Next, Works
    <2> QED BY <2>3, <2>4
  <1> QED BY <1>1, Invariance, PTL DEF Spec, WorkShrinks

\* A task that waits for reinit_lock waits for another that works on the handshake.
NobodyWaitsForAWaiter ==
    \A t \in Task : pc[t] = "wait_reinit" /\ reinit # NoTask =>
        /\ reinit \in Task \ {t}
        /\ phase[reinit] = "reinit" /\ pc[reinit] \in Requesting \union {"notify"}

(* reinit_lock is never held by a task that waits, is idle or has moved on    *)
(* to its own request, so whoever waits for it waits for a task whose         *)
(* handshake is under way; with JobsAreBounded, no call waits for ever.       *)
THEOREM HoldersWork == Spec => []NobodyWaitsForAWaiter
  <1>1. IInv => NobodyWaitsForAWaiter
    <2> SUFFICES ASSUME IInv, NEW t \in Task, pc[t] = "wait_reinit", reinit # NoTask
                 PROVE  /\ reinit \in Task \ {t}
                        /\ phase[reinit] = "reinit" /\ pc[reinit] \in Requesting \union {"notify"}
      BY DEF NobodyWaitsForAWaiter
    <2>1. reinit \in Task /\ TaskShape(reinit) /\ TaskShape(t)
      BY DEF IInv, Shape, TypeOK
    <2> QED BY <2>1 DEF TaskShape, Requesting
  <1> QED BY <1>1, Invariance, PTL

==============================================================================
