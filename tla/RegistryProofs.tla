--------------------------- MODULE RegistryProofs ---------------------------
(***************************************************************************)
(* Proofs about Registry, for every set of tasks, backends and names, every *)
(* choice of jobs, modes and offered tools, and every value of the bounds. *)
(***************************************************************************)
EXTENDS Registry, TLAPS

USE DEF registryVars, taskVars, backendVars, historyVars, fixedVars

-----------------------------------------------------------------------------
(* The variables in two groups, and the helpers that change the first.     *)

TasksOK ==
    /\ pc \in [Task -> Location] /\ job \in [Task -> Kind]
    /\ target \in [Task -> Backend \union {NoBackend}] /\ name \in [Task -> Name]
    /\ todo \in [Task -> SUBSET Backend] /\ listing \in [Task -> SUBSET Name]

RegistryOK ==
    /\ registered \subseteq Backend /\ healthy \subseteq registered
    /\ index \in [Name -> Backend \union {NoBackend}]
    /\ locked \in Task \union {NoTask}

BackendsOK ==
    /\ conn \subseteq Backend /\ up \subseteq Backend
    /\ offers \in [Backend -> SUBSET Name]
    /\ renewed \subseteq conn /\ refresh \subseteq Backend
    /\ overlapped \subseteq Backend /\ unlisted \subseteq Backend

FixedOK == mode \in Modes /\ jobs \in 0 .. MaxJobs /\ faults \in 0 .. MaxFaults

\* A task that has removed a handle knows which.
RetainOK == \A t \in Task : pc[t] = "retain" => target[t] \in Backend

TypeInv == TasksOK /\ RegistryOK /\ BackendsOK /\ FixedOK /\ RetainOK

LEMMA TypeInvTypeOK == TypeInv => TypeOK
  BY DEF TypeInv, TypeOK, TasksOK, RegistryOK, BackendsOK, FixedOK

LEMMA SomeName == AnyName \in Name
  BY ConstantsAssumption DEF AnyName

LEMMA DoneOK ==
  ASSUME TasksOK, RetainOK, NEW t \in Task, Done(t)
  PROVE  TasksOK' /\ RetainOK'
  BY SomeName DEF TasksOK, RetainOK, Done, Goto, Location, Kind

LEMMA GotoOK ==
  ASSUME TasksOK, RetainOK, NEW t \in Task, NEW where \in Location, where # "retain",
         Goto(t, where), UNCHANGED taskVars
  PROVE  TasksOK' /\ RetainOK'
  BY DEF TasksOK, RetainOK, Goto

LEMMA ReturnOK ==
  ASSUME TasksOK, RetainOK, NEW t \in Task, NEW ok \in BOOLEAN, Return(t, ok)
  PROVE  TasksOK' /\ RetainOK'
<1>1. CASE Done(t)
  BY <1>1, DoneOK
<1>2. CASE \E where \in {"route", "call", "next"} : Goto(t, where) /\ UNCHANGED taskVars
  BY <1>2, GotoOK DEF Location
<1> QED
  BY <1>1, <1>2 DEF Return

LEMMA OwnedOK ==
  ASSUME RegistryOK, NEW b \in Backend \union {NoBackend}, NEW names, index' = Owned(b, names)
  PROVE  index' \in [Name -> Backend \union {NoBackend}]
  BY DEF RegistryOK, Owned

LEMMA FaultOK == ASSUME FixedOK, Fault PROVE faults' \in 0 .. MaxFaults
  BY ConstantsAssumption DEF FixedOK, Fault

LEMMA FailsOK ==
  ASSUME BackendsOK, FixedOK, NEW b, Fails(b), UNCHANGED <<overlapped, mode, jobs>>,
         unlisted' \subseteq Backend
  PROVE  BackendsOK' /\ FixedOK'
<1>1. faults' \in 0 .. MaxFaults
  BY FaultOK DEF Fails, FixedOK
<1>2. BackendsOK'
  BY DEF Fails, Answered, Reachable, BackendsOK
<1> QED
  BY <1>1, <1>2 DEF FixedOK

LEMMA OpensOK ==
  ASSUME BackendsOK, FixedOK, NEW b \in Backend \union {NoBackend}, Opens(b) \/ FailsToOpen(b),
         UNCHANGED <<up, offers, renewed, refresh, historyVars, mode, jobs>>
  PROVE  BackendsOK' /\ FixedOK'
<1>1. faults' \in 0 .. MaxFaults
  BY FaultOK DEF Opens, FailsToOpen, FixedOK
<1>2. BackendsOK'
  BY ConstantsAssumption DEF Opens, FailsToOpen, BackendsOK
<1> QED
  BY <1>1, <1>2 DEF FixedOK

LEMMA InitTypeInv == Init => TypeInv
<1> SUFFICES ASSUME Init PROVE TypeInv
  OBVIOUS
<1>1. TasksOK
  BY SomeName DEF Init, TasksOK, Location, Kind
<1>2. RegistryOK
  BY DEF Init, RegistryOK
<1>3. \A b \in Backend : offers[b] \in SUBSET Name
  BY ConstantsAssumption DEF Init
<1>4. BackendsOK
  BY <1>3 DEF Init, BackendsOK
<1>5. FixedOK /\ RetainOK
  BY ConstantsAssumption DEF Init, FixedOK, RetainOK
<1> QED
  BY <1>1, <1>2, <1>4, <1>5 DEF TypeInv

LEMMA NextTypeInv == TypeInv /\ [Next]_vars => TypeInv'
<1> SUFFICES ASSUME TypeInv, [Next]_vars PROVE TypeInv'
  OBVIOUS
<1> USE DEF TypeInv
<1>1. ASSUME NEW t \in Task, Lookup(t) PROVE TypeInv'
  <2>1. TasksOK' /\ RetainOK'
    BY <1>1, GotoOK, ReturnOK DEF Lookup, Location, Connecting
  <2>2. target[t] \in registered => target[t] \in Backend
    BY DEF RegistryOK
  <2>3. overlapped' \subseteq Backend
    BY <1>1, <2>2 DEF Lookup, Overlap, BackendsOK
  <2>4. RegistryOK' /\ BackendsOK' /\ FixedOK'
    BY <1>1, <2>3 DEF Lookup, RegistryOK, BackendsOK, FixedOK
  <2> QED
    BY <2>1, <2>4
<1>2. ASSUME NEW t \in Task, Connect(t) PROVE TypeInv'
  <2>1. TasksOK' /\ RetainOK'
    BY <1>2, GotoOK, ReturnOK DEF Connect, Location, Connecting
  <2>2. BackendsOK' /\ FixedOK'
    BY <1>2, OpensOK DEF Connect, TasksOK
  <2>3. RegistryOK'
    BY <1>2 DEF Connect, RegistryOK
  <2> QED
    BY <2>1, <2>2, <2>3
<1>3. ASSUME NEW t \in Task, List(t) PROVE TypeInv'
  <2> DEFINE b == target[t]
  <2>1. RegistryOK'
    BY <1>3 DEF List, RegistryOK
  <2>2. CASE /\ Reachable(b) /\ Answered(b) /\ Goto(t, "index")
             /\ listing' = [listing EXCEPT ![t] = offers[b]]
             /\ UNCHANGED <<job, target, name, todo, conn, up, offers, unlisted, faults>>
    <3>1. offers[b] \in SUBSET Name
      BY <2>2 DEF Reachable, BackendsOK
    <3>2. TasksOK' /\ RetainOK'
      BY <2>2, <3>1 DEF TasksOK, RetainOK, Goto, Location, Connecting
    <3>3. BackendsOK' /\ FixedOK'
      BY <1>3, <2>2 DEF List, Reachable, Answered, BackendsOK, FixedOK
    <3> QED
      BY <2>1, <3>2, <3>3
  <2>3. CASE Fails(b) /\ Return(t, FALSE) /\ (IF Reachable(b) THEN EndsEarly(b) ELSE UNCHANGED unlisted)
    <3>1. unlisted' \subseteq Backend
      BY <2>3 DEF EndsEarly, Reachable, BackendsOK
    <3>2. BackendsOK' /\ FixedOK'
      BY <1>3, <2>3, <3>1, FailsOK DEF List
    <3> QED
      BY <2>1, <2>3, <3>2, ReturnOK
  <2> QED
    BY <1>3, <2>2, <2>3 DEF List
<1>4. ASSUME NEW t \in Task, Index(t) PROVE TypeInv'
  <2>1. TasksOK' /\ RetainOK'
    BY <1>4, ReturnOK DEF Index
  <2>2. target[t] \in Backend \union {NoBackend}
    BY DEF TasksOK
  <2>3. index' \in [Name -> Backend \union {NoBackend}]
    BY <1>4, <2>2, OwnedOK DEF Index
  <2>4. /\ UNCHANGED <<registered, locked, backendVars, overlapped, fixedVars>>
        /\ unlisted' \subseteq Backend
    BY <1>4 DEF Index, EndsEarly, RegistryOK, BackendsOK
  <2>5. healthy' \subseteq registered
    <3>1. healthy' = healthy \/ healthy' = MarkedHealthy(target[t])
      BY <1>4 DEF Index
    <3> QED
      BY <3>1 DEF MarkedHealthy, RegistryOK
  <2>6. RegistryOK' /\ BackendsOK' /\ FixedOK'
    BY <2>3, <2>4, <2>5 DEF RegistryOK, BackendsOK, FixedOK
  <2> QED
    BY <2>1, <2>6
<1>5. ASSUME NEW t \in Task, StartCall(t) PROVE TypeInv'
  <2>1. \A n \in Name : Candidates(n) \subseteq Backend \union {NoBackend}
    BY DEF Candidates, RegistryOK
  <2>2. TasksOK' /\ RetainOK'
    BY <1>5, <2>1 DEF StartCall, TasksOK, RetainOK, Goto, Location, Kind
  <2>3. RegistryOK' /\ BackendsOK'
    BY <1>5 DEF StartCall, RegistryOK, BackendsOK
  <2>4. FixedOK'
    BY <1>5, ConstantsAssumption DEF StartCall, FixedOK
  <2> QED
    BY <2>2, <2>3, <2>4
<1>6. ASSUME NEW t \in Task, Disconnect(t) PROVE TypeInv'
  <2>1. TasksOK' /\ RetainOK'
    BY <1>6, GotoOK, DoneOK DEF Disconnect, Location, Connecting
  <2>2. RegistryOK' /\ BackendsOK' /\ FixedOK'
    BY <1>6 DEF Disconnect, RegistryOK, BackendsOK, FixedOK
  <2> QED
    BY <2>1, <2>2
<1>7. ASSUME NEW t \in Task, Route(t) PROVE TypeInv'
  <2>1. CASE index[name[t]] \notin registered
    <3>1. TasksOK' /\ RetainOK'
      BY <1>7, <2>1, DoneOK DEF Route
    <3> QED
      BY <1>7, <3>1 DEF Route, RegistryOK, BackendsOK, FixedOK
  <2>2. CASE index[name[t]] \in registered
    <3>1. TasksOK' /\ RetainOK'
      BY <1>7, <2>2 DEF Route, TasksOK, RetainOK, RegistryOK, Goto, Location, Connecting, Kind
    <3> QED
      BY <1>7, <3>1 DEF Route, RegistryOK, BackendsOK, FixedOK
  <2> QED
    BY <2>1, <2>2
<1>8. ASSUME NEW t \in Task, Open(t) PROVE TypeInv'
  <2>1. TasksOK' /\ RetainOK'
    BY <1>8, GotoOK, DoneOK DEF Open, Location
  <2>2. BackendsOK' /\ FixedOK'
    BY <1>8, OpensOK DEF Open, TasksOK
  <2>3. RegistryOK'
    BY <1>8 DEF Open, RegistryOK
  <2> QED
    BY <2>1, <2>2, <2>3
<1>9. ASSUME NEW t \in Task, CallTool(t) PROVE TypeInv'
  <2>1. TasksOK' /\ RetainOK'
    BY <1>9, GotoOK, DoneOK DEF CallTool, Location
  <2>2. BackendsOK' /\ FixedOK'
    <3>1. CASE Reachable(target[t]) /\ Answered(target[t]) /\ UNCHANGED <<conn, up, offers, faults>>
      BY <1>9, <3>1 DEF CallTool, Reachable, Answered, BackendsOK, FixedOK
    <3>2. CASE Fails(target[t])
      BY <1>9, <3>2, FailsOK DEF CallTool, BackendsOK
    <3> QED
      BY <1>9, <3>1, <3>2 DEF CallTool
  <2>3. RegistryOK'
    BY <1>9 DEF CallTool, RegistryOK
  <2> QED
    BY <2>1, <2>2, <2>3
<1>10. ASSUME NEW t \in Task, NextBackend(t) PROVE TypeInv'
  <2>1. TasksOK' /\ RetainOK'
    <3>1. CASE todo[t] = {}
      BY <1>10, <3>1, DoneOK DEF NextBackend
    <3>2. CASE todo[t] # {}
      BY <1>10, <3>2 DEF NextBackend, TasksOK, RetainOK, Goto, Location, Connecting
    <3> QED
      BY <3>1, <3>2
  <2>2. RegistryOK' /\ BackendsOK' /\ FixedOK'
    BY <1>10 DEF NextBackend, RegistryOK, BackendsOK, FixedOK
  <2> QED
    BY <2>1, <2>2
<1>11. ASSUME NEW t \in Task, HealthCheck(t) PROVE TypeInv'
  <2>1. TasksOK' /\ RetainOK'
    BY <1>11, GotoOK DEF HealthCheck, Location, Connecting
  <2>2. BackendsOK' /\ FixedOK'
    <3>1. CASE /\ Reachable(target[t])
               /\ renewed' = renewed \ {target[t]} /\ refresh' = refresh \ {target[t]}
               /\ UNCHANGED <<healthy, conn, up, offers, faults>>
      BY <1>11, <3>1 DEF HealthCheck, BackendsOK, FixedOK
    <3>2. CASE Fails(target[t])
      BY <1>11, <3>2, FailsOK DEF HealthCheck, BackendsOK
    <3> QED
      BY <1>11, <3>1, <3>2 DEF HealthCheck
  <2>3. RegistryOK'
    BY <1>11 DEF HealthCheck, RegistryOK
  <2> QED
    BY <2>1, <2>2, <2>3
<1>12. ASSUME NEW t \in Task, StartConnectAll(t) \/ StartHealthChecks(t) \/ StartRefresh(t)
       PROVE  TypeInv'
  <2>1. PICK j \in Jobs, backends \in SUBSET Backend : Loop(t, j, backends)
    BY <1>12 DEF StartConnectAll, StartHealthChecks, StartRefresh, RegistryOK, Loop
  <2>2. TasksOK' /\ RetainOK'
    BY <2>1, ConstantsAssumption DEF Loop, TasksOK, RetainOK, Goto, Location, Kind
  <2>3. index' = index \/ index' = [n \in Name |-> NoBackend]
    BY <1>12 DEF StartConnectAll, StartHealthChecks, StartRefresh
  <2>4. RegistryOK' /\ BackendsOK'
    BY <2>1, <2>3 DEF Loop, RegistryOK, BackendsOK
  <2>5. FixedOK'
    BY <2>1, ConstantsAssumption DEF Loop, FixedOK
  <2> QED
    BY <2>2, <2>4, <2>5
<1>13. ASSUME NEW t \in Task, Unregister(t) PROVE TypeInv'
  <2>1. TasksOK' /\ RetainOK'
    BY <1>13 DEF Unregister, TasksOK, RetainOK, RegistryOK, Goto, Location, Kind
  <2>2. RegistryOK' /\ BackendsOK'
    BY <1>13 DEF Unregister, RegistryOK, BackendsOK
  <2>3. FixedOK'
    BY <1>13, ConstantsAssumption DEF Unregister, FixedOK
  <2> QED
    BY <2>1, <2>2, <2>3
<1>14. ASSUME NEW t \in Task, Retain(t) PROVE TypeInv'
  <2>1. TasksOK' /\ RetainOK'
    BY <1>14, GotoOK DEF Retain, Location
  <2>2. target[t] \in Backend
    BY <1>14 DEF Retain, RetainOK
  <2>3. index' \in [Name -> Backend \union {NoBackend}]
    BY <1>14, <2>2, OwnedOK DEF Retain
  <2>4. RegistryOK' /\ BackendsOK' /\ FixedOK'
    BY <1>14, <2>2, <2>3 DEF Retain, Overlap, RegistryOK, BackendsOK, FixedOK
  <2> QED
    BY <2>1, <2>4
<1>15. ASSUME NEW b \in Backend, GoesDown(b) PROVE TypeInv'
  <2>1. TasksOK' /\ RetainOK' /\ RegistryOK'
    BY <1>15 DEF GoesDown, TasksOK, RetainOK, RegistryOK
  <2>2. BackendsOK'
    BY <1>15 DEF GoesDown, BackendsOK
  <2>3. FixedOK'
    BY <1>15, FaultOK DEF GoesDown, FixedOK
  <2> QED
    BY <2>1, <2>2, <2>3
<1>16. ASSUME NEW b \in Backend, ComesUp(b) PROVE TypeInv'
  <2>1. TasksOK' /\ RetainOK' /\ RegistryOK' /\ FixedOK'
    BY <1>16 DEF ComesUp, TasksOK, RetainOK, RegistryOK, FixedOK
  <2>2. \A s \in Offers[b] : s \subseteq Name
    BY ConstantsAssumption
  <2>3. BackendsOK'
    BY <1>16, <2>2 DEF ComesUp, BackendsOK
  <2> QED
    BY <2>1, <2>3
<1>17. CASE UNCHANGED vars
  BY <1>17 DEF vars, TasksOK, RetainOK, RegistryOK, BackendsOK, FixedOK
<1>18. ASSUME NEW t \in Task, Abandon(t) PROVE TypeInv'
  <2>1. TasksOK' /\ RetainOK'
    BY <1>18, DoneOK DEF Abandon
  <2>2. unlisted' \subseteq Backend
    BY <1>18 DEF Abandon, EndsEarly, RegistryOK, BackendsOK
  <2>3. faults' \in 0 .. MaxFaults
    BY <1>18, FaultOK DEF Abandon
  <2>4. RegistryOK' /\ BackendsOK' /\ FixedOK'
    BY <1>18, <2>2, <2>3 DEF Abandon, RegistryOK, BackendsOK, FixedOK
  <2> QED
    BY <2>1, <2>4
<1> QED
  BY <1>1, <1>2, <1>3, <1>4, <1>5, <1>6, <1>7, <1>8, <1>9, <1>10, <1>11, <1>12, <1>13, <1>14,
     <1>15, <1>16, <1>17, <1>18
  DEF Next, Start, Proceed, Awaits, Computes

(* Every variable of the registry and of its tasks has its type.           *)
THEOREM TypeCorrect == Spec => []TypeOK
<1>1. Spec => []TypeInv
  BY InitTypeInv, NextTypeInv, PTL DEF Spec
<1> QED
  BY <1>1, TypeInvTypeOK, PTL

-----------------------------------------------------------------------------
(* NoToolsWithoutBackend.  A task that connects a backend carries it from  *)
(* the map to the index; whatever removes it meanwhile leaves a trace.     *)

Known == registered \union overlapped \union Removing

\* A task past the lookup of connect_backend works on a backend it found there.
ConnectsKnown == \A t \in Task : pc[t] \in Connecting => target[t] \in Known

ToolsInv == TypeInv /\ NoToolsWithoutBackend /\ ConnectsKnown

\* What every step of a task keeps, but for the two of unregister.
Orderly(t) ==
    /\ pc[t] # "retain"
    /\ \A u \in Task \ {t} : pc'[u] = pc[u] /\ target'[u] = target[u]
    /\ registered' = registered /\ overlapped \subseteq overlapped'
    /\ \A n \in Name :
         \/ index'[n] \in {index[n], NoBackend}
         \/ pc[t] = "index" /\ index'[n] = target[t]
    /\ pc'[t] \in Connecting =>
         /\ target'[t] = target[t]
         /\ pc[t] \in Connecting \/ target[t] \in registered

LEMMA OrderlyTools ==
  ASSUME ToolsInv, NEW t \in Task, Orderly(t)
  PROVE  NoToolsWithoutBackend' /\ ConnectsKnown'
<1> USE DEF ToolsInv, Orderly
<1>1. Removing \subseteq Removing'
  BY DEF Removing
<1>2. Known \subseteq Known'
  BY <1>1 DEF Known
<1>3. NoToolsWithoutBackend'
  <2> SUFFICES ASSUME NEW n \in Name PROVE index'[n] \in Known' \union {NoBackend}
    BY DEF NoToolsWithoutBackend, Known
  <2>1. index[n] \in Known \union {NoBackend}
    BY DEF NoToolsWithoutBackend, Known
  <2>2. pc[t] = "index" => target[t] \in Known
    BY DEF ConnectsKnown, Connecting
  <2> QED
    BY <1>2, <2>1, <2>2
<1>4. ConnectsKnown'
  <2> SUFFICES ASSUME NEW u \in Task, pc'[u] \in Connecting PROVE target'[u] \in Known'
    BY DEF ConnectsKnown
  <2>1. target[u] \in Known
    BY DEF ConnectsKnown, Known
  <2>2. target'[u] = target[u]
    OBVIOUS
  <2> QED
    BY <1>2, <2>1, <2>2
<1> QED
  BY <1>3, <1>4

\* The helpers move one task, and never to the middle of connect_backend.
Moves(t) ==
    /\ pc'[t] \in Location \ Connecting
    /\ \A u \in Task \ {t} : pc'[u] = pc[u] /\ target'[u] = target[u]

LEMMA DoneMoves == ASSUME TasksOK, NEW t \in Task, Done(t) PROVE Moves(t)
  BY DEF TasksOK, Done, Goto, Moves, Location, Connecting

LEMMA GotoMoves ==
  ASSUME TasksOK, NEW t \in Task, NEW where \in Location \ Connecting, Goto(t, where),
         target' = target
  PROVE  Moves(t)
  BY DEF TasksOK, Goto, Moves

LEMMA ReturnMoves ==
  ASSUME TasksOK, NEW t \in Task, NEW ok \in BOOLEAN, Return(t, ok)
  PROVE  Moves(t)
<1>1. CASE Done(t)
  BY <1>1, DoneMoves
<1>2. CASE \E where \in {"route", "call", "next"} : Goto(t, where) /\ UNCHANGED taskVars
  BY <1>2, GotoMoves DEF Location, Connecting
<1> QED
  BY <1>1, <1>2 DEF Return

LEMMA NextTools == ToolsInv /\ [Next]_vars => NoToolsWithoutBackend' /\ ConnectsKnown'
<1> SUFFICES ASSUME ToolsInv, [Next]_vars PROVE NoToolsWithoutBackend' /\ ConnectsKnown'
  OBVIOUS
<1>0. TasksOK /\ RegistryOK
  BY DEF ToolsInv, TypeInv
<1>1. ASSUME NEW t \in Task, Lookup(t) PROVE Orderly(t)
  <2>1. CASE target[t] \in registered
    BY <1>0, <1>1, <2>1 DEF Lookup, Overlap, Goto, TasksOK, RegistryOK, Orderly, Connecting
  <2>2. CASE target[t] \notin registered
    BY <1>0, <1>1, <2>2, ReturnMoves DEF Lookup, Moves, RegistryOK, Orderly
  <2> QED
    BY <2>1, <2>2
<1>2. ASSUME NEW t \in Task, Connect(t) PROVE Orderly(t)
  <2>1. CASE Goto(t, "list") /\ UNCHANGED taskVars
    BY <1>0, <1>2, <2>1 DEF Connect, Goto, TasksOK, RegistryOK, Orderly, Connecting
  <2>2. CASE Return(t, FALSE)
    BY <1>0, <1>2, <2>2, ReturnMoves DEF Connect, Moves, RegistryOK, Orderly
  <2> QED
    BY <1>2, <2>1, <2>2 DEF Connect
<1>3. ASSUME NEW t \in Task, List(t) PROVE Orderly(t)
  <2>1. CASE Goto(t, "index") /\ UNCHANGED target
    BY <1>0, <1>3, <2>1 DEF List, Goto, TasksOK, RegistryOK, Orderly, Connecting
  <2>2. CASE Return(t, FALSE)
    BY <1>0, <1>3, <2>2, ReturnMoves DEF List, Moves, RegistryOK, Orderly
  <2> QED
    BY <1>3, <2>1, <2>2 DEF List
<1>4. ASSUME NEW t \in Task, Index(t) PROVE Orderly(t)
  <2>1. Moves(t) /\ pc[t] = "index" /\ UNCHANGED <<registered, overlapped>>
    BY <1>0, <1>4, ReturnMoves DEF Index
  <2>2. PICK names \in SUBSET Name : index' = Owned(target[t], names)
    BY <1>0, <1>4 DEF Index, TasksOK
  <2>3. \A n \in Name : index'[n] \in {index[n], NoBackend, target[t]}
    BY <2>2 DEF Owned
  <2> QED
    BY <2>1, <2>3 DEF Moves, Orderly
<1>5. ASSUME NEW t \in Task, StartCall(t) PROVE Orderly(t)
  BY <1>0, <1>5 DEF StartCall, Goto, TasksOK, RegistryOK, Orderly, Connecting
<1>6. ASSUME NEW t \in Task, Disconnect(t) PROVE Orderly(t)
  BY <1>0, <1>6, DoneMoves, GotoMoves
  DEF Disconnect, Moves, RegistryOK, Orderly, Location, Connecting
<1>7. ASSUME NEW t \in Task, Route(t) PROVE Orderly(t)
  <2>1. CASE index[name[t]] \notin registered
    BY <1>0, <1>7, <2>1, DoneMoves DEF Route, Moves, RegistryOK, Orderly
  <2>2. CASE index[name[t]] \in registered
    BY <1>0, <1>7, <2>2 DEF Route, Goto, TasksOK, RegistryOK, Orderly, Connecting
  <2> QED
    BY <2>1, <2>2
<1>8. ASSUME NEW t \in Task, Open(t) PROVE Orderly(t)
  BY <1>0, <1>8, DoneMoves, GotoMoves DEF Open, Moves, RegistryOK, Orderly, Location, Connecting
<1>9. ASSUME NEW t \in Task, CallTool(t) PROVE Orderly(t)
  BY <1>0, <1>9, DoneMoves, GotoMoves DEF CallTool, Moves, RegistryOK, Orderly, Location, Connecting
<1>10. ASSUME NEW t \in Task, NextBackend(t) PROVE Orderly(t)
  <2>1. CASE todo[t] = {}
    BY <1>0, <1>10, <2>1, DoneMoves DEF NextBackend, Moves, RegistryOK, Orderly
  <2>2. CASE todo[t] # {}
    BY <1>0, <1>10, <2>2 DEF NextBackend, Goto, TasksOK, RegistryOK, Orderly, Connecting
  <2> QED
    BY <2>1, <2>2
<1>11. ASSUME NEW t \in Task, HealthCheck(t) PROVE Orderly(t)
  BY <1>0, <1>11, GotoMoves
  DEF HealthCheck, Moves, RegistryOK, Orderly, Location, Connecting
<1>12. ASSUME NEW t \in Task, StartConnectAll(t) \/ StartHealthChecks(t) \/ StartRefresh(t)
       PROVE  Orderly(t)
  <2>1. index' = index \/ index' = [n \in Name |-> NoBackend]
    BY <1>12 DEF StartConnectAll, StartHealthChecks, StartRefresh
  <2>2. PICK j \in Jobs, backends \in SUBSET Backend : Loop(t, j, backends)
    BY <1>0, <1>12 DEF StartConnectAll, StartHealthChecks, StartRefresh, RegistryOK, Loop
  <2> QED
    BY <1>0, <2>1, <2>2 DEF Loop, Goto, TasksOK, RegistryOK, Orderly, Connecting
<1>13. ASSUME NEW t \in Task, Unregister(t) PROVE NoToolsWithoutBackend' /\ ConnectsKnown'
  <2>1. PICK b \in registered : /\ registered' = registered \ {b}
                                /\ target' = [target EXCEPT ![t] = b]
    BY <1>13 DEF Unregister
  <2>2. /\ pc[t] = "idle" /\ pc' = [pc EXCEPT ![t] = "retain"]
        /\ UNCHANGED <<index, overlapped>>
    BY <1>13 DEF Unregister, Goto
  <2>3. Removing \subseteq Removing' /\ b \in Removing'
    BY <1>0, <2>1, <2>2 DEF Removing, TasksOK
  <2>4. Known \subseteq Known'
    BY <2>1, <2>2, <2>3 DEF Known
  <2>5. NoToolsWithoutBackend'
    BY <2>2, <2>4 DEF ToolsInv, NoToolsWithoutBackend, Known
  <2>6. ConnectsKnown'
    BY <1>0, <2>1, <2>2, <2>4 DEF ToolsInv, ConnectsKnown, TasksOK, Connecting
  <2> QED
    BY <2>5, <2>6
<1>14. ASSUME NEW t \in Task, Retain(t) PROVE NoToolsWithoutBackend' /\ ConnectsKnown'
  <2> DEFINE b == target[t]
  <2>1. /\ pc[t] = "retain" /\ pc' = [pc EXCEPT ![t] = "disconnect"]
        /\ index' = Owned(b, {}) /\ UNCHANGED <<registered, target>>
        /\ overlapped \subseteq overlapped'
        /\ (\E u \in Task : target[u] = b /\ pc[u] \in Connecting) => b \in overlapped'
    BY <1>14 DEF Retain, Overlap, Goto
  <2>2. Known \ {b} \subseteq Known'
    <3>1. Removing \ {b} \subseteq Removing'
      BY <1>0, <2>1 DEF Removing, TasksOK
    <3> QED
      BY <2>1, <3>1 DEF Known
  <2>3. \A n \in Name : index'[n] = NoBackend \/ (index'[n] = index[n] /\ index[n] # b)
    BY <2>1 DEF Owned
  <2>4. NoToolsWithoutBackend'
    <3>1. \A n \in Name : index[n] \in Known \union {NoBackend}
      BY DEF ToolsInv, NoToolsWithoutBackend, Known
    <3>2. \A n \in Name : index'[n] \in Known' \union {NoBackend}
      BY <2>2, <2>3, <3>1
    <3> QED
      BY <3>2 DEF NoToolsWithoutBackend, Known
  <2>5. ConnectsKnown'
    <3> SUFFICES ASSUME NEW u \in Task, pc'[u] \in Connecting PROVE target[u] \in Known'
      BY <2>1 DEF ConnectsKnown
    <3>1. pc[u] \in Connecting /\ target[u] \in Known
      BY <1>0, <2>1 DEF ToolsInv, ConnectsKnown, TasksOK, Connecting
    <3>2. CASE target[u] = b
      BY <2>1, <3>1, <3>2 DEF Known, Connecting, Connecting
    <3>3. CASE target[u] # b
      BY <2>2, <3>1, <3>3
    <3> QED
      BY <3>2, <3>3
  <2> QED
    BY <2>4, <2>5
<1>15. ASSUME NEW b \in Backend, GoesDown(b) \/ ComesUp(b)
       PROVE  NoToolsWithoutBackend' /\ ConnectsKnown'
  BY <1>15 DEF GoesDown, ComesUp, ToolsInv, NoToolsWithoutBackend, ConnectsKnown, Known, Removing
<1>16. CASE UNCHANGED vars
  BY <1>16 DEF vars, ToolsInv, NoToolsWithoutBackend, ConnectsKnown, Known, Removing
<1>17. ASSUME NEW t \in Task, Orderly(t) PROVE NoToolsWithoutBackend' /\ ConnectsKnown'
  BY <1>17, OrderlyTools
<1>18. ASSUME NEW t \in Task, Abandon(t) PROVE Orderly(t)
  BY <1>0, <1>18, DoneMoves DEF Abandon, Moves, RegistryOK, Orderly
<1> QED
  BY <1>1, <1>2, <1>3, <1>4, <1>5, <1>6, <1>7, <1>8, <1>9, <1>10, <1>11, <1>12, <1>13, <1>14,
     <1>15, <1>16, <1>17, <1>18
  DEF Next, Start, Proceed, Awaits, Computes

(* A tool of a removed backend is only indexed if a connect_backend of that *)
(* backend was under way while unregister went through the index.          *)
THEOREM RemovedLeavesNoTools == Spec => []NoToolsWithoutBackend
<1>1. Init => ToolsInv
  BY InitTypeInv DEF Init, ToolsInv, NoToolsWithoutBackend, ConnectsKnown, Connecting
<1>2. ToolsInv /\ [Next]_vars => ToolsInv'
  BY NextTypeInv, NextTools DEF ToolsInv
<1>3. ToolsInv => NoToolsWithoutBackend
  BY DEF ToolsInv
<1> QED
  BY <1>1, <1>2, <1>3, PTL DEF Spec

-----------------------------------------------------------------------------
-----------------------------------------------------------------------------
(* A job takes a bounded number of steps, and the lock of the index is      *)
(* given back.                                                              *)

\* Steps left of a task's visit to a backend, at most: a call may reconnect the
\* backend of the namespace, and connect the one it is routed to after that.
VisitLeft(t) ==
    CASE pc[t] = "disconnect" -> IF job[t] = "call" THEN 14 ELSE 1
      [] pc[t] = "lookup" -> IF job[t] = "call" THEN 13 ELSE 8
      [] pc[t] = "connect" -> IF job[t] = "call" THEN 12 ELSE 7
      [] pc[t] = "list" -> IF job[t] = "call" THEN 11 ELSE 6
      [] pc[t] = "index" -> IF job[t] = "call" THEN 10 ELSE 5
      [] pc[t] \in {"route", "check"} -> 9
      [] pc[t] = "open" -> 4
      [] pc[t] = "call" -> 3
      [] pc[t] \in {"next", "retain"} -> 2
      [] OTHER -> 0

\* Every step of a task takes a backend from those it has still to visit, or
\* brings it nearer to the end of the visit; and nobody else's adds to either.
VisitsShrink ==
    [][\A t \in Task :
          /\ Proceed(t) => /\ todo'[t] \subseteq todo[t]
                           /\ todo'[t] = todo[t] => VisitLeft(t)' < VisitLeft(t)
          /\ pc[t] # "idle" => /\ todo'[t] \subseteq todo[t]
                               /\ todo'[t] = todo[t] => VisitLeft(t)' <= VisitLeft(t)]_vars

\* Whoever keeps others from the index is disconnecting the backend it has
\* unregistered, and waits for no lock meanwhile.
IndexComesFree ==
    locked # NoTask => pc[locked] = "disconnect" /\ job[locked] = "unregister"

\* Two places are those of one job each.
JobsFit ==
    \A t \in Task : /\ pc[t] = "check" => job[t] = "health"
                    /\ pc[t] = "retain" => job[t] = "unregister"

IndexInv == JobsFit /\ IndexComesFree

\* What a step of t leaves of the other tasks.
Alone(t) ==
    \A u \in Task \ {t} : /\ pc'[u] = pc[u] /\ job'[u] = job[u] /\ todo'[u] = todo[u]
                          /\ target'[u] = target[u] /\ listing'[u] = listing[u]

\* A step of t that neither brings it to one of the two places nor takes a lock.
LEMMA PlainStep ==
  ASSUME TypeInv, IndexInv, NEW t \in Task, Alone(t), pc'[t] \notin {"check", "retain"},
         locked' = locked /\ locked # t
  PROVE  IndexInv'
  BY DEF IndexInv, JobsFit, IndexComesFree, Alone, TypeInv, RegistryOK

LEMMA DoneAlone ==
  ASSUME TypeInv, NEW t \in Task, Done(t)
  PROVE  Alone(t) /\ pc'[t] = "idle"
  BY DEF TypeInv, TasksOK, Done, Goto, Alone

LEMMA GotoAlone ==
  ASSUME TypeInv, NEW t \in Task, NEW where, Goto(t, where), UNCHANGED taskVars
  PROVE  Alone(t) /\ pc'[t] = where /\ UNCHANGED <<job, todo>>
  BY DEF TypeInv, TasksOK, Goto, Alone

LEMMA ReturnAlone ==
  ASSUME TypeInv, NEW t \in Task, NEW ok \in BOOLEAN, Return(t, ok)
  PROVE  Alone(t) /\ pc'[t] \notin {"check", "retain"}
  BY DoneAlone, GotoAlone DEF Return

\* The places of tasks after a step of t, and what the step does to the lock.
LEMMA StepAlone ==
  ASSUME TypeInv, NEW t \in Task, Proceed(t) \/ Start(t) \/ Abandon(t)
  PROVE  Alone(t)
<1>0. TasksOK
  BY DEF TypeInv
<1>1. CASE Lookup(t) \/ Connect(t) \/ Index(t)
  BY <1>1, GotoAlone, ReturnAlone DEF Lookup, Connect, Index
<1>2. CASE List(t)
  <2>1. CASE /\ Goto(t, "index") /\ UNCHANGED <<job, todo, target>>
             /\ listing' = [listing EXCEPT ![t] = offers[target[t]]]
    BY <1>0, <2>1 DEF TasksOK, Goto, Alone
  <2>2. CASE Return(t, FALSE)
    BY <2>2, ReturnAlone
  <2> QED
    BY <1>2, <2>1, <2>2 DEF List
<1>3. CASE Disconnect(t) \/ Open(t) \/ CallTool(t) \/ HealthCheck(t) \/ Retain(t)
  BY <1>3, GotoAlone, DoneAlone DEF Disconnect, Open, CallTool, HealthCheck, Retain
<1>4. CASE Route(t)
  <2>1. CASE Done(t)
    BY <2>1, DoneAlone
  <2>2. CASE ~Done(t)
    BY <1>0, <1>4, <2>2 DEF Route, TasksOK, Goto, Alone
  <2> QED
    BY <2>1, <2>2
<1>5. CASE NextBackend(t)
  <2>1. CASE Done(t)
    BY <2>1, DoneAlone
  <2>2. CASE ~Done(t)
    BY <1>0, <1>5, <2>2 DEF NextBackend, TasksOK, Goto, Alone
  <2> QED
    BY <2>1, <2>2
<1>6. CASE Start(t)
  <2>1. CASE StartCall(t)
    BY <1>0, <2>1 DEF StartCall, TasksOK, Goto, Alone
  <2>2. CASE StartConnectAll(t) \/ StartHealthChecks(t) \/ StartRefresh(t)
    <3>1. ASSUME NEW j, NEW backends, Loop(t, j, backends) PROVE Alone(t)
      BY <1>0, <3>1 DEF Loop, TasksOK, Goto, Alone
    <3> QED
      BY <2>2, <3>1 DEF StartConnectAll, StartHealthChecks, StartRefresh
  <2>3. CASE Unregister(t)
    BY <1>0, <2>3 DEF Unregister, TasksOK, Goto, Alone
  <2> QED
    BY <1>6, <2>1, <2>2, <2>3 DEF Start
<1>7. CASE Abandon(t)
  BY <1>7, DoneAlone DEF Abandon
<1> QED
  BY <1>1, <1>2, <1>3, <1>4, <1>5, <1>6, <1>7 DEF Proceed, Awaits, Computes

LEMMA NextIndex == TypeInv /\ IndexInv /\ [Next]_vars => IndexInv'
<1> SUFFICES ASSUME TypeInv, IndexInv, [Next]_vars PROVE IndexInv'
  OBVIOUS
<1>0. TasksOK /\ RegistryOK /\ NoTask \notin Task
  BY ConstantsAssumption DEF TypeInv
<1>1. ASSUME NEW t \in Task, Proceed(t) \/ Start(t), pc'[t] \notin {"check", "retain"}, locked' = locked,
             pc[t] # "disconnect"
      PROVE  IndexInv'
  <2>1. locked # t
    BY <1>0, <1>1 DEF IndexInv, IndexComesFree
  <2> QED
    BY <1>1, <2>1, StepAlone, PlainStep
<1>2. ASSUME NEW t \in Task, Lookup(t) \/ Connect(t) \/ Index(t) PROVE IndexInv'
  <2>1. CASE Lookup(t)
    <3>1. pc[t] = "lookup" /\ locked' = locked
      BY <2>1 DEF Lookup
    <3>2. (Goto(t, "connect") /\ UNCHANGED taskVars) \/ Return(t, FALSE)
      BY <2>1 DEF Lookup
    <3>3. pc'[t] \notin {"check", "retain"}
      <4>1. CASE Goto(t, "connect")
        BY <1>0, <4>1 DEF Goto, TasksOK
      <4>2. CASE Return(t, FALSE)
        BY <4>2, ReturnAlone
      <4> QED
        BY <3>2, <4>1, <4>2
    <3> QED
      BY <1>1, <2>1, <3>1, <3>3 DEF Proceed, Awaits, Computes
  <2>2. CASE Connect(t)
    <3>1. pc[t] = "connect" /\ locked' = locked
      BY <2>2 DEF Connect
    <3>2. (Goto(t, "list") /\ UNCHANGED taskVars) \/ Return(t, FALSE)
      BY <2>2 DEF Connect
    <3>3. pc'[t] \notin {"check", "retain"}
      <4>1. CASE Goto(t, "list")
        BY <1>0, <4>1 DEF Goto, TasksOK
      <4>2. CASE Return(t, FALSE)
        BY <4>2, ReturnAlone
      <4> QED
        BY <3>2, <4>1, <4>2
    <3> QED
      BY <1>1, <2>2, <3>1, <3>3 DEF Proceed, Awaits, Computes
  <2>3. CASE Index(t)
    <3>1. pc'[t] \notin {"check", "retain"} /\ pc[t] = "index" /\ locked' = locked
      BY <2>3, ReturnAlone DEF Index
    <3> QED
      BY <1>1, <2>3, <3>1 DEF Proceed, Awaits, Computes
  <2> QED
    BY <1>2, <2>1, <2>2, <2>3
<1>3. ASSUME NEW t \in Task, List(t) PROVE IndexInv'
  <2>1. CASE Goto(t, "index")
    BY <1>0, <1>1, <1>3, <2>1 DEF List, Proceed, Awaits, Computes, Goto, TasksOK
  <2>2. CASE Return(t, FALSE)
    BY <1>1, <1>3, <2>2, ReturnAlone DEF List, Proceed, Awaits, Computes
  <2> QED
    BY <1>3, <2>1, <2>2 DEF List
<1>4. ASSUME NEW t \in Task, Disconnect(t) PROVE IndexInv'
  <2>1. Alone(t) /\ pc'[t] \notin {"check", "retain"}
    BY <1>4, StepAlone, GotoAlone, DoneAlone DEF Disconnect, Proceed, Awaits, Computes
  <2>2. locked' # t
    BY <1>0, <1>4 DEF Disconnect
  <2>3. locked' # NoTask => locked' = locked
    BY <1>4 DEF Disconnect
  <2> QED
    BY <1>0, <2>1, <2>2, <2>3 DEF IndexInv, JobsFit, IndexComesFree, Alone, RegistryOK
<1>5. ASSUME NEW t \in Task, Route(t) PROVE IndexInv'
  <2>1. pc'[t] \in {"idle", "lookup", "open", "call"}
    <3>1. CASE Done(t)
      BY <3>1, DoneAlone
    <3>2. CASE ~Done(t)
      BY <1>0, <1>5, <3>2 DEF Route, Goto, TasksOK
    <3> QED
      BY <3>1, <3>2
  <2> QED
    BY <1>1, <1>5, <2>1 DEF Route, Proceed, Awaits, Computes
<1>6. ASSUME NEW t \in Task, Open(t) \/ CallTool(t) PROVE IndexInv'
  BY <1>1, <1>6, GotoAlone, DoneAlone DEF Open, CallTool, Proceed, Awaits, Computes
<1>7. ASSUME NEW t \in Task, NextBackend(t) PROVE IndexInv'
  <2>1. CASE Done(t)
    BY <1>1, <1>7, <2>1, DoneAlone DEF NextBackend, Proceed, Awaits, Computes
  <2>2. CASE ~Done(t)
    <3>1. pc'[t] \in {"check", "lookup"} /\ (pc'[t] = "check" => job[t] = "health") /\ job' = job
      BY <1>0, <1>7, <2>2 DEF NextBackend, Goto, TasksOK
    <3>2. Alone(t) /\ locked' = locked /\ locked # t
      BY <1>0, <1>7, StepAlone DEF NextBackend, Proceed, Computes, IndexInv, IndexComesFree
    <3> QED
      BY <1>0, <3>1, <3>2 DEF IndexInv, JobsFit, IndexComesFree, Alone, RegistryOK
  <2> QED
    BY <2>1, <2>2
<1>8. ASSUME NEW t \in Task, HealthCheck(t) PROVE IndexInv'
  BY <1>1, <1>8, GotoAlone DEF HealthCheck, Proceed, Awaits, Computes
<1>9. ASSUME NEW t \in Task, Retain(t) PROVE IndexInv'
  <2>1. Alone(t) /\ pc'[t] = "disconnect" /\ job' = job /\ job[t] = "unregister" /\ locked' = t
    BY <1>9, GotoAlone DEF Retain, IndexInv, JobsFit
  <2> QED
    BY <2>1 DEF IndexInv, JobsFit, IndexComesFree, Alone
<1>10. ASSUME NEW t \in Task, Start(t) PROVE IndexInv'
  <2>1. pc[t] = "idle" /\ locked' = locked
    BY <1>10 DEF Start, StartCall, StartConnectAll, StartHealthChecks, StartRefresh, Loop, Unregister
  <2>2. CASE StartCall(t)
    BY <1>0, <1>1, <1>10, <2>1, <2>2 DEF StartCall, Goto, TasksOK
  <2>3. CASE StartConnectAll(t) \/ StartHealthChecks(t) \/ StartRefresh(t)
    <3>1. Goto(t, "next")
      BY <2>3 DEF StartConnectAll, StartHealthChecks, StartRefresh, Loop
    <3> QED
      BY <1>0, <1>1, <1>10, <2>1, <3>1 DEF Goto, TasksOK
  <2>4. CASE Unregister(t)
    <3>1. pc'[t] = "retain" /\ job'[t] = "unregister"
      BY <1>0, <2>4 DEF Unregister, Goto, TasksOK
    <3>2. Alone(t) /\ locked # t
      BY <1>0, <1>10, <2>1, StepAlone DEF IndexInv, IndexComesFree
    <3> QED
      BY <1>0, <2>1, <3>1, <3>2 DEF IndexInv, JobsFit, IndexComesFree, Alone, RegistryOK
  <2> QED
    BY <1>10, <2>2, <2>3, <2>4 DEF Start
<1>11. CASE UNCHANGED <<pc, job, locked>>
  BY <1>11 DEF IndexInv, JobsFit, IndexComesFree
<1>12. ASSUME NEW b \in Backend, GoesDown(b) \/ ComesUp(b) PROVE UNCHANGED <<pc, job, locked>>
  BY <1>12 DEF GoesDown, ComesUp
<1>13. ASSUME NEW t \in Task, Abandon(t) PROVE IndexInv'
  <2>1. /\ Alone(t) /\ pc'[t] = "idle" /\ locked' = locked
        /\ pc[t] = "disconnect" => job[t] # "unregister"
    BY <1>13, StepAlone, DoneAlone DEF Abandon
  <2>2. locked # t
    BY <1>0, <1>13, <2>1 DEF Abandon, IndexInv, IndexComesFree
  <2> QED
    BY <2>1, <2>2, PlainStep
<1> QED
  BY <1>2, <1>3, <1>4, <1>5, <1>6, <1>7, <1>8, <1>9, <1>10, <1>11, <1>12, <1>13
  DEF Next, Proceed, Awaits, Computes, vars

LEMMA InitIndex == Init => IndexInv
  BY DEF Init, IndexInv, JobsFit, IndexComesFree

(* The write lock of the index, which unregister keeps across an await, is  *)
(* held by nobody else and by nobody who waits for it: every caller, every  *)
(* connect and every refresh gets through as soon as one disconnect ends.   *)
THEOREM IndexIsGivenBack == Spec => []IndexComesFree
<1>1. IndexInv => IndexComesFree
  BY DEF IndexInv
<1> QED
  BY <1>1, InitTypeInv, NextTypeInv, InitIndex, NextIndex, PTL DEF Spec

LEMMA VisitLeftType == \A t \in Task : VisitLeft(t) \in 0 .. 14 /\ VisitLeft(t)' \in 0 .. 14
  BY DEF VisitLeft

Shrinks(t) ==
    /\ todo'[t] \subseteq todo[t]
    /\ todo'[t] = todo[t] => VisitLeft(t)' < VisitLeft(t)

LEMMA DoneVisit ==
  ASSUME TasksOK, NEW t \in Task, Done(t)
  PROVE  todo'[t] \subseteq todo[t] /\ VisitLeft(t)' = 0
  BY DEF TasksOK, Done, Goto, VisitLeft

LEMMA ReturnVisit ==
  ASSUME TasksOK, NEW t \in Task, NEW ok \in BOOLEAN, Return(t, ok)
  PROVE  /\ todo'[t] \subseteq todo[t]
         /\ job[t] = "call" => VisitLeft(t)' = 9
         /\ job[t] # "call" => VisitLeft(t)' \in {0, 2, 3}
<1>1. CASE Done(t) /\ job[t] # "call"
  BY <1>1, DoneVisit
<1>2. CASE job[t] = "call" /\ Goto(t, "route") /\ UNCHANGED taskVars
  BY <1>2 DEF TasksOK, Goto, VisitLeft
<1>3. ASSUME job[t] # "call", NEW where \in {"call", "next"}, Goto(t, where), UNCHANGED taskVars
      PROVE  todo'[t] \subseteq todo[t] /\ VisitLeft(t)' \in {2, 3}
  BY <1>3 DEF TasksOK, Goto, VisitLeft
<1> QED
  BY <1>1, <1>2, <1>3 DEF Return

LEMMA StepVisit ==
  ASSUME TypeInv, JobsFit, NEW t \in Task, Proceed(t)
  PROVE  Shrinks(t)
<1> USE DEF TypeInv, Shrinks
<1>0. /\ pc \in [Task -> Location] /\ job \in [Task -> Kind] /\ todo \in [Task -> SUBSET Backend]
  BY DEF TasksOK
<1>1. CASE Lookup(t)
  <2>1. VisitLeft(t) = IF job[t] = "call" THEN 13 ELSE 8
    BY <1>1 DEF Lookup, VisitLeft
  <2>2. CASE Goto(t, "connect") /\ UNCHANGED taskVars
    <3>1. VisitLeft(t)' = IF job[t] = "call" THEN 12 ELSE 7
      BY <1>0, <2>2 DEF Goto, VisitLeft
    <3> QED
      BY <2>1, <2>2, <3>1
  <2>3. CASE Return(t, FALSE)
    <3>1. /\ todo'[t] \subseteq todo[t]
          /\ job[t] = "call" => VisitLeft(t)' = 9
          /\ job[t] # "call" => VisitLeft(t)' \in {0, 2, 3}
      BY <2>3, ReturnVisit
    <3> QED
      BY <2>1, <3>1
  <2> QED
    BY <1>1, <2>2, <2>3 DEF Lookup
<1>2. CASE Connect(t)
  <2>1. VisitLeft(t) = IF job[t] = "call" THEN 12 ELSE 7
    BY <1>2 DEF Connect, VisitLeft
  <2>2. CASE Goto(t, "list") /\ UNCHANGED taskVars
    <3>1. VisitLeft(t)' = IF job[t] = "call" THEN 11 ELSE 6
      BY <1>0, <2>2 DEF Goto, VisitLeft
    <3> QED
      BY <2>1, <2>2, <3>1
  <2>3. CASE Return(t, FALSE)
    <3>1. /\ todo'[t] \subseteq todo[t]
          /\ job[t] = "call" => VisitLeft(t)' = 9
          /\ job[t] # "call" => VisitLeft(t)' \in {0, 2, 3}
      BY <2>3, ReturnVisit
    <3> QED
      BY <2>1, <3>1
  <2> QED
    BY <1>2, <2>2, <2>3 DEF Connect
<1>3. CASE List(t)
  <2>1. VisitLeft(t) = IF job[t] = "call" THEN 11 ELSE 6
    BY <1>3 DEF List, VisitLeft
  <2>2. CASE Goto(t, "index") /\ UNCHANGED <<job, todo>>
    <3>1. VisitLeft(t)' = IF job[t] = "call" THEN 10 ELSE 5
      BY <1>0, <2>2 DEF Goto, VisitLeft
    <3> QED
      BY <2>1, <2>2, <3>1
  <2>3. CASE Return(t, FALSE)
    <3>1. /\ todo'[t] \subseteq todo[t]
          /\ job[t] = "call" => VisitLeft(t)' = 9
          /\ job[t] # "call" => VisitLeft(t)' \in {0, 2, 3}
      BY <2>3, ReturnVisit
    <3> QED
      BY <2>1, <3>1
  <2> QED
    BY <1>3, <2>2, <2>3 DEF List
<1>4. CASE Index(t)
  <2>1. VisitLeft(t) = IF job[t] = "call" THEN 10 ELSE 5
    BY <1>4 DEF Index, VisitLeft
  <2>2. Return(t, TRUE) \/ Return(t, FALSE)
    BY <1>4 DEF Index
  <2>3. /\ todo'[t] \subseteq todo[t]
        /\ job[t] = "call" => VisitLeft(t)' = 9
        /\ job[t] # "call" => VisitLeft(t)' \in {0, 2, 3}
    BY <2>2, ReturnVisit
  <2> QED
    BY <2>1, <2>3
<1>5. CASE Disconnect(t)
  <2>1. VisitLeft(t) = IF job[t] = "call" THEN 14 ELSE 1
    BY <1>5 DEF Disconnect, VisitLeft
  <2>2. CASE job[t] = "call" /\ Goto(t, "lookup") /\ UNCHANGED taskVars
    <3>1. VisitLeft(t)' = 13
      BY <1>0, <2>2 DEF Goto, VisitLeft
    <3> QED
      BY <2>1, <2>2, <3>1
  <2>3. CASE Done(t)
    BY <2>1, <2>3, DoneVisit
  <2> QED
    BY <1>5, <2>2, <2>3 DEF Disconnect
<1>6. CASE Route(t)
  <2>1. VisitLeft(t) = 9
    BY <1>6 DEF Route, VisitLeft
  <2>2. CASE Done(t)
    BY <2>1, <2>2, DoneVisit
  <2>3. CASE ~Done(t)
    <3>1. /\ \/ pc'[t] = "lookup" /\ job'[t] = "lazy"
             \/ pc'[t] \in {"open", "call"}
          /\ UNCHANGED todo
      BY <1>0, <1>6, <2>3 DEF Route, Goto
    <3>2. VisitLeft(t)' \in {3, 4, 8}
      BY <3>1 DEF VisitLeft
    <3> QED
      BY <2>1, <3>1, <3>2
  <2> QED
    BY <2>2, <2>3
<1>7. CASE Open(t)
  <2>1. VisitLeft(t) = 4
    BY <1>7 DEF Open, VisitLeft
  <2>2. CASE Done(t)
    BY <2>1, <2>2, DoneVisit
  <2>3. CASE Goto(t, "call") /\ UNCHANGED taskVars
    <3>1. VisitLeft(t)' = 3
      BY <1>0, <2>3 DEF Goto, VisitLeft
    <3> QED
      BY <2>1, <2>3, <3>1
  <2> QED
    BY <1>7, <2>2, <2>3 DEF Open
<1>8. CASE CallTool(t)
  <2>1. VisitLeft(t) = 3
    BY <1>8 DEF CallTool, VisitLeft
  <2>2. CASE Done(t)
    BY <2>1, <2>2, DoneVisit
  <2>3. CASE job[t] = "per_call" /\ Goto(t, "disconnect") /\ UNCHANGED taskVars
    <3>1. VisitLeft(t)' = 1
      BY <1>0, <2>3 DEF Goto, VisitLeft
    <3> QED
      BY <2>1, <2>3, <3>1
  <2> QED
    BY <1>8, <2>2, <2>3 DEF CallTool
<1>9. CASE NextBackend(t)
  <2>1. VisitLeft(t) = 2
    BY <1>9 DEF NextBackend, VisitLeft
  <2>2. CASE Done(t)
    BY <2>1, <2>2, DoneVisit
  <2>3. CASE \E b \in todo[t] : todo' = [todo EXCEPT ![t] = @ \ {b}]
    BY <1>0, <2>3
  <2> QED
    BY <1>9, <2>2, <2>3 DEF NextBackend
<1>10. CASE HealthCheck(t)
  <2>1. VisitLeft(t) = 9
    BY <1>10 DEF HealthCheck, VisitLeft
  <2>2. UNCHANGED taskVars /\ (Goto(t, "lookup") \/ Goto(t, "next"))
    BY <1>10 DEF HealthCheck
  <2>3. job[t] # "call"
    <3>1. pc[t] = "check"
      BY <1>10 DEF HealthCheck
    <3> QED
      BY <3>1 DEF JobsFit
  <2>4. CASE Goto(t, "next")
    <3>1. VisitLeft(t)' = 2
      BY <1>0, <2>4 DEF Goto, VisitLeft
    <3> QED
      BY <2>1, <2>2, <3>1
  <2>5. CASE Goto(t, "lookup")
    <3>1. VisitLeft(t)' = 8
      BY <1>0, <2>2, <2>3, <2>5 DEF Goto, VisitLeft
    <3> QED
      BY <2>1, <2>2, <3>1
  <2> QED
    BY <2>2, <2>4, <2>5
<1>11. CASE Retain(t)
  <2>1. VisitLeft(t) = 2
    BY <1>11 DEF Retain, VisitLeft
  <2>2. Goto(t, "disconnect") /\ UNCHANGED taskVars
    BY <1>11 DEF Retain
  <2>3. job[t] # "call"
    BY <1>11 DEF Retain, JobsFit
  <2>4. VisitLeft(t)' = 1
    BY <1>0, <2>2, <2>3 DEF Goto, VisitLeft
  <2> QED
    BY <2>1, <2>2, <2>4
<1> QED
  BY <1>1, <1>2, <1>3, <1>4, <1>5, <1>6, <1>7, <1>8, <1>9, <1>10, <1>11 DEF Proceed, Awaits, Computes

(* Whatever fails, goes down or is unregistered beside it, a task visits a  *)
(* backend of its list once, a visit is over after fourteen steps (the most  *)
(* is a call that reconnects the backend first), and no job makes another's  *)
(* longer.                                                                   *)
THEOREM JobsAreBounded == Spec => VisitsShrink
<1>1. TypeInv /\ IndexInv /\ [Next]_vars =>
        [\A t \in Task :
            /\ Proceed(t) => /\ todo'[t] \subseteq todo[t]
                             /\ todo'[t] = todo[t] => VisitLeft(t)' < VisitLeft(t)
            /\ pc[t] # "idle" => /\ todo'[t] \subseteq todo[t]
                                 /\ todo'[t] = todo[t] => VisitLeft(t)' <= VisitLeft(t)]_vars
  <2> SUFFICES ASSUME TypeInv, IndexInv, Next, NEW t \in Task
               PROVE  /\ Proceed(t) => Shrinks(t)
                      /\ pc[t] # "idle" => /\ todo'[t] \subseteq todo[t]
                                           /\ todo'[t] = todo[t] => VisitLeft(t)' <= VisitLeft(t)
    BY DEF Shrinks
  <2>1. Proceed(t) => Shrinks(t)
    BY StepVisit DEF IndexInv
  <2>2. ASSUME UNCHANGED <<pc, job, todo>> \/ \E u \in Task \ {t} : Alone(u)
        PROVE  todo'[t] = todo[t] /\ VisitLeft(t)' = VisitLeft(t)
    BY <2>2 DEF Alone, VisitLeft
  <2>3. CASE Start(t)
    BY <2>1, <2>3 DEF Start, StartCall, StartConnectAll, StartHealthChecks, StartRefresh, Loop, Unregister
  <2>4. CASE Proceed(t)
    BY <2>1, <2>4, VisitLeftType DEF Shrinks
  <2>5. CASE \E u \in Task \ {t} : Proceed(u) \/ Start(u) \/ Abandon(u)
    <3>1. todo'[t] = todo[t] /\ VisitLeft(t)' = VisitLeft(t)
      BY <2>2, <2>5, StepAlone
    <3> QED
      BY <2>1, <3>1, VisitLeftType
  <2>7. CASE Abandon(t)
    <3>1. Done(t)
      BY <2>7 DEF Abandon
    <3>2. todo'[t] \subseteq todo[t] /\ VisitLeft(t)' = 0
      BY <3>1, DoneVisit DEF TypeInv
    <3> QED
      BY <2>1, <3>2, VisitLeftType
  <2>6. CASE \E b \in Backend : GoesDown(b) \/ ComesUp(b)
    <3>1. UNCHANGED <<pc, job, todo>>
      BY <2>6 DEF GoesDown, ComesUp
    <3>2. todo'[t] = todo[t] /\ VisitLeft(t)' = VisitLeft(t)
      BY <2>2, <3>1
    <3> QED
      BY <2>1, <3>2, VisitLeftType
  <2> QED
    BY <2>3, <2>4, <2>5, <2>6, <2>7 DEF Next
<1> QED
  BY <1>1, InitTypeInv, NextTypeInv, InitIndex, NextIndex, PTL DEF Spec, VisitsShrink

-----------------------------------------------------------------------------
(* StaleToolsAreNoticed.                                                   *)

\* A per-call connect is of a per-call backend; a refresh is in its loop or in
\* connect_backend; a removed handle does not come back.
PlaceFits(t) ==
    /\ pc[t] = "open" => mode[target[t]] = "per_call"
    /\ job[t] = "refresh" => pc[t] \in Connecting \union {"next", "lookup"}
    /\ pc[t] = "retain" => target[t] \notin registered

PlacesFit == \A t \in Task : PlaceFits(t)

\* Two tasks that connect a backend at a time leave a trace.
OverlapsSeen ==
    \A t, u \in Task :
        (t # u /\ target[t] = target[u] /\ pc[t] \in Connecting /\ pc[u] \in Connecting)
            => target[t] \in overlapped

\* What a task has listed is what the backend offers, or something is under way.
ListingFits(t) ==
    LET b == target[t] IN
    (pc[t] = "index" /\ Watched(b) /\ Reachable(b) /\ b \notin overlapped)
        => \/ listing[t] = offers[b]
           \/ b \in renewed \union refresh
           \/ \E u \in Task \ {t} : pc[u] = "lookup" /\ target[u] = b

ListingsFit == \A t \in Task : ListingFits(t)

\* StaleToolsAreNoticed, of one backend.
Noticed(b) ==
    (b \in healthy /\ Watched(b) /\ Reachable(b) /\ Entries(b) # offers[b])
        => \/ b \in renewed \union refresh \union overlapped \union unlisted
           \/ ToBeListed(b)

NoticeInv ==
    TypeInv /\ PlacesFit /\ OverlapsSeen /\ ListingsFit /\ \A b \in Backend : Noticed(b)

\* What every step of a task does to the things these are about.
Effect(t) ==
    /\ Alone(t)
    /\ registered' \subseteq registered /\ UNCHANGED <<mode, offers, up>>
    /\ overlapped \subseteq overlapped'
    /\ pc[t] = "lookup" =>
         \/ target[t] \notin registered /\ pc'[t] \notin Connecting
         \/ /\ pc'[t] = "connect" /\ target'[t] = target[t]
            /\ \A u \in Task \ {t} :
                 (target[u] = target[t] /\ pc[u] \in Connecting) => target[t] \in overlapped'
    /\ pc'[t] \in Connecting =>
         /\ target'[t] = target[t]
         /\ pc[t] \in Connecting \/ (pc[t] = "lookup" /\ pc'[t] = "connect")
    /\ pc'[t] = "index" => listing'[t] = offers[target[t]]
    /\ \A b \in Backend :
         /\ b \in conn' => b \in conn \/ (target[t] = b /\ pc[t] \in {"connect", "open"})
         /\ (b \in renewed \union refresh /\ b \in conn') =>
              b \in renewed' \union refresh' \/ (pc'[t] = "lookup" /\ target'[t] = b)

\* ... and to a backend's entries, as far as they may be stale.
Leaves(t, b) ==
    \/ b \notin healthy' \/ b \notin registered' \/ ~Reachable(b)' \/ b \in unlisted'
    \/ ToBeListed(b)'
    \/ pc[t] = "index" /\ target[t] = b /\ Entries(b)' = listing[t]
    \/ /\ b \in healthy /\ b \notin unlisted /\ Entries(b)' = Entries(b)
       /\ ~(target[t] = b /\ pc[t] \in Connecting \union {"lookup"})
       /\ ~(b \in todo[t] /\ job[t] = "refresh")

LEMMA OverlapsKept ==
  ASSUME NoticeInv, NEW t \in Task, Effect(t)
  PROVE  OverlapsSeen'
<1> SUFFICES ASSUME NEW u \in Task, NEW w \in Task, u # w, target'[u] = target'[w],
                    pc'[u] \in Connecting, pc'[w] \in Connecting
             PROVE  target'[u] \in overlapped'
  BY DEF OverlapsSeen
<1> USE DEF Effect, Alone
<1>1. target'[u] = target[u] /\ target'[w] = target[w]
  OBVIOUS
<1>2. CASE pc[u] \in Connecting /\ pc[w] \in Connecting
  BY <1>1, <1>2 DEF NoticeInv, OverlapsSeen
<1>3. CASE u = t /\ pc[t] = "lookup"
  <2>1. w \in Task \ {t} /\ pc[w] \in Connecting /\ target[w] = target[t]
    BY <1>1, <1>3
  <2> QED
    BY <1>1, <1>3, <2>1
<1>4. CASE w = t /\ pc[t] = "lookup"
  <2>1. u \in Task \ {t} /\ pc[u] \in Connecting /\ target[u] = target[t]
    BY <1>1, <1>4
  <2> QED
    BY <1>1, <1>4, <2>1
<1>5. u # t => pc[u] \in Connecting
  OBVIOUS
<1>6. w # t => pc[w] \in Connecting
  OBVIOUS
<1> QED
  BY <1>2, <1>3, <1>4, <1>5, <1>6

\* A backend a step of t has connected is connected by t alone, or is one the
\* health loop does not look after.
LEMMA NewlyReachable ==
  ASSUME NoticeInv, NEW t \in Task, Effect(t), NEW b \in Backend, Watched(b)', Reachable(b)'
  PROVE  /\ Watched(b)
         /\ Reachable(b) \/ (target[t] = b /\ pc[t] = "connect")
<1>1. Watched(b) /\ UNCHANGED <<mode, up>> /\ b \in conn'
  BY DEF Effect, Watched, Reachable
<1>2. pc[t] = "open" => mode[target[t]] = "per_call"
  BY DEF NoticeInv, PlacesFit, PlaceFits
<1> QED
  BY <1>1, <1>2 DEF Effect, Watched, Reachable

LEMMA ListingsKept ==
  ASSUME NoticeInv, NEW t \in Task, Effect(t)
  PROVE  ListingsFit'
<1> SUFFICES ASSUME NEW u \in Task PROVE ListingFits(u)'
  BY DEF ListingsFit
<1>1. CASE u = t
  BY <1>1 DEF Effect, ListingFits, Connecting
<1>2. CASE u # t
  <2> SUFFICES ASSUME NEW b, b = target[u], pc'[u] = "index", Watched(b)', Reachable(b)',
                      b \notin overlapped'
               PROVE  \/ listing[u] = offers[b]
                      \/ b \in renewed' \union refresh'
                      \/ \E w \in Task \ {u} : pc'[w] = "lookup" /\ target'[w] = b
    <3>1. target'[u] = target[u] /\ listing'[u] = listing[u] /\ offers' = offers
      BY <1>2 DEF Effect, Alone
    <3> QED
      BY <3>1 DEF ListingFits, Watched, Reachable
  <2>1. /\ pc[u] = "index" /\ b \notin overlapped /\ b \in Backend /\ ListingFits(u)
        /\ b \in registered
    BY <1>2 DEF Effect, Alone, NoticeInv, ListingsFit, Watched, TypeInv, RegistryOK
  <2>2. ~(target[t] = b /\ pc[t] = "connect")
    BY <1>2, <2>1 DEF NoticeInv, OverlapsSeen, Connecting
  <2>3. Watched(b) /\ Reachable(b)
    BY <2>1, <2>2, NewlyReachable
  <2>4. CASE listing[u] = offers[b]
    BY <2>4
  <2>5. CASE b \in renewed \union refresh
    <3>1. b \in conn'
      BY <2>1 DEF Reachable, Effect, Alone
    <3>2. b \in renewed' \union refresh' \/ (pc'[t] = "lookup" /\ target'[t] = b)
      BY <2>1, <2>5, <3>1 DEF Effect
    <3> QED
      BY <1>2, <3>2
  <2>6. ASSUME NEW w \in Task \ {u}, pc[w] = "lookup", target[w] = b
        PROVE  pc'[w] = "lookup" /\ target'[w] = b
    <3>1. CASE w = t
      <4>1. target[u] = target[t] /\ pc[u] \in Connecting /\ u \in Task \ {t}
        BY <1>2, <2>1, <2>6, <3>1 DEF Connecting
      <4> QED
        BY <2>1, <2>6, <3>1, <4>1 DEF Effect, Watched
    <3>2. CASE w # t
      BY <2>6, <3>2 DEF Effect, Alone
    <3> QED
      BY <3>1, <3>2
  <2> QED
    BY <2>1, <2>3, <2>4, <2>5, <2>6 DEF ListingFits
<1> QED
  BY <1>1, <1>2

LEMMA NoticedKept ==
  ASSUME NoticeInv, NEW t \in Task, Effect(t), NEW b \in Backend, Leaves(t, b)
  PROVE  Noticed(b)'
<1> SUFFICES ASSUME b \in healthy', Watched(b)', Reachable(b)', Entries(b)' # offers[b],
                    b \notin renewed' \union refresh' \union overlapped' \union unlisted',
                    ~ToBeListed(b)'
             PROVE  FALSE
  BY DEF Noticed, Effect
<1>1. b \notin overlapped /\ ~(pc'[t] = "lookup" /\ target'[t] = b)
  BY DEF Effect, ToBeListed
<1>2. b \notin renewed \union refresh
  BY <1>1 DEF Effect, Reachable
<1>3. CASE pc[t] = "index" /\ target[t] = b /\ Entries(b)' = listing[t]
  <2>1. Watched(b) /\ Reachable(b)
    BY <1>3, NewlyReachable
  <2>2. PICK u \in Task \ {t} : pc[u] = "lookup" /\ target[u] = b
    BY <1>1, <1>2, <1>3, <2>1 DEF NoticeInv, ListingsFit, ListingFits
  <2>3. pc'[u] = "lookup" /\ target'[u] = b
    BY <2>2 DEF Effect, Alone
  <2> QED
    BY <2>3 DEF ToBeListed
<1>4. CASE /\ b \in healthy /\ b \notin unlisted /\ Entries(b)' = Entries(b)
           /\ ~(target[t] = b /\ pc[t] \in Connecting \union {"lookup"})
           /\ ~(b \in todo[t] /\ job[t] = "refresh")
  <2>1. Watched(b) /\ Reachable(b)
    BY <1>4, NewlyReachable DEF Connecting
  <2>2. ToBeListed(b)
    BY <1>1, <1>2, <1>4, <2>1 DEF NoticeInv, Noticed
  <2>3. PICK u \in Task : \/ target[u] = b /\ pc[u] \in Connecting \union {"lookup"}
                          \/ b \in todo[u] /\ job[u] = "refresh"
    BY <2>2 DEF ToBeListed
  <2>4. u # t
    BY <1>4, <2>3
  <2>5. \/ target'[u] = b /\ pc'[u] \in Connecting \union {"lookup"}
        \/ b \in todo'[u] /\ job'[u] = "refresh"
    BY <2>3, <2>4 DEF Effect, Alone
  <2> QED
    BY <2>5 DEF ToBeListed
<1> QED
  BY <1>3, <1>4 DEF Leaves, Watched

\* Where a returning connect_backend brings its task.
LEMMA ReturnPlace ==
  ASSUME TypeInv, NEW t \in Task, NEW ok \in BOOLEAN, Return(t, ok)
  PROVE  /\ pc'[t] \in {"route", "call", "next", "idle"}
         /\ job'[t] = "refresh" => job[t] = "refresh" /\ pc'[t] = "next"
         /\ job[t] = "refresh" => UNCHANGED <<job, todo>>
<1>1. CASE Done(t)
  BY <1>1 DEF Done, Goto, Return, TypeInv, TasksOK
<1>2. CASE ~Done(t)
  BY <1>2 DEF Goto, Return, TypeInv, TasksOK
<1> QED
  BY <1>1, <1>2

\* A step that connects nothing and lists nothing.
LEMMA QuietEffect ==
  ASSUME NEW t \in Task, Alone(t), pc[t] # "lookup", pc'[t] \notin Connecting,
         registered' \subseteq registered, overlapped \subseteq overlapped',
         UNCHANGED <<mode, offers, up, conn, renewed, refresh>>
  PROVE  Effect(t)
  BY DEF Effect, Connecting

\* A step that leaves the index alone.
LEMMA QuietLeaves ==
  ASSUME NEW t \in Task, NEW b \in Backend, UNCHANGED index,
         healthy' \subseteq healthy, unlisted \subseteq unlisted',
         target[t] # b \/ pc[t] \notin Connecting \union {"lookup"},
         job[t] = "refresh" => UNCHANGED <<job, todo>>
  PROVE  Leaves(t, b)
  BY DEF Leaves, Entries, ToBeListed

\* The same, of a step after which only the place of t may not fit.
LEMMA PlaceKept ==
  ASSUME PlacesFit, NEW t \in Task, Alone(t), registered' \subseteq registered, UNCHANGED mode,
         PlaceFits(t)'
  PROVE  PlacesFit'
<1> SUFFICES ASSUME NEW u \in Task, u # t PROVE PlaceFits(u)'
  BY DEF PlacesFit
<1> QED
  BY DEF PlacesFit, PlaceFits, Alone

Settled(t) == Effect(t) /\ PlaceFits(t)' /\ \A b \in Backend : Leaves(t, b)

LEMMA LookupSettles == ASSUME NoticeInv, NEW t \in Task, Lookup(t) PROVE Settled(t)
<1> USE DEF Lookup
<1>0. TypeInv /\ Alone(t) /\ pc[t] = "lookup" /\ TasksOK /\ registered' = registered
  BY StepAlone DEF NoticeInv, TypeInv, Proceed, Computes
<1>1. CASE target[t] \in registered
  <2>1. pc'[t] = "connect" /\ UNCHANGED <<job, target, todo, listing>>
    BY <1>0, <1>1, GotoAlone DEF Goto, TasksOK
  <2>2. Effect(t)
    BY <1>0, <1>1, <2>1 DEF Effect, Overlap, Connecting
  <2>3. PlaceFits(t)'
    BY <2>1 DEF PlaceFits, Connecting
  <2>4. ASSUME NEW b \in Backend PROVE Leaves(t, b)
    <3>1. CASE target[t] = b
      BY <2>1, <3>1 DEF Leaves, ToBeListed, Connecting
    <3>2. CASE target[t] # b
      BY <2>1, <3>2, QuietLeaves
    <3> QED
      BY <3>1, <3>2
  <2> QED
    BY <2>2, <2>3, <2>4 DEF Settled
<1>2. CASE target[t] \notin registered
  <2>1. Return(t, FALSE)
    BY <1>2
  <2>2. /\ pc'[t] \in {"route", "call", "next", "idle"}
        /\ job'[t] = "refresh" => job[t] = "refresh" /\ pc'[t] = "next"
        /\ job[t] = "refresh" => UNCHANGED <<job, todo>>
    BY <1>0, <2>1, ReturnPlace
  <2>3. Effect(t)
    BY <1>0, <1>2, <2>2 DEF Effect, Connecting
  <2>4. PlaceFits(t)'
    BY <2>2 DEF PlaceFits, Connecting
  <2>5. ASSUME NEW b \in Backend PROVE Leaves(t, b)
    <3>1. CASE target[t] = b
      BY <1>0, <1>2, <3>1 DEF Leaves
    <3>2. CASE target[t] # b
      BY <1>2, <2>2, <3>2, QuietLeaves
    <3> QED
      BY <3>1, <3>2
  <2> QED
    BY <2>3, <2>4, <2>5 DEF Settled
<1> QED
  BY <1>1, <1>2

LEMMA ConnectSettles == ASSUME NoticeInv, NEW t \in Task, Connect(t) PROVE Settled(t)
<1>0. /\ TypeInv /\ Alone(t) /\ pc[t] = "connect" /\ TasksOK
      /\ UNCHANGED <<registered, healthy, index, mode, up, offers, renewed, refresh, historyVars>>
  BY StepAlone DEF NoticeInv, TypeInv, Proceed, Awaits, Connect
<1>1. CASE Opens(target[t]) /\ Goto(t, "list") /\ UNCHANGED taskVars
  <2>1. pc'[t] = "list" /\ UNCHANGED <<job, target, todo, listing>> /\ conn' = conn \union {target[t]}
    BY <1>0, <1>1, GotoAlone DEF Opens
  <2>2. Effect(t)
    BY <1>0, <2>1 DEF Effect, Connecting
  <2>3. PlaceFits(t)'
    BY <2>1 DEF PlaceFits, Connecting
  <2>4. ASSUME NEW b \in Backend PROVE Leaves(t, b)
    <3>1. CASE target[t] = b
      BY <2>1, <3>1 DEF Leaves, ToBeListed, Connecting
    <3>2. CASE target[t] # b
      BY <1>0, <2>1, <3>2, QuietLeaves
    <3> QED
      BY <3>1, <3>2
  <2> QED
    BY <2>2, <2>3, <2>4 DEF Settled
<1>2. CASE FailsToOpen(target[t]) /\ Return(t, FALSE)
  <2>1. /\ pc'[t] \in {"route", "call", "next", "idle"}
        /\ job'[t] = "refresh" => job[t] = "refresh" /\ pc'[t] = "next"
        /\ job[t] = "refresh" => UNCHANGED <<job, todo>>
    BY <1>0, <1>2, ReturnPlace
  <2>2. target[t] \notin conn /\ conn' = conn
    BY <1>2 DEF FailsToOpen
  <2>3. Effect(t)
    BY <1>0, <2>1, <2>2, QuietEffect DEF Connecting
  <2>4. PlaceFits(t)'
    BY <2>1 DEF PlaceFits, Connecting
  <2>5. ASSUME NEW b \in Backend PROVE Leaves(t, b)
    <3>1. CASE target[t] = b
      BY <2>2, <3>1 DEF Leaves, Reachable
    <3>2. CASE target[t] # b
      BY <1>0, <2>1, <3>2, QuietLeaves
    <3> QED
      BY <3>1, <3>2
  <2> QED
    BY <2>3, <2>4, <2>5 DEF Settled
<1> QED
  BY <1>1, <1>2 DEF Connect

\* What a request that fails does to a backend.
LEMMA FailsKeeps ==
  ASSUME TypeInv, NEW b, Fails(b)
  PROVE  /\ UNCHANGED <<conn, up, offers>>
         /\ \A c \in Backend : c \in renewed \union refresh => c \in renewed' \union refresh'
  BY DEF Fails, Answered

LEMMA ListSettles == ASSUME NoticeInv, NEW t \in Task, List(t) PROVE Settled(t)
<1>0. /\ TypeInv /\ Alone(t) /\ pc[t] = "list" /\ TasksOK
      /\ UNCHANGED <<registered, healthy, index, mode, overlapped>>
  BY StepAlone DEF NoticeInv, TypeInv, Proceed, Awaits, List
<1>1. CASE /\ Reachable(target[t]) /\ Answered(target[t]) /\ Goto(t, "index")
           /\ listing' = [listing EXCEPT ![t] = offers[target[t]]]
           /\ UNCHANGED <<job, target, name, todo, conn, up, offers, unlisted, faults>>
  <2>1. pc'[t] = "index" /\ listing'[t] = offers[target[t]]
    BY <1>0, <1>1 DEF Goto, TasksOK
  <2>2. \A c \in Backend : c \in renewed \union refresh => c \in renewed' \union refresh'
    BY <1>1 DEF Answered
  <2>3. Effect(t)
    BY <1>0, <1>1, <2>1, <2>2 DEF Effect, Connecting
  <2>4. PlaceFits(t)'
    BY <2>1 DEF PlaceFits, Connecting
  <2>5. ASSUME NEW b \in Backend PROVE Leaves(t, b)
    <3>1. CASE target[t] = b
      BY <1>1, <2>1, <3>1 DEF Leaves, ToBeListed, Connecting
    <3>2. CASE target[t] # b
      BY <1>0, <1>1, <3>2, QuietLeaves
    <3> QED
      BY <3>1, <3>2
  <2> QED
    BY <2>3, <2>4, <2>5 DEF Settled
<1>2. CASE /\ Fails(target[t]) /\ Return(t, FALSE)
           /\ IF Reachable(target[t]) THEN EndsEarly(target[t]) ELSE UNCHANGED unlisted
  <2>1. /\ pc'[t] \in {"route", "call", "next", "idle"}
        /\ job'[t] = "refresh" => job[t] = "refresh" /\ pc'[t] = "next"
        /\ job[t] = "refresh" => UNCHANGED <<job, todo>>
    BY <1>0, <1>2, ReturnPlace
  <2>2. /\ UNCHANGED <<conn, up, offers>> /\ unlisted \subseteq unlisted'
        /\ \A c \in Backend : c \in renewed \union refresh => c \in renewed' \union refresh'
    BY <1>0, <1>2, FailsKeeps DEF EndsEarly
  <2>3. Effect(t)
    BY <1>0, <2>1, <2>2 DEF Effect, Connecting
  <2>4. PlaceFits(t)'
    BY <2>1 DEF PlaceFits, Connecting
  <2>5. ASSUME NEW b \in Backend PROVE Leaves(t, b)
    <3>1. CASE target[t] = b
      BY <1>0, <1>2, <2>2, <3>1 DEF Leaves, Reachable, EndsEarly
    <3>2. CASE target[t] # b
      BY <1>0, <2>1, <2>2, <3>2, QuietLeaves
    <3> QED
      BY <3>1, <3>2
  <2> QED
    BY <2>3, <2>4, <2>5 DEF Settled
<1> QED
  BY <1>1, <1>2 DEF List

LEMMA IndexSettles == ASSUME NoticeInv, NEW t \in Task, Index(t) PROVE Settled(t)
<1> DEFINE a == target[t]
<1>0. /\ TypeInv /\ Alone(t) /\ pc[t] = "index" /\ TasksOK /\ RegistryOK
      /\ UNCHANGED <<registered, mode, overlapped, backendVars>>
  BY StepAlone DEF NoticeInv, TypeInv, Proceed, Computes, Index
<1>1. PICK ok \in BOOLEAN : Return(t, ok)
  BY DEF Index
<1>2. /\ pc'[t] \in {"route", "call", "next", "idle"}
      /\ job'[t] = "refresh" => job[t] = "refresh" /\ pc'[t] = "next"
      /\ job[t] = "refresh" => UNCHANGED <<job, todo>>
  BY <1>0, <1>1, ReturnPlace
<1>3. Effect(t)
  BY <1>0, <1>2, QuietEffect DEF Connecting
<1>4. PlaceFits(t)'
  BY <1>2 DEF PlaceFits, Connecting
<1>5. ASSUME NEW b \in Backend, b # a PROVE Leaves(t, b)
  <2>1. PICK names \in SUBSET (listing[t] \ Taken(t)) : index' = Owned(a, names)
    BY DEF Index
  <2>2. \A n \in names : index[n] # b
    BY <1>5, <2>1, ConstantsAssumption DEF Taken
  <2>3. Entries(b)' = Entries(b)
    BY <1>5, <2>1, <2>2, ConstantsAssumption DEF Entries, Owned
  <2>4. (b \in healthy' => b \in healthy) /\ (b \in unlisted => b \in unlisted')
    BY <1>5 DEF Index, MarkedHealthy, EndsEarly
  <2>5. b \in todo[t] /\ job[t] = "refresh" => ToBeListed(b)'
    BY <1>2 DEF ToBeListed
  <2> QED
    BY <1>5, <2>3, <2>4, <2>5 DEF Leaves
<1>6. ASSUME NEW b \in Backend, b = a PROVE Leaves(t, b)
  <2>1. CASE Taken(t) = {} /\ index' = Owned(a, listing[t])
    <3>1. listing[t] \subseteq Name
      BY <1>0 DEF TasksOK
    <3>2. index' = Owned(b, listing[t])
      BY <1>6, <2>1
    <3>3. ASSUME NEW n \in Name PROVE index'[n] = b <=> n \in listing[t]
      BY <3>2, ConstantsAssumption DEF Owned
    <3>4. Entries(b)' = listing[t]
      BY <3>1, <3>3 DEF Entries
    <3> QED
      BY <1>0, <1>6, <3>4 DEF Leaves
  <2>2. CASE EndsEarly(a) /\ UNCHANGED healthy
    BY <1>6, <2>2 DEF Leaves, EndsEarly
  <2> QED
    BY <2>1, <2>2 DEF Index
<1> QED
  BY <1>3, <1>4, <1>5, <1>6 DEF Settled

LEMMA StartSettles == ASSUME NoticeInv, NEW t \in Task, Start(t) PROVE Settled(t)
<1>0. /\ TypeInv /\ Alone(t) /\ TasksOK /\ PlaceFits(t)
      /\ pc[t] = "idle" /\ UNCHANGED <<mode, backendVars, historyVars>>
  BY StepAlone DEF NoticeInv, TypeInv, PlacesFit, Start, StartCall, StartConnectAll,
                   StartHealthChecks, StartRefresh, Loop, Unregister
<1>1. job[t] # "refresh" /\ pc[t] \notin Connecting \union {"lookup"}
  BY <1>0 DEF PlaceFits, Connecting
<1>2. CASE StartCall(t)
  <2>1. pc'[t] \in {"route", "disconnect"} /\ job'[t] = "call"
    BY <1>0, <1>2 DEF StartCall, Goto, TasksOK
  <2> QED
    BY <1>0, <1>1, <1>2, <2>1, QuietEffect, QuietLeaves DEF StartCall, Settled, PlaceFits, Connecting
<1>3. CASE StartConnectAll(t) \/ StartHealthChecks(t)
  <2>1. /\ pc'[t] = "next" /\ UNCHANGED <<registered, healthy, index>>
    BY <1>0, <1>3 DEF StartConnectAll, StartHealthChecks, Loop, Goto, TasksOK
  <2> QED
    BY <1>0, <1>1, <2>1, QuietEffect, QuietLeaves DEF Settled, PlaceFits, Connecting
<1>4. CASE StartRefresh(t)
  <2>1. pc'[t] = "next" /\ job'[t] = "refresh" /\ todo'[t] = healthy
        /\ UNCHANGED <<registered, healthy>>
    BY <1>0, <1>4 DEF StartRefresh, Loop, Goto, TasksOK
  <2>2. ASSUME NEW b \in Backend PROVE Leaves(t, b)
    <3>1. CASE b \in healthy
      BY <2>1, <3>1 DEF Leaves, ToBeListed
    <3>2. CASE b \notin healthy
      BY <2>1, <3>2 DEF Leaves
    <3> QED
      BY <3>1, <3>2
  <2> QED
    BY <1>0, <1>1, <2>1, <2>2, QuietEffect DEF Settled, PlaceFits, Connecting
<1>5. CASE Unregister(t)
  <2>1. /\ pc'[t] = "retain" /\ job'[t] = "unregister" /\ target'[t] \notin registered'
        /\ registered' \subseteq registered /\ healthy' \subseteq healthy /\ UNCHANGED index
    BY <1>0, <1>5 DEF Unregister, Goto, TasksOK
  <2> QED
    BY <1>0, <1>1, <2>1, QuietEffect, QuietLeaves DEF Settled, PlaceFits, Connecting
<1> QED
  BY <1>2, <1>3, <1>4, <1>5 DEF Start

LEMMA OtherSettles ==
  ASSUME NoticeInv, NEW t \in Task,
         Disconnect(t) \/ Route(t) \/ Open(t) \/ CallTool(t) \/ HealthCheck(t)
  PROVE  Settled(t)
<1>0. /\ TypeInv /\ Alone(t) /\ TasksOK /\ PlaceFits(t)
      /\ pc[t] \in {"disconnect", "route", "open", "call", "check"}
      /\ UNCHANGED <<registered, index, mode, up, offers, historyVars>> /\ healthy' \subseteq healthy
  BY StepAlone
  DEF NoticeInv, TypeInv, PlacesFit, Proceed, Awaits, Computes, Disconnect, Route, Open, CallTool,
      HealthCheck, Fails
<1>1. job[t] # "refresh" /\ pc[t] \notin Connecting \union {"lookup"}
  BY <1>0 DEF PlaceFits, Connecting
<1>2. \A b \in Backend : Leaves(t, b)
  BY <1>0, <1>1, QuietLeaves
<1>3. CASE Disconnect(t)
  <2>1. pc'[t] \in {"lookup", "idle"} /\ (job'[t] # "refresh") /\ conn' = conn \ {target[t]}
        /\ renewed' = renewed \ {target[t]} /\ UNCHANGED refresh
    BY <1>0, <1>1, <1>3 DEF Disconnect, Done, Goto, TasksOK
  <2>2. Effect(t)
    BY <1>0, <1>1, <2>1 DEF Effect, Connecting
  <2> QED
    BY <1>2, <2>1, <2>2 DEF Settled, PlaceFits
<1>4. CASE Route(t)
  <2>1. /\ pc'[t] \in {"idle", "lookup", "open", "call"} /\ job'[t] # "refresh"
        /\ pc'[t] = "open" => mode[target'[t]] = "per_call"
        /\ UNCHANGED <<conn, renewed, refresh>>
    <3>1. CASE Done(t)
      BY <1>0, <1>4, <3>1 DEF Route, Done, Goto, TasksOK
    <3>2. CASE ~Done(t)
      BY <1>0, <1>4, <3>2 DEF Route, Goto, TasksOK
    <3> QED
      BY <3>1, <3>2
  <2>2. Effect(t)
    BY <1>0, <1>1, <2>1, QuietEffect DEF Connecting
  <2> QED
    BY <1>0, <1>2, <2>1, <2>2 DEF Settled, PlaceFits
<1>5. CASE Open(t)
  <2>1. /\ pc'[t] \in {"idle", "call"} /\ job'[t] # "refresh"
        /\ conn' \in {conn, conn \union {target[t]}} /\ UNCHANGED <<renewed, refresh>>
    BY <1>0, <1>1, <1>5 DEF Open, Opens, FailsToOpen, Done, Goto, TasksOK
  <2>2. Effect(t)
    BY <1>0, <1>1, <1>5, <2>1 DEF Effect, Connecting, Open
  <2> QED
    BY <1>2, <2>1, <2>2 DEF Settled, PlaceFits
<1>6. CASE CallTool(t)
  <2>1. pc'[t] \in {"idle", "disconnect"} /\ job'[t] # "refresh" /\ UNCHANGED conn
    BY <1>0, <1>1, <1>6 DEF CallTool, Done, Goto, TasksOK, Fails
  <2>2. \A c \in Backend : c \in renewed \union refresh => c \in renewed' \union refresh'
    BY <1>0, <1>6, FailsKeeps DEF CallTool, Answered
  <2>3. Effect(t)
    BY <1>0, <1>1, <2>1, <2>2 DEF Effect, Connecting
  <2> QED
    BY <1>2, <2>1, <2>3 DEF Settled, PlaceFits
<1>7. CASE HealthCheck(t)
  <2>1. /\ pc'[t] \in {"lookup", "next"} /\ UNCHANGED <<job, target, conn>>
    BY <1>0, <1>7 DEF HealthCheck, Goto, TasksOK, Fails
  <2>2. ASSUME NEW c \in Backend, c \in renewed \union refresh
        PROVE  c \in renewed' \union refresh' \/ (pc'[t] = "lookup" /\ target'[t] = c)
    <3>1. CASE Fails(target[t])
      BY <1>0, <2>2, <3>1, FailsKeeps
    <3>2. CASE ~Fails(target[t])
      BY <1>0, <1>7, <2>1, <2>2, <3>2 DEF HealthCheck, Goto, TasksOK
    <3> QED
      BY <3>1, <3>2
  <2>3. Effect(t)
    BY <1>0, <1>1, <2>1, <2>2 DEF Effect, Connecting
  <2> QED
    BY <1>1, <1>2, <2>1, <2>3 DEF Settled, PlaceFits
<1> QED
  BY <1>3, <1>4, <1>5, <1>6, <1>7

LEMMA NextBackendSettles == ASSUME NoticeInv, NEW t \in Task, NextBackend(t) PROVE Settled(t)
<1>0. /\ TypeInv /\ Alone(t) /\ TasksOK /\ pc[t] = "next"
      /\ UNCHANGED <<registered, healthy, index, mode, backendVars, historyVars>>
  BY StepAlone DEF NoticeInv, TypeInv, Proceed, Computes, NextBackend
<1>1. CASE todo[t] = {}
  <2>1. pc'[t] = "idle" /\ job'[t] = "health"
    BY <1>0, <1>1 DEF NextBackend, Done, Goto, TasksOK
  <2>2. ASSUME NEW b \in Backend PROVE Leaves(t, b)
    BY <1>0, <1>1 DEF Leaves, Entries, Connecting
  <2> QED
    BY <1>0, <2>1, <2>2, QuietEffect DEF Settled, PlaceFits, Connecting
<1>2. CASE todo[t] # {}
  <2>1. PICK b \in todo[t] :
          /\ todo' = [todo EXCEPT ![t] = @ \ {b}]
          /\ target' = [target EXCEPT ![t] = b]
          /\ Goto(t, IF job[t] = "health" /\ b \in healthy THEN "check" ELSE "lookup")
          /\ UNCHANGED <<job, name, listing>>
    BY <1>2 DEF NextBackend
  <2>2. /\ pc'[t] \in {"check", "lookup"} /\ (job[t] = "refresh" => pc'[t] = "lookup")
        /\ target'[t] = b /\ todo'[t] = todo[t] \ {b} /\ job' = job
    BY <1>0, <2>1 DEF Goto, TasksOK
  <2>3. ASSUME NEW c \in Backend PROVE Leaves(t, c)
    <3>1. CASE c \in todo[t] /\ job[t] = "refresh"
      BY <2>2, <3>1 DEF Leaves, ToBeListed
    <3>2. CASE ~(c \in todo[t] /\ job[t] = "refresh")
      BY <1>0, <3>2 DEF Leaves, Entries, Connecting
    <3> QED
      BY <3>1, <3>2
  <2> QED
    BY <1>0, <2>2, <2>3, QuietEffect DEF Settled, PlaceFits, Connecting
<1> QED
  BY <1>1, <1>2

LEMMA RetainSettles == ASSUME NoticeInv, NEW t \in Task, Retain(t) PROVE Settled(t)
<1>0. /\ TypeInv /\ Alone(t) /\ TasksOK /\ RegistryOK /\ PlaceFits(t) /\ pc[t] = "retain"
      /\ UNCHANGED <<registered, healthy, mode, backendVars, unlisted>>
  BY StepAlone DEF NoticeInv, TypeInv, PlacesFit, Proceed, Computes, Retain
<1>1. /\ target[t] \in Backend \ registered /\ job[t] # "refresh"
      /\ pc'[t] = "disconnect" /\ job' = job
  BY <1>0, GotoAlone DEF PlaceFits, Connecting, TypeInv, RetainOK, Retain
<1>2. overlapped \subseteq overlapped'
  BY DEF Retain, Overlap
<1>3. ASSUME NEW b \in Backend PROVE Leaves(t, b)
  <2>1. CASE b = target[t]
    BY <1>0, <1>1, <2>1 DEF Leaves
  <2>2. CASE b # target[t]
    <3>1. Entries(b)' = Entries(b)
      BY <2>2, <1>3, ConstantsAssumption DEF Retain, Owned, Entries
    <3> QED
      BY <1>0, <1>1, <2>2, <3>1 DEF Leaves
  <2> QED
    BY <2>1, <2>2
<1> QED
  BY <1>0, <1>1, <1>2, <1>3, QuietEffect DEF Settled, PlaceFits, Connecting

LEMMA AbandonSettles == ASSUME NoticeInv, NEW t \in Task, Abandon(t) PROVE Settled(t)
<1>0. /\ TypeInv /\ Alone(t) /\ TasksOK /\ PlaceFits(t) /\ Done(t)
      /\ job[t] # "refresh" /\ pc[t] # "lookup"
      /\ UNCHANGED <<registered, healthy, index, mode, backendVars, overlapped>>
  BY StepAlone DEF NoticeInv, TypeInv, PlacesFit, Abandon
<1>1. pc'[t] = "idle" /\ job'[t] = "health"
  BY <1>0 DEF Done, Goto, TasksOK
<1>2. unlisted \subseteq unlisted'
  BY DEF Abandon, EndsEarly
<1>3. ASSUME NEW b \in Backend PROVE Leaves(t, b)
  <2>1. CASE b = target[t] /\ pc[t] \in Connecting
    BY <1>0, <2>1 DEF Leaves, Abandon, EndsEarly
  <2>2. CASE ~(b = target[t] /\ pc[t] \in Connecting)
    BY <1>0, <1>2, <2>2, QuietLeaves
  <2> QED
    BY <2>1, <2>2
<1> QED
  BY <1>0, <1>1, <1>2, <1>3, QuietEffect DEF Settled, PlaceFits, Connecting

LEMMA InitNotice == Init => NoticeInv
<1> SUFFICES ASSUME Init PROVE NoticeInv
  OBVIOUS
<1>1. TypeInv
  BY InitTypeInv
<1>2. PlacesFit /\ OverlapsSeen /\ ListingsFit
  BY DEF Init, PlacesFit, PlaceFits, OverlapsSeen, ListingsFit, ListingFits, Connecting
<1>3. \A b \in Backend : Noticed(b)
  BY DEF Init, Noticed
<1> QED
  BY <1>1, <1>2, <1>3 DEF NoticeInv

LEMMA NextNotice == NoticeInv /\ [Next]_vars => NoticeInv'
<1> SUFFICES ASSUME NoticeInv, [Next]_vars PROVE NoticeInv'
  OBVIOUS
<1>0. TypeInv /\ TypeInv'
  BY NextTypeInv DEF NoticeInv
<1>1. ASSUME NEW t \in Task, Start(t) \/ Proceed(t) \/ Abandon(t) PROVE NoticeInv'
  <2>1. Settled(t)
    BY <1>1, LookupSettles, ConnectSettles, ListSettles, IndexSettles, StartSettles, OtherSettles,
       NextBackendSettles, RetainSettles, AbandonSettles DEF Proceed, Awaits, Computes
  <2>2. PlacesFit'
    BY <2>1, PlaceKept DEF Settled, Effect, NoticeInv
  <2> QED
    BY <1>0, <2>1, <2>2, OverlapsKept, ListingsKept, NoticedKept DEF Settled, NoticeInv
<1>2. ASSUME NEW b \in Backend, GoesDown(b) \/ ComesUp(b) PROVE NoticeInv'
  <2>0. /\ UNCHANGED <<registered, healthy, index, pc, job, target, todo, listing, mode, refresh,
                       overlapped, unlisted>>
        /\ offers \in [Backend -> SUBSET Name]
    BY <1>0, <1>2 DEF GoesDown, ComesUp, TypeInv, BackendsOK
  <2>1. PlacesFit' /\ OverlapsSeen'
    BY <2>0 DEF NoticeInv, PlacesFit, PlaceFits, OverlapsSeen
  <2>2. ASSUME NEW c \in Backend, Watched(c)', Reachable(c)'
        PROVE  \/ c \in renewed'
               \/ /\ Watched(c) /\ Reachable(c) /\ offers'[c] = offers[c]
                  /\ c \in renewed => c \in renewed'
    <3>1. CASE GoesDown(b)
      BY <2>0, <2>2, <3>1 DEF GoesDown, Watched, Reachable
    <3>2. CASE ComesUp(b)
      BY <2>0, <2>2, <3>2 DEF ComesUp, Watched, Reachable
    <3> QED
      BY <1>2, <3>1, <3>2
  <2>3. ListingsFit'
    <3> SUFFICES ASSUME NEW u \in Task, NEW c \in Backend, c = target[u], Watched(c)', Reachable(c)',
                        pc[u] = "index", c \notin overlapped
                 PROVE  \/ listing[u] = offers'[c]
                        \/ c \in renewed' \union refresh
                        \/ \E w \in Task \ {u} : pc[w] = "lookup" /\ target[w] = c
      <4>1. ASSUME NEW u \in Task, Watched(target[u])' PROVE target[u] \in Backend /\ target'[u] = target[u]
        BY <1>0, <2>0, <4>1 DEF Watched, TypeInv, RegistryOK
      <4> QED
        BY <2>0, <4>1 DEF ListingsFit, ListingFits
    <3> QED
      BY <2>2 DEF NoticeInv, ListingsFit, ListingFits
  <2>4. ASSUME NEW c \in Backend PROVE Noticed(c)'
    <3>1. ToBeListed(c)' <=> ToBeListed(c)
      BY <2>0 DEF ToBeListed
    <3>2. Entries(c)' = Entries(c)
      BY <2>0 DEF Entries
    <3> QED
      BY <2>0, <2>2, <3>1, <3>2 DEF NoticeInv, Noticed
  <2> QED
    BY <1>0, <2>1, <2>3, <2>4 DEF NoticeInv
<1>3. CASE UNCHANGED vars
  BY <1>0, <1>3 DEF vars, NoticeInv, PlacesFit, PlaceFits, OverlapsSeen, ListingsFit, ListingFits,
                    Noticed, ToBeListed, Entries, Watched, Reachable
<1> QED
  BY <1>1, <1>2, <1>3 DEF Next

(* A healthy backend whose entries are not what it offers is going to be    *)
(* listed again, whatever restarts, fails, is dropped or is unregistered in *)
(* between: the notice of a restart passes from the session to the request  *)
(* that meets it, to the flag, and to the task that takes the flag, and is  *)
(* nowhere lost but in the two ways the property names.                     *)
THEOREM StaleToolsNoticed == Spec => []StaleToolsAreNoticed
<1>1. NoticeInv => StaleToolsAreNoticed
  BY DEF NoticeInv, TypeInv, RegistryOK, Noticed, StaleToolsAreNoticed
<1> QED
  BY <1>1, InitNotice, NextNotice, PTL DEF Spec

=============================================================================
