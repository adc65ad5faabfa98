------------------------- MODULE OAuth2TokenProofs -------------------------
(***************************************************************************)
(* Proofs about OAuth2Token, for every set of managers and tasks, every    *)
(* combination of faults and every value of the bounds.                    *)
(***************************************************************************)
EXTENDS OAuth2Token, TLAPS

USE DEF NoToken, NoClient, callerVars, providerVars, outsideVars, historyVars

-----------------------------------------------------------------------------
(* The helpers every action is built from keep their types.                *)

LEMMA OwnerType == \A t \in Task : Owner[t] \in Manager
  BY ConstantsAssumption

LEMMA TokenTypes == NoToken \in AnyToken /\ NoClient \in AnyClient
  BY ConstantsAssumption DEF AnyToken, AnyClient

LEMMA AnswerTypes == NoAnswer \in Answer /\ ErrorAnswer \in Answer
                     /\ [NoAnswer EXCEPT !.kind = "rejected"] \in Answer
  BY TokenTypes DEF NoAnswer, ErrorAnswer, Answer

LEMMA ClientOrType ==
  ASSUME NEW a \in AnyClient, NEW b \in AnyClient
  PROVE  ClientOr(a, b) \in AnyClient
  BY TokenTypes DEF ClientOr

LEMMA ReturnType ==
  ASSUME CallerTypeOK, NEW t \in Task, NEW outcome, Return(t, outcome)
  PROVE  CallerTypeOK'
  BY TokenTypes, AnswerTypes DEF CallerTypeOK, Return, Location

LEMMA GoToType ==
  ASSUME CallerTypeOK, NEW t \in Task, NEW where \in Location \ {"at_provider"}, GoTo(t, where)
  PROVE  CallerTypeOK'
  BY TokenTypes, AnswerTypes DEF CallerTypeOK, GoTo

LEMMA SendType ==
  ASSUME CallerTypeOK, NEW t \in Task, NEW what \in Flow, NEW token \in AnyToken,
         Send(t, what, token), what # "grant" => token # NoToken
  PROVE  CallerTypeOK'
  BY AnswerTypes DEF CallerTypeOK, Send, Location

LEMMA AnsweredType ==
  ASSUME CallerTypeOK, NEW t \in Task, NEW a \in Answer, Answered(t, a)
  PROVE  CallerTypeOK'
  BY DEF CallerTypeOK, Answered, Location

LEMMA TakeType ==
  ASSUME ManagerTypeOK, NEW t \in Task, Take(t)
  PROVE  lock' \in [Manager -> Task \union {NoTask}]
  BY OwnerType DEF ManagerTypeOK, Take

LEMMA DropType ==
  ASSUME ManagerTypeOK, NEW t \in Task, Drop(t)
  PROVE  lock' \in [Manager -> Task \union {NoTask}]
  BY OwnerType DEF ManagerTypeOK, Drop

LEMMA FaultType ==
  ASSUME HistoryTypeOK, NEW kind, Fault(kind)
  PROVE  faults' \in 0 .. MaxFaults
  BY ConstantsAssumption DEF HistoryTypeOK, Fault

LEMMA InstallType ==
  ASSUME ManagerTypeOK, NEW m \in Manager, InstallPersisted(m)
  PROVE  cache' \in [Manager -> CacheEntry]
<1>1. ClientOr(store.client, cache[m].client) \in AnyClient
  BY ClientOrType DEF ManagerTypeOK, CacheEntry, StoreEntry
<1> QED
  BY <1>1 DEF ManagerTypeOK, InstallPersisted, CacheEntry, StoreEntry

LEMMA RotateType ==
  ASSUME ProviderTypeOK, NEW token, NEW client \in AnyClient, Rotate(token, client),
         UNCHANGED expired
  PROVE  ProviderTypeOK' /\ issued + 1 \in AnyToken
<1>1. issued + 1 \in AnyToken /\ issued' \in AnyToken
  BY ConstantsAssumption DEF ProviderTypeOK, Rotate, AnyToken
<1>2. live' \subseteq 1 .. issued'
  <2>1. issued \in Nat /\ 1 .. issued \union {issued + 1} \subseteq 1 .. issued'
    BY ConstantsAssumption DEF ProviderTypeOK, Rotate, AnyToken
  <2>2. live' \subseteq live \union {issued + 1}
    BY Zenon DEF Rotate
  <2> QED
    BY <2>1, <2>2 DEF ProviderTypeOK
<1>3. boundTo' \in [AnyToken -> AnyClient]
  BY <1>1 DEF ProviderTypeOK, Rotate
<1>4. expired' \subseteq 1 .. issued' /\ bare' \subseteq 1 .. issued'
  BY ConstantsAssumption DEF ProviderTypeOK, Rotate, AnyToken
<1> QED
  BY <1>1, <1>2, <1>3, <1>4 DEF ProviderTypeOK, Rotate

LEMMA WireType ==
  ASSUME CallerTypeOK, ManagerTypeOK, NEW gone \in SUBSET Task
  PROVE  OnTheWire(gone) \subseteq [token : AnyToken, client : AnyClient]
  BY OwnerType DEF OnTheWire, CallerTypeOK, ManagerTypeOK, CacheEntry

-----------------------------------------------------------------------------
LEMMA InitTypeOK == Init => TypeOK
<1> SUFFICES ASSUME Init PROVE TypeOK
  OBVIOUS
<1>1. CallerTypeOK
  BY TokenTypes, AnswerTypes DEF Init, CallerTypeOK, Location, Flow
<1>2. ManagerTypeOK
  BY TokenTypes DEF Init, ManagerTypeOK, CacheEntry, EmptyCache, StoreEntry, EmptyStore
<1>3. ProviderTypeOK
  BY TokenTypes DEF Init, ProviderTypeOK
<1>4. HistoryTypeOK
  BY ConstantsAssumption DEF Init, HistoryTypeOK
<1> QED
  BY <1>1, <1>2, <1>3, <1>4 DEF TypeOK

LEMMA NextTypeOK == TypeOK /\ [Next]_vars => TypeOK'
<1> SUFFICES ASSUME TypeOK, [Next]_vars PROVE TypeOK'
  OBVIOUS
<1>0. /\ CallerTypeOK /\ ManagerTypeOK /\ ProviderTypeOK /\ HistoryTypeOK
      /\ {"idle", "wait_refresh", "wait_acquire", "registering"} \subseteq Location
      /\ {"refresh", "retry", "grant"} \subseteq Flow
      /\ \A m \in Manager : /\ cache[m].access \in AnyToken
                            /\ cache[m].refresh \in AnyToken
                            /\ cache[m].client \in AnyClient
      /\ store.access \in AnyToken /\ store.refresh \in AnyToken /\ store.client \in AnyClient
  BY DEF TypeOK, Location, Flow, ManagerTypeOK, CacheEntry, StoreEntry
<1> USE <1>0, OwnerType, TokenTypes
<1>1. ASSUME NEW t \in Task, AdoptPersisted(t) PROVE TypeOK'
  BY <1>1, InstallType
  DEF AdoptPersisted, TypeOK, CallerTypeOK, ManagerTypeOK, ProviderTypeOK, HistoryTypeOK
<1>2. ASSUME NEW t \in Task, GetToken(t) PROVE TypeOK'
  <2>1. CallerTypeOK'
    BY <1>2, ReturnType, GoToType DEF GetToken
  <2> QED
    BY <1>2, <2>1 DEF GetToken, TypeOK, ManagerTypeOK, ProviderTypeOK, HistoryTypeOK
<1>3. ASSUME NEW t \in Task, LockForRefresh(t) PROVE TypeOK'
  <2>1. CallerTypeOK'
    BY <1>3, ReturnType, GoToType, SendType DEF LockForRefresh
  <2>2. lock' \in [Manager -> Task \union {NoTask}]
    BY <1>3, TakeType DEF LockForRefresh, ManagerTypeOK
  <2> QED
    BY <1>3, <2>1, <2>2 DEF LockForRefresh, TypeOK, ManagerTypeOK, ProviderTypeOK, HistoryTypeOK
<1>4. ASSUME NEW t \in Task, LockForAcquire(t) PROVE TypeOK'
  <2>1. CallerTypeOK'
    BY <1>4, ReturnType, GoToType, SendType DEF LockForAcquire
  <2>2. lock' \in [Manager -> Task \union {NoTask}]
    BY <1>4, TakeType DEF LockForAcquire, ManagerTypeOK
  <2> QED
    BY <1>4, <2>1, <2>2 DEF LockForAcquire, TypeOK, ManagerTypeOK, ProviderTypeOK, HistoryTypeOK
<1>5. ASSUME NEW t \in Task, Register(t) PROVE TypeOK'
  <2>1. CallerTypeOK'
    BY <1>5, ReturnType, SendType DEF Register
  <2>2. lock' \in [Manager -> Task \union {NoTask}]
    BY <1>5, DropType DEF Register, ManagerTypeOK
  <2>3. clients' \in AnyClient
    BY <1>5, ConstantsAssumption DEF Register, ProviderTypeOK, AnyClient
  <2>4. cache' \in [Manager -> CacheEntry]
    <3> DEFINE entry == [cache[Owner[t]] EXCEPT !.option = "some", !.client = clients + 1]
    <3>1. CASE clients' = clients + 1 /\ cache' = [cache EXCEPT ![Owner[t]] = entry]
      <4>1. entry \in CacheEntry
        BY <2>3, <3>1 DEF ManagerTypeOK, CacheEntry
      <4> QED
        BY <3>1, <4>1 DEF ManagerTypeOK
    <3>2. CASE UNCHANGED cache
      BY <3>2 DEF ManagerTypeOK
    <3> QED
      BY <1>5, <3>1, <3>2 DEF Register
  <2>5. faults' \in 0 .. MaxFaults
    BY <1>5, FaultType DEF Register, HistoryTypeOK
  <2> QED
    BY <1>5, <2>1, <2>2, <2>3, <2>4, <2>5
    DEF Register, TypeOK, ManagerTypeOK, ProviderTypeOK, HistoryTypeOK
<1>6. ASSUME NEW t \in Task, ProviderRefresh(t) PROVE TypeOK'
  <2>1. ProviderTypeOK'
    BY <1>6, RotateType DEF ProviderRefresh, ProviderTypeOK
  <2>2. CallerTypeOK'
    <3> DEFINE a == [kind |-> "tokens", access |-> issued + 1,
                     refresh |-> IF Rotates THEN issued + 1 ELSE NoToken]
    <3>1. PICK b \in {a, ErrorAnswer, [NoAnswer EXCEPT !.kind = "rejected"]} :
            /\ Answered(t, b)
            /\ \/ b = a /\ Rotate(presented[t], cache[Owner[t]].client) /\ UNCHANGED expired
               \/ b \in Answer
      BY <1>6, AnswerTypes DEF ProviderRefresh
    <3>2. ASSUME b = a, b \notin Answer PROVE FALSE
      <4>1. issued + 1 \in AnyToken
        BY <3>1, <3>2, RotateType
      <4> QED
        BY <4>1, <3>2 DEF Answer
    <3> QED
      BY <3>1, <3>2, AnswerTypes, AnsweredType
  <2>3. faults' \in 0 .. MaxFaults
    BY <1>6, FaultType DEF ProviderRefresh, HistoryTypeOK
  <2> QED
    BY <1>6, <2>1, <2>2, <2>3 DEF ProviderRefresh, TypeOK, ManagerTypeOK, HistoryTypeOK
<1>7. ASSUME NEW t \in Task, ProviderGrant(t) PROVE TypeOK'
  <2>1. issued < MaxIssue => issued + 1 \in AnyToken
    BY ConstantsAssumption DEF ProviderTypeOK, AnyToken
  <2>2. ProviderTypeOK'
    <3>1. issued' \in AnyToken
      BY <1>7, <2>1 DEF ProviderGrant, ProviderTypeOK
    <3>2. /\ live' \subseteq 1 .. issued' /\ bare' \subseteq 1 .. issued'
          /\ expired' \subseteq 1 .. issued'
      <4>1. issued \in Nat /\ 1 .. issued \subseteq 1 .. issued'
        BY <1>7, ConstantsAssumption DEF ProviderGrant, ProviderTypeOK, AnyToken
      <4>2. CASE /\ issued' = issued + 1 /\ live' \subseteq live \union {issued + 1}
                 /\ bare' \subseteq bare \union {issued + 1}
        <5>1. issued + 1 \in 1 .. issued'
          BY <4>1, <4>2
        <5> QED
          BY <1>7, <4>1, <4>2, <5>1 DEF ProviderGrant, ProviderTypeOK
      <4>3. CASE live' = live /\ bare' = bare
        BY <1>7, <4>1, <4>3 DEF ProviderGrant, ProviderTypeOK
      <4>4. \/ /\ issued' = issued + 1 /\ live' \subseteq live \union {issued + 1}
               /\ bare' \subseteq bare \union {issued + 1}
            \/ live' = live /\ bare' = bare
        BY <1>7, Zenon DEF ProviderGrant
      <4> QED
        BY <4>2, <4>3, <4>4
    <3>3. boundTo' \in [AnyToken -> AnyClient]
      BY <1>7, <2>1 DEF ProviderGrant, ProviderTypeOK
    <3> QED
      BY <1>7, <3>1, <3>2, <3>3 DEF ProviderGrant, ProviderTypeOK
  <2>3. CallerTypeOK'
    <3> DEFINE a(withRefresh) ==
                 [kind |-> "tokens", access |-> issued + 1,
                  refresh |-> IF withRefresh THEN issued + 1 ELSE NoToken]
    <3>1. ASSUME NEW withRefresh \in BOOLEAN, issued < MaxIssue, Answered(t, a(withRefresh))
          PROVE  CallerTypeOK'
      <4>1. a(withRefresh) \in Answer
        BY <2>1, <3>1 DEF Answer
      <4> QED
        BY <3>1, <4>1, AnsweredType
    <3>2. CASE Answered(t, ErrorAnswer)
      BY <3>2, AnswerTypes, AnsweredType
    <3> QED
      BY <1>7, <3>1, <3>2 DEF ProviderGrant, CarriesRefresh
  <2>4. faults' \in 0 .. MaxFaults
    BY <1>7, FaultType DEF ProviderGrant, HistoryTypeOK
  <2> QED
    BY <1>7, <2>2, <2>3, <2>4 DEF ProviderGrant, TypeOK, ManagerTypeOK, HistoryTypeOK
<1>8. ASSUME NEW t \in Task, CacheTokenResponse(t) PROVE TypeOK'
  <2>1. CallerTypeOK'
    BY <1>8, AnswerTypes DEF CacheTokenResponse, CallerTypeOK, Location
  <2>2. cache' \in [Manager -> CacheEntry]
    <3>1. answer[t].access \in AnyToken /\ answer[t].refresh \in AnyToken
      BY DEF CallerTypeOK, Answer
    <3>2. ClientOr(NoClient, cache[Owner[t]].client) \in AnyClient
      BY ClientOrType
    <3> QED
      BY <1>8, <3>1, <3>2 DEF CacheTokenResponse, ManagerTypeOK, CacheEntry
  <2> QED
    BY <1>8, <2>1, <2>2 DEF CacheTokenResponse, TypeOK, ManagerTypeOK, ProviderTypeOK, HistoryTypeOK
<1>9. ASSUME NEW t \in Task, SaveToken(t) PROVE TypeOK'
  <2>1. CallerTypeOK'
    BY <1>9, ReturnType DEF SaveToken
  <2>2. lock' \in [Manager -> Task \union {NoTask}]
    BY <1>9, DropType DEF SaveToken
  <2>3. store' \in StoreEntry
    BY <1>9 DEF SaveToken, ManagerTypeOK, StoreEntry
  <2>4. replaced' \in [Manager -> SUBSET AnyToken]
    BY <1>9 DEF SaveToken, HistoryTypeOK, CallerTypeOK, ManagerTypeOK, CacheEntry
  <2>5. faults' \in 0 .. MaxFaults
    BY <1>9, FaultType DEF SaveToken, HistoryTypeOK
  <2> QED
    BY <1>9, <2>1, <2>2, <2>3, <2>4, <2>5
    DEF SaveToken, TypeOK, ManagerTypeOK, ProviderTypeOK, HistoryTypeOK
<1>10. ASSUME NEW t \in Task, RetryWithStored(t) PROVE TypeOK'
  <2>1. CallerTypeOK'
    BY <1>10, ReturnType, GoToType, SendType DEF RetryWithStored
  <2>2. lock' \in [Manager -> Task \union {NoTask}]
    BY <1>10, DropType DEF RetryWithStored, ManagerTypeOK
  <2>3. cache' \in [Manager -> CacheEntry]
    BY <1>10, InstallType DEF RetryWithStored
  <2> QED
    BY <1>10, <2>1, <2>2, <2>3
    DEF RetryWithStored, TypeOK, ManagerTypeOK, ProviderTypeOK, HistoryTypeOK
<1>11. ASSUME NEW t \in Task, RefreshFailed(t) PROVE TypeOK'
  <2>1. CallerTypeOK'
    BY <1>11, ReturnType, GoToType DEF RefreshFailed
  <2>2. lock' \in [Manager -> Task \union {NoTask}]
    BY <1>11, DropType DEF RefreshFailed
  <2> QED
    BY <1>11, <2>1, <2>2 DEF RefreshFailed, TypeOK, ManagerTypeOK, ProviderTypeOK, HistoryTypeOK
<1>12. ASSUME NEW t \in Task, GrantFailed(t) PROVE TypeOK'
  <2>1. CallerTypeOK'
    BY <1>12, ReturnType DEF GrantFailed
  <2>2. lock' \in [Manager -> Task \union {NoTask}]
    BY <1>12, DropType DEF GrantFailed
  <2> QED
    BY <1>12, <2>1, <2>2 DEF GrantFailed, TypeOK, ManagerTypeOK, ProviderTypeOK, HistoryTypeOK
<1>13. ASSUME NEW m \in Manager, Crash(m) PROVE TypeOK'
  <2>1. CallerTypeOK'
    BY <1>13, AnswerTypes DEF Crash, CallerTypeOK, Location
  <2>2. ManagerTypeOK'
    BY <1>13 DEF Crash, ManagerTypeOK, CacheEntry, EmptyCache
  <2>3. orphans' \subseteq [token : AnyToken, client : AnyClient]
    BY <1>13, WireType DEF Crash, HistoryTypeOK
  <2>4. replaced' \in [Manager -> SUBSET AnyToken] /\ losses' \in {"none", "token"}
    BY <1>13 DEF Crash, HistoryTypeOK, LossesOf
  <2>5. faults' \in 0 .. MaxFaults
    BY <1>13, FaultType DEF Crash
  <2> QED
    BY <1>13, <2>1, <2>2, <2>3, <2>4, <2>5 DEF Crash, TypeOK, ProviderTypeOK, HistoryTypeOK
<1>14. ASSUME NEW a \in AnyToken, Expire(a) PROVE TypeOK'
  BY <1>14 DEF Expire, TypeOK, CallerTypeOK, ManagerTypeOK, ProviderTypeOK, HistoryTypeOK
<1>15. ASSUME NEW a \in AnyToken, Revoke(a) PROVE TypeOK'
  BY <1>15, FaultType
  DEF Revoke, TypeOK, CallerTypeOK, ManagerTypeOK, ProviderTypeOK, HistoryTypeOK
<1>16. ASSUME NEW o \in orphans, ProviderOrphan(o) PROVE TypeOK'
  <2>1. o.client \in AnyClient
    BY DEF HistoryTypeOK
  <2>2. ProviderTypeOK'
    BY <1>16, <2>1, RotateType DEF ProviderOrphan, ProviderTypeOK
  <2> QED
    BY <1>16, <2>2 DEF ProviderOrphan, TypeOK, CallerTypeOK, ManagerTypeOK, HistoryTypeOK
<1>17. ASSUME NEW t \in Task, Abandon(t) PROVE TypeOK'
  <2>1. CallerTypeOK'
    BY <1>17, ReturnType DEF Abandon
  <2>2. lock' \in [Manager -> Task \union {NoTask}]
    BY <1>17, DropType DEF Abandon, ManagerTypeOK
  <2>3. orphans' \subseteq [token : AnyToken, client : AnyClient] /\ losses' \in {"none", "token"}
    BY <1>17, WireType DEF Abandon, HistoryTypeOK, LossesOf
  <2>4. faults' \in 0 .. MaxFaults
    BY <1>17, FaultType DEF Abandon
  <2> QED
    BY <1>17, <2>1, <2>2, <2>3, <2>4
    DEF Abandon, TypeOK, ManagerTypeOK, ProviderTypeOK, HistoryTypeOK
<1>18. ASSUME NEW n \in Neighbour, ReadFile(n) PROVE TypeOK'
  <2>1. copies' \subseteq [by : Neighbour, entry : StoreEntry]
    BY <1>18 DEF ReadFile, HistoryTypeOK, ManagerTypeOK
  <2>2. faults' \in 0 .. MaxFaults
    BY <1>18, FaultType DEF ReadFile
  <2> QED
    BY <1>18, <2>1, <2>2
    DEF ReadFile, TypeOK, CallerTypeOK, ManagerTypeOK, ProviderTypeOK, HistoryTypeOK
<1>19. ASSUME NEW c \in copies, RewriteFile(c) PROVE TypeOK'
  <2>1. store' \in StoreEntry /\ copies' \subseteq [by : Neighbour, entry : StoreEntry]
    BY <1>19 DEF RewriteFile, HistoryTypeOK
  <2>2. replaced' \in [Manager -> SUBSET AnyToken] /\ losses' \in {"none", "token"}
    BY <1>19 DEF RewriteFile, HistoryTypeOK
  <2> QED
    BY <1>19, <2>1, <2>2
    DEF RewriteFile, TypeOK, CallerTypeOK, ManagerTypeOK, ProviderTypeOK, HistoryTypeOK
<1>20. CASE UNCHANGED vars
  BY <1>20 DEF vars, TypeOK, CallerTypeOK, ManagerTypeOK, ProviderTypeOK, HistoryTypeOK
<1> QED
  BY <1>1, <1>2, <1>3, <1>4, <1>5, <1>6, <1>7, <1>8, <1>9, <1>10, <1>11, <1>12, <1>13,
     <1>14, <1>15, <1>16, <1>17, <1>18, <1>19, <1>20
  DEF Next, Step, Provider

(* Every variable keeps its type: the lock of a manager is held by one of    *)
(* the tasks or free, and the provider accepts only what it has issued.      *)
THEOREM TypeCorrect == Spec => []TypeOK
<1> QED
  BY InitTypeOK, NextTypeOK, PTL DEF Spec

-----------------------------------------------------------------------------
(* Singleflight.                                                           *)

\* A step of t that moves it from pc[t] to `where`, and what it does to the lock.
LEMMA OneTaskMoves ==
  ASSUME TypeOK, Singleflight, NEW t \in Task, NEW where \in Location,
         pc' = [pc EXCEPT ![t] = where],
         \/ lock' = lock /\ (Critical(t) <=> Critical(t)')
         \/ Take(t) /\ ~Critical(t) /\ Critical(t)'
         \/ Drop(t) /\ Critical(t) /\ ~Critical(t)'
  PROVE  Singleflight'
<1> SUFFICES ASSUME NEW u \in Task PROVE (Critical(u) <=> lock[Owner[u]] = u)'
  BY DEF Singleflight
<1>0. /\ pc \in [Task -> Location]
      /\ lock \in [Manager -> Task \union {NoTask}]
      /\ Owner[t] \in Manager /\ Owner[u] \in Manager
      /\ NoTask \notin Task
      /\ Critical(t) <=> lock[Owner[t]] = t
      /\ Critical(u) <=> lock[Owner[u]] = u
  BY ConstantsAssumption DEF TypeOK, CallerTypeOK, ManagerTypeOK, Singleflight
<1>1. u # t => (Critical(u)' <=> Critical(u))
  BY <1>0 DEF Critical
<1> QED
  BY <1>0, <1>1 DEF Take, Drop

LEMMA NextSingleflight == TypeOK /\ Singleflight /\ [Next]_vars => Singleflight'
<1> SUFFICES ASSUME TypeOK, Singleflight, [Next]_vars PROVE Singleflight'
  OBVIOUS
<1>0. pc \in [Task -> Location]
  BY DEF TypeOK, CallerTypeOK
<1> USE <1>0
<1>1. ASSUME UNCHANGED <<pc, lock>> PROVE Singleflight'
  BY <1>1 DEF Singleflight, Critical
<1>2. ASSUME NEW t \in Task, GetToken(t) PROVE Singleflight'
  BY <1>2, OneTaskMoves DEF GetToken, Return, GoTo, Critical, Location
<1>3. ASSUME NEW t \in Task, LockForRefresh(t) PROVE Singleflight'
  BY <1>3, OneTaskMoves DEF LockForRefresh, Return, GoTo, Send, Critical, Location
<1>4. ASSUME NEW t \in Task, LockForAcquire(t) PROVE Singleflight'
  BY <1>4, OneTaskMoves DEF LockForAcquire, Return, GoTo, Send, Critical, Location
<1>5. ASSUME NEW t \in Task, Register(t) PROVE Singleflight'
  BY <1>5, OneTaskMoves DEF Register, Return, Send, Critical, Location
<1>6. ASSUME NEW t \in Task, Provider(t) PROVE Singleflight'
  <2>1. /\ pc[t] = "at_provider" /\ lock' = lock
        /\ pc' = [pc EXCEPT ![t] = "answered"]
    BY <1>6 DEF Provider, ProviderRefresh, ProviderGrant, Answered
  <2> QED
    BY <2>1, OneTaskMoves DEF Critical, Location
<1>7. ASSUME NEW t \in Task, CacheTokenResponse(t) PROVE Singleflight'
  BY <1>7, OneTaskMoves DEF CacheTokenResponse, Critical, Location
<1>8. ASSUME NEW t \in Task, SaveToken(t) PROVE Singleflight'
  BY <1>8, OneTaskMoves DEF SaveToken, Return, Critical, Location
<1>9. ASSUME NEW t \in Task, RetryWithStored(t) PROVE Singleflight'
  BY <1>9, OneTaskMoves DEF RetryWithStored, Return, GoTo, Send, Critical, Location
<1>10. ASSUME NEW t \in Task, RefreshFailed(t) PROVE Singleflight'
  BY <1>10, OneTaskMoves DEF RefreshFailed, Return, GoTo, Critical, Location
<1>11. ASSUME NEW t \in Task, GrantFailed(t) PROVE Singleflight'
  BY <1>11, OneTaskMoves DEF GrantFailed, Return, Critical, Location
<1>12. ASSUME NEW m \in Manager, Crash(m) PROVE Singleflight'
  <2> SUFFICES ASSUME NEW u \in Task PROVE (Critical(u) <=> lock[Owner[u]] = u)'
    BY DEF Singleflight
  <2>1. /\ lock \in [Manager -> Task \union {NoTask}]
        /\ Owner[u] \in Manager
        /\ NoTask \notin Task
        /\ Critical(u) <=> lock[Owner[u]] = u
    BY ConstantsAssumption DEF TypeOK, ManagerTypeOK, Singleflight
  <2> QED
    BY <1>12, <2>1 DEF Crash, Critical
<1>13. ASSUME NEW t \in Task, Abandon(t) PROVE Singleflight'
  BY <1>13, OneTaskMoves DEF Abandon, Return, Critical, Location
<1> QED
  BY <1>1, <1>2, <1>3, <1>4, <1>5, <1>6, <1>7, <1>8, <1>9, <1>10, <1>11, <1>12, <1>13
  DEF Next, Step, AdoptPersisted, Expire, Revoke, ProviderOrphan, ReadFile, RewriteFile, vars

(* Only the holder of a manager's refresh lock has a token request out or   *)
(* an answer in hand, however many tasks share the manager.                 *)
THEOREM OnlyOneInFlight == Spec => []Singleflight
<1>1. Init => Singleflight
  BY ConstantsAssumption DEF Init, Singleflight, Critical
<1> QED
  BY <1>1, InitTypeOK, NextTypeOK, NextSingleflight, PTL DEF Spec

-----------------------------------------------------------------------------
(* NoRetiredReplay.                                                        *)

\* The new refresh token a task has received and not yet stored.
InHand(t) == CASE pc[t] = "answered" -> answer[t].refresh
               [] pc[t] = "saving" /\ Rotates /\ cache[Owner[t]].access \notin bare ->
                      cache[Owner[t]].refresh
               [] OTHER -> NoToken

\* Every refresh token anyone holds was issued.
Bounded ==
    /\ store.refresh <= issued
    /\ \A c \in copies : c.entry.refresh <= issued
    /\ \A m \in Manager : cache[m].refresh <= issued /\ replaced[m] \subseteq 1 .. issued
    /\ \A t \in Task : presented[t] <= issued /\ answer[t].refresh <= issued

\* What a task keeps of a request while it has the lock, and only then.  A
\* provider that rotates omits the refresh token only where it says so.
RequestFits(t) ==
    /\ presented[t] # NoToken => Critical(t)
    /\ pc[t] = "at_provider" /\ flow[t] = "grant" => presented[t] = NoToken
    /\ answer[t].kind # "none" => pc[t] = "answered"
    /\ answer[t].refresh # NoToken => answer[t].kind = "tokens"
    /\ Rotates /\ answer[t].kind = "tokens" /\ (presented[t] # NoToken \/ answer[t].access \notin bare)
         => answer[t].refresh # NoToken
    /\ Rotates /\ pc[t] = "saving" /\ presented[t] # NoToken
         => cache[Owner[t]].refresh # presented[t]

RequestShape == \A t \in Task : RequestFits(t)

\* Nobody else has seen refresh token n of task t.
Private(n, t) ==
    /\ store.refresh # n
    /\ \A c \in copies : c.entry.refresh # n
    /\ \A m \in Manager : n \notin replaced[m]
    /\ \A m \in Manager \ {Owner[t]} : cache[m].refresh # n
    /\ \A u \in Task : presented[u] # n
    /\ \A u \in Task \ {t} : answer[u].refresh # n

HandsPrivate == \A t \in Task : InHand(t) # NoToken => Private(InHand(t), t)

\* No manager can reach a token it has replaced, from any place it reads.
OutOfReach ==
    /\ \A m \in Manager : store.refresh \notin replaced[m] /\ cache[m].refresh \notin replaced[m]
    /\ \A t \in Task : presented[t] \notin replaced[Owner[t]]

ReplayInv == TypeOK /\ Singleflight /\ Bounded /\ RequestShape /\ HandsPrivate /\ OutOfReach

LEMMA Typed ==
  ASSUME TypeOK
  PROVE  /\ issued \in Nat /\ store.refresh \in Nat
         /\ \A c \in copies : c.entry.refresh \in Nat
         /\ \A m \in Manager : cache[m].refresh \in Nat
         /\ \A t \in Task : /\ presented[t] \in Nat /\ answer[t].refresh \in Nat
                          /\ Owner[t] \in Manager
<1>1. AnyToken \subseteq Nat
  BY ConstantsAssumption DEF AnyToken
<1> QED
  BY <1>1, OwnerType DEF TypeOK, CallerTypeOK, ManagerTypeOK, ProviderTypeOK, HistoryTypeOK,
     Answer, CacheEntry, StoreEntry

\* Two tasks of one manager are never both critical.
LEMMA OneCritical ==
  ASSUME Singleflight, NEW t \in Task, NEW u \in Task, Critical(t), Critical(u),
         Owner[t] = Owner[u]
  PROVE  t = u
  BY DEF Singleflight

LEMMA InHandCritical ==
  ASSUME NEW t \in Task, InHand(t) # NoToken
  PROVE  Critical(t) /\ pc[t] \in {"answered", "saving"}
  BY DEF InHand, Critical

\* A step of t after which t has no answer in hand, and which moves tokens only
\* from the store into t's cache, and from the cache or the store into a request.
LEMMA Resume ==
  ASSUME ReplayInv, NEW t \in Task, UNCHANGED <<store, issued, replaced, copies, bare>>,
         pc'[t] \notin {"answered", "saving"},
         answer'[t].kind = "none", answer'[t].refresh = NoToken,
         \A u \in Task \ {t} : /\ pc'[u] = pc[u] /\ answer'[u] = answer[u]
                              /\ presented'[u] = presented[u] /\ flow'[u] = flow[u],
         \A m \in Manager \ {Owner[t]} : cache'[m] = cache[m],
         cache'[Owner[t]].refresh \in {cache[Owner[t]].refresh, store.refresh},
         presented'[t] \in {NoToken, cache[Owner[t]].refresh, store.refresh},
         presented'[t] # NoToken => Critical(t)',
         pc'[t] = "at_provider" /\ flow'[t] = "grant" => presented'[t] = NoToken,
         \/ cache' = cache /\ presented'[t] = NoToken
         \/ \A u \in Task \ {t} : Owner[u] = Owner[t] => ~Critical(u)
  PROVE  Bounded' /\ RequestShape' /\ HandsPrivate' /\ OutOfReach'
<1> USE Typed DEF ReplayInv
<1>0. \A u \in Task \ {t} : Critical(u) => cache'[Owner[u]] = cache[Owner[u]]
  OBVIOUS
<1>1. Bounded'
  BY DEF Bounded
<1>2. RequestShape'
  <2> SUFFICES ASSUME NEW u \in Task PROVE RequestFits(u)'
    BY DEF RequestShape
  <2>1. CASE u = t
    BY <2>1 DEF RequestFits
  <2>2. CASE u # t
    <3>1. pc[u] = "saving" => cache'[Owner[u]].refresh = cache[Owner[u]].refresh
      BY <1>0, <2>2 DEF Critical
    <3> QED
      BY <2>2, <3>1 DEF RequestShape, RequestFits, Critical
  <2> QED
    BY <2>1, <2>2
<1>3. HandsPrivate'
  <2> SUFFICES ASSUME NEW u \in Task, InHand(u)' # NoToken PROVE Private(InHand(u), u)'
    BY DEF HandsPrivate
  <2>1. u # t /\ pc[u] \in {"answered", "saving"} /\ Critical(u)
    BY DEF InHand, Critical
  <2>2. InHand(u)' = InHand(u) /\ InHand(u) # NoToken
    BY <1>0, <2>1 DEF InHand
  <2>3. Private(InHand(u), u)
    BY <2>2 DEF HandsPrivate
  <2>4. presented'[t] # InHand(u)
    BY <2>1, <2>2, <2>3 DEF Private
  <2>5. \A m \in Manager \ {Owner[u]} : cache'[m].refresh # InHand(u)
    BY <2>1, <2>2, <2>3 DEF Private
  <2> QED
    BY <2>1, <2>2, <2>3, <2>4, <2>5 DEF Private
<1>4. OutOfReach'
  <2>1. \A m \in Manager : NoToken \notin replaced[m]
    BY DEF Bounded
  <2>2. \A m \in Manager : (store.refresh \notin replaced[m] /\ cache[m].refresh \notin replaced[m])'
    BY DEF OutOfReach
  <2>3. ASSUME NEW u \in Task PROVE presented'[u] \notin replaced'[Owner[u]]
    BY <2>1 DEF OutOfReach
  <2> QED
    BY <2>2, <2>3 DEF OutOfReach
<1> QED
  BY <1>1, <1>2, <1>3, <1>4

\* The provider answers t; a refresh token in the answer is the one just issued.
LEMMA Receive ==
  ASSUME ReplayInv, NEW t \in Task, pc[t] = "at_provider", NEW a,
         UNCHANGED <<store, cache, replaced, presented, flow, copies>>,
         pc' = [pc EXCEPT ![t] = "answered"], answer' = [answer EXCEPT ![t] = a],
         issued' \in Nat, issued' >= issued, bare \subseteq bare',
         a.refresh # NoToken => a.kind = "tokens",
         Rotates /\ a.kind = "tokens" /\ (presented[t] # NoToken \/ a.access \notin bare')
            => a.refresh # NoToken,
         a.refresh = NoToken \/ (a.refresh = issued + 1 /\ issued' = issued + 1)
  PROVE  Bounded' /\ RequestShape' /\ HandsPrivate' /\ OutOfReach'
<1> USE Typed DEF ReplayInv
<1>0. /\ pc \in [Task -> Location] /\ answer \in [Task -> Answer]
      /\ Critical(t)
  BY DEF TypeOK, CallerTypeOK, Critical
<1>1. Bounded'
  <2>1. \A m \in Manager : replaced[m] \subseteq 1 .. issued'
    BY DEF Bounded
  <2> QED
    BY <1>0, <2>1 DEF Bounded
<1>2. RequestShape'
  <2> SUFFICES ASSUME NEW u \in Task PROVE RequestFits(u)'
    BY DEF RequestShape
  <2>1. CASE u = t
    BY <1>0, <2>1 DEF RequestFits, Critical
  <2>2. CASE u # t
    BY <1>0, <2>2 DEF RequestShape, RequestFits, Critical
  <2> QED
    BY <2>1, <2>2
<1>3. HandsPrivate'
  <2> SUFFICES ASSUME NEW u \in Task, InHand(u)' # NoToken PROVE Private(InHand(u), u)'
    BY DEF HandsPrivate
  <2>1. CASE u = t
    <3>1. InHand(u)' = issued + 1
      BY <1>0, <2>1 DEF InHand
    <3>2. /\ store.refresh # issued + 1
          /\ \A c \in copies : c.entry.refresh # issued + 1
          /\ \A m \in Manager : issued + 1 \notin replaced[m] /\ cache[m].refresh # issued + 1
          /\ \A w \in Task : presented[w] # issued + 1 /\ answer[w].refresh # issued + 1
      BY DEF Bounded
    <3> QED
      BY <1>0, <2>1, <3>1, <3>2 DEF Private
  <2>2. CASE u # t
    <3>1. InHand(u)' = InHand(u) /\ InHand(u) # NoToken
      BY <1>0, <2>2 DEF InHand
    <3>2. Private(InHand(u), u) /\ InHand(u) <= issued
      BY <3>1 DEF HandsPrivate, Bounded, InHand
    <3>3. a.refresh # InHand(u)
      BY <3>1, <3>2 DEF InHand
    <3> QED
      BY <1>0, <2>2, <3>1, <3>2, <3>3 DEF Private
  <2> QED
    BY <2>1, <2>2
<1>4. OutOfReach'
  BY DEF OutOfReach
<1> QED
  BY <1>1, <1>2, <1>3, <1>4

LEMMA CacheTokenResponseStep ==
  ASSUME ReplayInv, NEW t \in Task, CacheTokenResponse(t)
  PROVE  Bounded' /\ RequestShape' /\ HandsPrivate' /\ OutOfReach'
<1> USE Typed DEF ReplayInv
<1> DEFINE n == IF answer[t].refresh # NoToken THEN answer[t].refresh ELSE cache[Owner[t]].refresh
<1>0. /\ pc \in [Task -> Location] /\ answer \in [Task -> Answer] /\ cache \in [Manager -> CacheEntry]
      /\ Critical(t) /\ n <= issued
      /\ answer[t].refresh # NoToken => n = InHand(t) /\ Private(n, t)
      /\ RequestFits(t)
  BY DEF CacheTokenResponse, TypeOK, CallerTypeOK, ManagerTypeOK, Critical, Bounded, RequestShape,
     InHand, HandsPrivate
<1>1. /\ UNCHANGED <<store, issued, replaced, presented, flow, copies, bare>>
      /\ pc' = [pc EXCEPT ![t] = "saving"]
      /\ answer' = [answer EXCEPT ![t] = NoAnswer]
      /\ answer[t].kind = "tokens"
      /\ cache'[Owner[t]].refresh = n /\ cache'[Owner[t]].access = answer[t].access
      /\ \A m \in Manager \ {Owner[t]} : cache'[m] = cache[m]
  BY <1>0 DEF CacheTokenResponse
<1> HIDE DEF n
<1>2. \A u \in Task \ {t} : Critical(u) => Owner[u] # Owner[t] /\ cache'[Owner[u]] = cache[Owner[u]]
  BY <1>0, <1>1, OneCritical
<1>3. Bounded'
  BY <1>0, <1>1 DEF Bounded, NoAnswer
<1>4. RequestShape'
  <2> SUFFICES ASSUME NEW u \in Task PROVE RequestFits(u)'
    BY DEF RequestShape
  <2>1. CASE u = t
    <3>1. Rotates /\ presented[t] # NoToken => n # presented[t]
      BY <1>0, <1>1 DEF RequestFits, Private
    <3> QED
      BY <1>0, <1>1, <2>1, <3>1 DEF RequestFits, Critical, NoAnswer
  <2>2. CASE u # t
    <3>1. RequestFits(u) /\ pc'[u] = pc[u] /\ answer'[u] = answer[u]
      BY <1>0, <1>1, <2>2 DEF RequestShape
    <3> QED
      BY <1>1, <1>2, <2>2, <3>1 DEF RequestFits, Critical
  <2> QED
    BY <2>1, <2>2
<1>5. HandsPrivate'
  <2> SUFFICES ASSUME NEW u \in Task, InHand(u)' # NoToken PROVE Private(InHand(u), u)'
    BY DEF HandsPrivate
  <2>1. CASE u = t
    <3>1. InHand(u)' = n /\ Rotates /\ answer[t].access \notin bare
      BY <1>0, <1>1, <2>1 DEF InHand
    <3>2. Private(n, t)
      BY <1>0, <1>1, <3>1 DEF RequestFits
    <3> QED
      BY <1>0, <1>1, <2>1, <3>1, <3>2 DEF Private, NoAnswer
  <2>2. CASE u # t
    <3>1. pc[u] \in {"answered", "saving"} /\ Critical(u)
      BY <1>0, <1>1, <2>2 DEF InHand, Critical
    <3>2. InHand(u)' = InHand(u)
      BY <1>0, <1>1, <1>2, <2>2, <3>1 DEF InHand
    <3>3. Private(InHand(u), u) /\ Owner[u] # Owner[t]
      BY <1>2, <2>2, <3>1, <3>2 DEF HandsPrivate
    <3>4. n # InHand(u)
      BY <2>2, <3>3 DEF Private, n
    <3> QED
      BY <1>0, <1>1, <2>2, <3>2, <3>3, <3>4 DEF Private, NoAnswer
  <2> QED
    BY <2>1, <2>2
<1>6. OutOfReach'
  <2>1. n \notin replaced[Owner[t]]
    BY <1>0 DEF OutOfReach, Private, n
  <2> QED
    BY <1>1, <2>1 DEF OutOfReach
<1> QED
  BY <1>3, <1>4, <1>5, <1>6

LEMMA SaveTokenStep ==
  ASSUME ReplayInv, NEW t \in Task, SaveToken(t)
  PROVE  Bounded' /\ RequestShape' /\ HandsPrivate' /\ OutOfReach'
<1> USE Typed DEF ReplayInv
<1> DEFINE n == cache[Owner[t]].refresh
<1>0. /\ pc \in [Task -> Location] /\ answer \in [Task -> Answer]
      /\ presented \in [Task -> AnyToken]
      /\ replaced \in [Manager -> SUBSET AnyToken]
      /\ Critical(t) /\ RequestFits(t)
  BY DEF SaveToken, TypeOK, CallerTypeOK, HistoryTypeOK, Critical, RequestShape
<1>1. /\ UNCHANGED <<cache, issued, flow, copies, bare>>
      /\ pc[t] = "saving"
      /\ pc' = [pc EXCEPT ![t] = "idle"]
      /\ answer' = [answer EXCEPT ![t] = NoAnswer]
      /\ presented' = [presented EXCEPT ![t] = NoToken]
      /\ \/ store' = store /\ replaced' = replaced
         \/ /\ store'.refresh = n
            /\ \A m \in Manager \ {Owner[t]} : replaced'[m] = replaced[m] \ {n}
            /\ \/ replaced'[Owner[t]] = replaced[Owner[t]]
               \/ /\ Rotates /\ presented[t] # NoToken
                  /\ replaced'[Owner[t]] = replaced[Owner[t]] \union {presented[t]}
  BY <1>0 DEF SaveToken, Return
<1>2. \A u \in Task \ {t} : Owner[u] = Owner[t] => presented[u] = NoToken
  BY <1>0, OneCritical DEF RequestShape, RequestFits
<1>3. Bounded'
  <2>1. \A m \in Manager : replaced'[m] \subseteq 1 .. issued
    BY <1>1 DEF Bounded
  <2> QED
    BY <1>0, <1>1, <2>1 DEF Bounded, NoAnswer
<1>4. RequestShape'
  <2> SUFFICES ASSUME NEW u \in Task PROVE RequestFits(u)'
    BY DEF RequestShape
  <2> QED
    BY <1>0, <1>1 DEF RequestShape, RequestFits, Critical, NoAnswer
<1>5. HandsPrivate'
  <2> SUFFICES ASSUME NEW u \in Task, InHand(u)' # NoToken PROVE Private(InHand(u), u)'
    BY DEF HandsPrivate
  <2>1. u # t /\ pc[u] \in {"answered", "saving"} /\ InHand(u)' = InHand(u)
    BY <1>0, <1>1 DEF InHand
  <2>2. Private(InHand(u), u) /\ Critical(u)
    BY <2>1, InHandCritical DEF HandsPrivate
  <2>3. InHand(u) # n
    <3>1. Owner[u] # Owner[t]
      BY <1>0, <2>1, <2>2, OneCritical
    <3> QED
      BY <2>2, <3>1 DEF Private
  <2>4. \A m \in Manager : InHand(u) \notin replaced'[m]
    BY <1>1, <2>2 DEF Private
  <2> QED
    BY <1>0, <1>1, <2>1, <2>2, <2>3, <2>4 DEF Private, NoAnswer
<1>6. OutOfReach'
  <2>1. ASSUME NEW m \in Manager
        PROVE  store'.refresh \notin replaced'[m] /\ cache'[m].refresh \notin replaced'[m]
    BY <1>0, <1>1 DEF OutOfReach, RequestFits
  <2>2. ASSUME NEW u \in Task PROVE presented'[u] \notin replaced'[Owner[u]]
    <3>1. NoToken \notin replaced'[Owner[u]]
      BY <1>1 DEF Bounded
    <3>2. Owner[u] = Owner[t] => presented'[u] = NoToken
      BY <1>0, <1>1, <1>2
    <3> QED
      BY <1>0, <1>1, <3>1, <3>2 DEF OutOfReach
  <2> QED
    BY <2>1, <2>2 DEF OutOfReach
<1> QED
  BY <1>3, <1>4, <1>5, <1>6

LEMMA CrashStep ==
  ASSUME ReplayInv, NEW m \in Manager, Crash(m)
  PROVE  Bounded' /\ RequestShape' /\ HandsPrivate' /\ OutOfReach'
<1> USE Typed DEF ReplayInv
<1>0. cache \in [Manager -> CacheEntry] /\ replaced \in [Manager -> SUBSET AnyToken]
  BY DEF TypeOK, ManagerTypeOK, HistoryTypeOK
<1>1. /\ UNCHANGED <<store, issued, flow, copies, bare>>
      /\ cache'[m].refresh = NoToken /\ replaced'[m] = {}
      /\ \A k \in Manager \ {m} : cache'[k] = cache[k] /\ replaced'[k] = replaced[k]
      /\ \A t \in Task : Owner[t] = m =>
            /\ pc'[t] = "idle" /\ presented'[t] = NoToken
            /\ answer'[t].kind = "none" /\ answer'[t].refresh = NoToken
      /\ \A t \in Task : Owner[t] # m =>
            /\ pc'[t] = pc[t] /\ presented'[t] = presented[t] /\ answer'[t] = answer[t]
  BY <1>0 DEF Crash, EmptyCache, NoAnswer
<1>2. Bounded'
  BY <1>1 DEF Bounded
<1>3. RequestShape'
  <2> SUFFICES ASSUME NEW u \in Task PROVE RequestFits(u)'
    BY DEF RequestShape
  <2> QED
    BY <1>1 DEF RequestShape, RequestFits, Critical
<1>4. HandsPrivate'
  <2> SUFFICES ASSUME NEW u \in Task, InHand(u)' # NoToken PROVE Private(InHand(u), u)'
    BY DEF HandsPrivate
  <2>1. Owner[u] # m /\ InHand(u)' = InHand(u)
    BY <1>1 DEF InHand
  <2>2. Private(InHand(u), u)
    BY <2>1 DEF HandsPrivate
  <2> QED
    BY <1>1, <2>1, <2>2 DEF Private
<1>5. OutOfReach'
  <2>1. \A k \in Manager : NoToken \notin replaced[k]
    BY DEF Bounded
  <2> QED
    BY <1>1, <2>1 DEF OutOfReach
<1> QED
  BY <1>2, <1>3, <1>4, <1>5

\* A neighbour puts an older entry back: its token is no longer out of reach.
LEMMA RewriteStep ==
  ASSUME ReplayInv, NEW c \in copies, RewriteFile(c)
  PROVE  Bounded' /\ RequestShape' /\ HandsPrivate' /\ OutOfReach'
<1> USE Typed DEF ReplayInv
<1>1. /\ UNCHANGED <<cache, pc, flow, presented, answer, issued, bare>>
      /\ store' = c.entry /\ copies' \subseteq copies
      /\ \A m \in Manager : replaced'[m] = replaced[m] \ {c.entry.refresh}
  BY DEF RewriteFile
<1>2. Bounded'
  BY <1>1 DEF Bounded
<1>3. RequestShape'
  BY <1>1 DEF RequestShape, RequestFits, Critical
<1>4. HandsPrivate'
  BY <1>1 DEF HandsPrivate, Private, InHand
<1>5. OutOfReach'
  BY <1>1 DEF OutOfReach
<1> QED
  BY <1>2, <1>3, <1>4, <1>5

LEMMA ReplayInit == Init => Bounded /\ RequestShape /\ HandsPrivate /\ OutOfReach
<1> SUFFICES ASSUME Init PROVE Bounded /\ RequestShape /\ HandsPrivate /\ OutOfReach
  OBVIOUS
<1>1. /\ issued = 0 /\ store.refresh = 0 /\ copies = {}
      /\ \A m \in Manager : cache[m].refresh = 0 /\ replaced[m] = {}
      /\ \A t \in Task : /\ presented[t] = 0 /\ pc[t] = "idle"
                       /\ answer[t].kind = "none" /\ answer[t].refresh = 0
  BY DEF Init, EmptyStore, EmptyCache, NoAnswer
<1> QED
  BY <1>1, OwnerType DEF Bounded, RequestShape, RequestFits, HandsPrivate, OutOfReach, InHand

LEMMA ReplayNext ==
  ASSUME ReplayInv, [Next]_vars
  PROVE  Bounded' /\ RequestShape' /\ HandsPrivate' /\ OutOfReach'
<1> DEFINE Goal == Bounded' /\ RequestShape' /\ HandsPrivate' /\ OutOfReach'
<1> USE Typed DEF ReplayInv
<1>0. /\ pc \in [Task -> Location] /\ answer \in [Task -> Answer] /\ flow \in [Task -> Flow]
      /\ presented \in [Task -> AnyToken] /\ cache \in [Manager -> CacheEntry]
      /\ \A t \in Task : ~Critical(t) =>
            presented[t] = NoToken /\ answer[t].kind = "none" /\ answer[t].refresh = NoToken
      /\ NoAnswer.kind = "none" /\ NoAnswer.refresh = NoToken
  BY DEF TypeOK, CallerTypeOK, ManagerTypeOK, RequestShape, RequestFits, Critical, NoAnswer
<1>a. ASSUME NEW t \in Task, lock[Owner[t]] = NoTask
      PROVE  \A u \in Task \ {t} : Owner[u] = Owner[t] => ~Critical(u)
  BY <1>a, ConstantsAssumption DEF Singleflight
<1>b. ASSUME NEW t \in Task, Critical(t)
      PROVE  \A u \in Task \ {t} : Owner[u] = Owner[t] => ~Critical(u)
  BY <1>b, OneCritical
<1>1. ASSUME NEW t \in Task, AdoptPersisted(t) PROVE Goal
  <2>1. ~Critical(t) /\ pc[t] = "idle"
    BY <1>1 DEF AdoptPersisted, Critical
  <2>2. cache'[Owner[t]].refresh = store.refresh
        /\ \A m \in Manager \ {Owner[t]} : cache'[m] = cache[m]
    BY <1>0, <1>1 DEF AdoptPersisted, InstallPersisted
  <2>3. /\ UNCHANGED <<store, issued, replaced, copies, bare, pc, presented, answer, flow>>
        /\ lock[Owner[t]] = NoTask
    BY <1>1 DEF AdoptPersisted
  <2> QED
    BY <1>0, <1>a, <2>1, <2>2, <2>3, Resume
<1>2. ASSUME NEW t \in Task, GetToken(t) PROVE Goal
  BY <1>0, <1>2, Resume DEF GetToken, Return, GoTo
<1>3. ASSUME NEW t \in Task, LockForRefresh(t) PROVE Goal
  BY <1>0, <1>3, <1>a, Resume DEF LockForRefresh, Return, GoTo, Send, Critical
<1>4. ASSUME NEW t \in Task, LockForAcquire(t) PROVE Goal
  BY <1>0, <1>4, <1>a, Resume DEF LockForAcquire, Return, GoTo, Send, Critical
<1>5. ASSUME NEW t \in Task, Register(t) PROVE Goal
  <2>1. Critical(t)
    BY <1>5 DEF Register, Critical
  <2>2. /\ cache'[Owner[t]].refresh = cache[Owner[t]].refresh
        /\ \A m \in Manager \ {Owner[t]} : cache'[m] = cache[m]
    <3> DEFINE entry == [cache[Owner[t]] EXCEPT !.option = "some", !.client = clients + 1]
    <3>1. entry.refresh = cache[Owner[t]].refresh
      BY <1>0 DEF CacheEntry
    <3>2. cache' = cache \/ cache' = [cache EXCEPT ![Owner[t]] = entry]
      BY <1>5 DEF Register
    <3> HIDE DEF entry
    <3> QED
      BY <1>0, <3>1, <3>2
  <2> QED
    BY <1>0, <1>5, <1>b, <2>1, <2>2, Resume DEF Register, Return, Send
<1>6. ASSUME NEW t \in Task, ProviderRefresh(t) PROVE Goal
  <2>1. PICK a \in {[kind |-> "tokens", access |-> issued + 1,
                     refresh |-> IF Rotates THEN issued + 1 ELSE NoToken],
                    ErrorAnswer, [NoAnswer EXCEPT !.kind = "rejected"]} :
          /\ pc' = [pc EXCEPT ![t] = "answered"] /\ answer' = [answer EXCEPT ![t] = a]
          /\ \/ issued' = issued + 1
             \/ issued' = issued /\ a.refresh = NoToken
    BY <1>6 DEF ProviderRefresh, Rotate, Answered, ErrorAnswer, NoAnswer
  <2>2. /\ pc[t] = "at_provider" /\ UNCHANGED <<store, cache, replaced, presented, flow, copies, bare>>
    BY <1>6 DEF ProviderRefresh, Rotate, Answered
  <2>3. a.refresh # NoToken => a.kind = "tokens"
    BY <2>1 DEF ErrorAnswer, NoAnswer
  <2>4. a.refresh = NoToken \/ (a.refresh = issued + 1 /\ issued' = issued + 1)
    BY <2>1 DEF ErrorAnswer, NoAnswer
  <2>5. issued' \in Nat /\ issued' >= issued
    BY <2>1
  <2>6. Rotates /\ a.kind = "tokens" => a.refresh # NoToken
    BY <2>1 DEF ErrorAnswer, NoAnswer
  <2>7. pc' = [pc EXCEPT ![t] = "answered"] /\ answer' = [answer EXCEPT ![t] = a]
    BY <2>1
  <2>8. bare \subseteq bare'
    BY <2>2
  <2> HIDE DEF ReplayInv
  <2> QED
    BY <2>2, <2>3, <2>4, <2>5, <2>6, <2>7, <2>8, Receive, Zenon
<1>7. ASSUME NEW t \in Task, ProviderGrant(t) PROVE Goal
  <2> DEFINE tokens(w) == [kind |-> "tokens", access |-> issued + 1,
                           refresh |-> IF w THEN issued + 1 ELSE NoToken]
  <2>0. PICK w \in BOOLEAN :
          \/ /\ issued' = issued + 1 /\ Answered(t, tokens(w))
             /\ bare' = IF w THEN bare ELSE bare \union {issued + 1}
          \/ UNCHANGED providerVars /\ Answered(t, ErrorAnswer)
    BY <1>7 DEF ProviderGrant, CarriesRefresh
  <2>1. PICK a \in {tokens(w), ErrorAnswer} :
          /\ pc' = [pc EXCEPT ![t] = "answered"] /\ answer' = [answer EXCEPT ![t] = a]
          /\ \/ /\ issued' = issued + 1
                /\ bare' = IF w THEN bare ELSE bare \union {issued + 1}
             \/ issued' = issued /\ bare' = bare /\ a = ErrorAnswer
    BY <2>0 DEF Answered
  <2>2. /\ pc[t] = "at_provider" /\ flow[t] = "grant"
        /\ UNCHANGED <<store, cache, replaced, presented, flow, copies>>
    BY <1>7 DEF ProviderGrant, Answered
  <2>3. a.refresh # NoToken => a.kind = "tokens"
    BY <2>1 DEF ErrorAnswer, NoAnswer
  <2>4. a.refresh = NoToken \/ (a.refresh = issued + 1 /\ issued' = issued + 1)
    BY <2>1 DEF ErrorAnswer, NoAnswer
  <2>5. issued' \in Nat /\ issued' >= issued /\ bare \subseteq bare'
    BY <2>1
  <2>6. presented[t] = NoToken
    BY <2>2 DEF RequestShape, RequestFits
  <2>7. a.kind = "tokens" /\ a.access \notin bare' => a.refresh # NoToken
    BY <2>1 DEF ErrorAnswer, NoAnswer
  <2>8. pc' = [pc EXCEPT ![t] = "answered"] /\ answer' = [answer EXCEPT ![t] = a]
    BY <2>1
  <2> HIDE DEF ReplayInv
  <2> QED
    BY <2>2, <2>3, <2>4, <2>5, <2>6, <2>7, <2>8, Receive, Zenon
<1>8. ASSUME NEW t \in Task, CacheTokenResponse(t) PROVE Goal
  BY <1>8, CacheTokenResponseStep
<1>9. ASSUME NEW t \in Task, SaveToken(t) PROVE Goal
  BY <1>9, SaveTokenStep
<1>10. ASSUME NEW t \in Task, RetryWithStored(t) PROVE Goal
  <2>1. Critical(t)
    BY <1>10 DEF RetryWithStored, Critical
  <2>2. cache'[Owner[t]].refresh = store.refresh
        /\ \A m \in Manager \ {Owner[t]} : cache'[m] = cache[m]
    BY <1>0, <1>10 DEF RetryWithStored, InstallPersisted
  <2>3. UNCHANGED <<store, issued, replaced, copies, bare>>
    BY <1>10 DEF RetryWithStored
  <2>4. PICK where \in Location \ {"answered", "saving"}, token \in {NoToken, store.refresh} :
          /\ pc' = [pc EXCEPT ![t] = where]
          /\ answer' = [answer EXCEPT ![t] = NoAnswer]
          /\ presented' = [presented EXCEPT ![t] = token]
          /\ \A u \in Task \ {t} : flow'[u] = flow[u]
          /\ where = "at_provider" => flow'[t] = "retry"
          /\ token # NoToken => where = "at_provider"
    BY <1>0, <1>10 DEF RetryWithStored, Return, GoTo, Send, Location
  <2> QED
    BY <1>0, <1>b, <2>1, <2>2, <2>3, <2>4, Resume DEF Critical
<1>11. ASSUME NEW t \in Task, RefreshFailed(t) PROVE Goal
  BY <1>0, <1>11, Resume DEF RefreshFailed, Return, GoTo
<1>12. ASSUME NEW t \in Task, GrantFailed(t) PROVE Goal
  BY <1>0, <1>12, Resume DEF GrantFailed, Return
<1>13. ASSUME NEW m \in Manager, Crash(m) PROVE Goal
  BY <1>13, CrashStep
<1>14. ASSUME UNCHANGED <<cache, store, pc, flow, presented, answer, replaced, bare>>,
              copies' \subseteq copies \union {[by |-> c.by, entry |-> store] : c \in copies'},
              issued' \in {issued, issued + 1}
       PROVE  Goal
  <2>0. \A c \in copies' : c \in copies \/ c.entry = store
    BY <1>14
  <2>1. Bounded'
    <3>1. \A m \in Manager : replaced[m] \subseteq 1 .. issued'
      BY <1>14 DEF Bounded
    <3> QED
      BY <1>14, <2>0, <3>1 DEF Bounded
  <2> QED
    BY <1>14, <2>0, <2>1 DEF RequestShape, RequestFits, HandsPrivate, OutOfReach, Critical, InHand,
       Private
<1>15. ASSUME NEW o \in orphans, ProviderOrphan(o) PROVE Goal
  BY <1>14, <1>15 DEF ProviderOrphan, Rotate
<1>16. ASSUME NEW a \in AnyToken, Expire(a) \/ Revoke(a) PROVE Goal
  BY <1>14, <1>16 DEF Expire, Revoke
<1>17. ASSUME NEW t \in Task, Abandon(t) PROVE Goal
  BY <1>0, <1>17, Resume DEF Abandon, Return
<1>18. ASSUME NEW n \in Neighbour, ReadFile(n) PROVE Goal
  <2>1. copies' \subseteq copies \union {[by |-> c.by, entry |-> store] : c \in copies'}
    BY <1>18 DEF ReadFile
  <2> QED
    BY <1>14, <1>18, <2>1 DEF ReadFile
<1>19. ASSUME NEW c \in copies, RewriteFile(c) PROVE Goal
  BY <1>19, RewriteStep
<1>20. CASE UNCHANGED vars
  BY <1>14, <1>20 DEF vars
<1> QED
  BY <1>1, <1>2, <1>3, <1>4, <1>5, <1>6, <1>7, <1>8, <1>9, <1>10, <1>11, <1>12, <1>13,
     <1>15, <1>16, <1>17, <1>18, <1>19, <1>20
  DEF Next, Step, Provider

(* A manager that has stored the replacement of a refresh token does not     *)
(* present the old one again until another process has put it back into the  *)
(* store: through crashes, lost answers, dropped callers and failed writes,  *)
(* with any number of managers and of neighbours rewriting the file.         *)
THEOREM RetiredNeverReplayed == Spec => []NoRetiredReplay
<1>1. Init => ReplayInv
  BY ReplayInit, InitTypeOK, ConstantsAssumption DEF ReplayInv, Init, Singleflight, Critical
<1>2. ReplayInv /\ [Next]_vars => ReplayInv'
  BY ReplayNext, NextTypeOK, NextSingleflight DEF ReplayInv
<1>3. ReplayInv => NoRetiredReplay
  BY DEF ReplayInv, OutOfReach, NoRetiredReplay
<1> QED
  BY <1>1, <1>2, <1>3, PTL DEF Spec

-----------------------------------------------------------------------------
(* A get_token takes a bounded number of steps, and whoever waits for the   *)
(* refresh lock waits for a task that waits for nobody but the provider.    *)

\* Steps left of a get_token, at most: a refresh, the retry with the stored token
\* after a rejection, and the grant after that.
StepsLeft(t) ==
    CASE pc[t] = "wait_refresh" -> 10
      [] pc[t] = "at_provider" -> IF flow[t] = "refresh" THEN 9 ELSE IF flow[t] = "retry" THEN 7 ELSE 3
      [] pc[t] = "answered" -> IF flow[t] = "refresh" THEN 8 ELSE IF flow[t] = "retry" THEN 6 ELSE 2
      [] pc[t] = "wait_acquire" -> 5
      [] pc[t] = "registering" -> 4
      [] pc[t] = "saving" -> 1
      [] OTHER -> 0

\* Every step of a call uses up some of what is left of it, and nobody else's
\* adds to it.
CallsShrink ==
    [][\A t \in Task :
          /\ Step(t) \/ Provider(t) => StepsLeft(t)' < StepsLeft(t)
          /\ pc[t] # "idle" => StepsLeft(t)' <= StepsLeft(t)]_vars

\* What h does next under the lock is open to it, or it is the provider's turn.
GoesOn(h) ==
    \/ pc[h] \in {"at_provider", "registering", "saving"}
    \/ /\ pc[h] = "answered"
       /\ \/ answer[h].kind = "tokens"
          \/ answer[h].kind = "error"
          \/ answer[h].kind = "rejected" /\ flow[h] \in {"refresh", "retry"}

NobodyWaitsForAWaiter ==
    \A t \in Task : pc[t] \in {"wait_refresh", "wait_acquire"} =>
        \/ lock[Owner[t]] = NoTask
        \/ \E h \in Task \ {t} : lock[Owner[t]] = h /\ Owner[h] = Owner[t] /\ GoesOn(h)

\* A task that has an answer has one its request can get.
AnswersFit ==
    \A t \in Task : pc[t] = "answered" =>
        \/ answer[t].kind \in {"tokens", "error"}
        \/ answer[t].kind = "rejected" /\ flow[t] \in {"refresh", "retry"}

\* A refresh lock is held by a task of its manager.
LocksAreOwn == \A m \in Manager : lock[m] # NoTask => Owner[lock[m]] = m

\* Nobody but t moves, and t moves to `where` with request `what`.
Moved(t, where, what) ==
    /\ pc' = [pc EXCEPT ![t] = where]
    /\ flow' = [flow EXCEPT ![t] = what]

\* Steps of the world outside the managers' processes.
Outside(a) ==
    Expire(a) \/ Revoke(a) \/ ProviderOrphan(a) \/ ReadFile(a) \/ RewriteFile(a)

LEMMA OutsideSteps ==
  ASSUME NEW a, Outside(a)
  PROVE  UNCHANGED <<pc, flow, answer, lock>>
  BY DEF Outside, Expire, Revoke, ProviderOrphan, ReadFile, RewriteFile

LEMMA CallerSteps ==
  ASSUME TypeOK, NEW t \in Task, GetToken(t) \/ Step(t) \/ Provider(t)
  PROVE  \E where \in Location, what \in Flow : Moved(t, where, what)
<1>0. pc \in [Task -> Location] /\ flow \in [Task -> Flow]
  BY DEF TypeOK, CallerTypeOK
<1>1. ASSUME NEW where \in Location, pc' = [pc EXCEPT ![t] = where], UNCHANGED flow
      PROVE  \E w \in Location, what \in Flow : Moved(t, w, what)
  BY <1>0, <1>1 DEF Moved
<1>2. ASSUME NEW outcome, Return(t, outcome)
      PROVE  \E w \in Location, what \in Flow : Moved(t, w, what)
  BY <1>1, <1>2 DEF Return, Location
<1>3. ASSUME NEW where \in Location, GoTo(t, where)
      PROVE  \E w \in Location, what \in Flow : Moved(t, w, what)
  BY <1>1, <1>3 DEF GoTo
<1>4. ASSUME NEW what \in Flow, NEW token, Send(t, what, token)
      PROVE  \E w \in Location, f \in Flow : Moved(t, w, f)
  BY <1>4 DEF Send, Moved, Location
<1>5. CASE GetToken(t)
  BY <1>2, <1>3, <1>5 DEF GetToken, Location
<1>6. CASE LockForRefresh(t) \/ LockForAcquire(t) \/ Register(t)
  BY <1>2, <1>3, <1>4, <1>6 DEF LockForRefresh, LockForAcquire, Register, Location, Flow
<1>7. CASE CacheTokenResponse(t) \/ SaveToken(t)
  BY <1>1, <1>2, <1>7 DEF CacheTokenResponse, SaveToken, Location
<1>8. CASE RetryWithStored(t) \/ RefreshFailed(t) \/ GrantFailed(t)
  BY <1>2, <1>3, <1>4, <1>8 DEF RetryWithStored, RefreshFailed, GrantFailed, Location, Flow
<1>9. CASE Provider(t)
  BY <1>1, <1>9 DEF Provider, ProviderRefresh, ProviderGrant, Answered, Location
<1> QED
  BY <1>5, <1>6, <1>7, <1>8, <1>9 DEF Step

LEMMA CallShrinks ==
  ASSUME TypeOK, NEW t \in Task, Step(t) \/ Provider(t)
  PROVE  StepsLeft(t)' < StepsLeft(t)
<1>0. pc \in [Task -> Location] /\ flow \in [Task -> Flow] /\ StepsLeft(t) \in 0 .. 10
  BY DEF TypeOK, CallerTypeOK, StepsLeft
<1>1. ASSUME NEW outcome, Return(t, outcome) PROVE StepsLeft(t)' = 0
  BY <1>0, <1>1 DEF Return, StepsLeft
<1>2. ASSUME GoTo(t, "wait_acquire") PROVE StepsLeft(t)' = 5
  BY <1>0, <1>2 DEF GoTo, StepsLeft
<1>3. ASSUME NEW what \in Flow, NEW token, Send(t, what, token)
      PROVE  StepsLeft(t)' = IF what = "refresh" THEN 9 ELSE IF what = "retry" THEN 7 ELSE 3
  BY <1>0, <1>3 DEF Send, StepsLeft
<1>4. CASE LockForRefresh(t)
  <2>1. StepsLeft(t) = 10
    BY <1>4 DEF LockForRefresh, StepsLeft
  <2>2. StepsLeft(t)' \in {0, 5, 9}
    BY <1>1, <1>2, <1>3, <1>4 DEF LockForRefresh, Flow
  <2> QED
    BY <2>1, <2>2
<1>5. CASE LockForAcquire(t)
  <2>1. StepsLeft(t) = 5
    BY <1>5 DEF LockForAcquire, StepsLeft
  <2>2. GoTo(t, "registering") => StepsLeft(t)' = 4
    BY <1>0 DEF GoTo, StepsLeft
  <2>3. StepsLeft(t)' \in {0, 3, 4}
    BY <1>1, <1>3, <1>5, <2>2 DEF LockForAcquire, Flow
  <2> QED
    BY <2>1, <2>3
<1>6. CASE Register(t)
  <2>1. StepsLeft(t) = 4
    BY <1>6 DEF Register, StepsLeft
  <2>2. StepsLeft(t)' \in {0, 3}
    BY <1>1, <1>3, <1>6 DEF Register, Flow
  <2> QED
    BY <2>1, <2>2
<1>7. CASE CacheTokenResponse(t)
  <2>1. StepsLeft(t) \in {2, 6, 8}
    BY <1>7 DEF CacheTokenResponse, StepsLeft
  <2>2. StepsLeft(t)' = 1
    BY <1>0, <1>7 DEF CacheTokenResponse, StepsLeft
  <2> QED
    BY <2>1, <2>2
<1>8. CASE SaveToken(t)
  <2>1. StepsLeft(t) = 1
    BY <1>8 DEF SaveToken, StepsLeft
  <2>2. StepsLeft(t)' = 0
    BY <1>1, <1>8 DEF SaveToken
  <2> QED
    BY <2>1, <2>2
<1>9. CASE RetryWithStored(t)
  <2>1. StepsLeft(t) = 8
    BY <1>9 DEF RetryWithStored, StepsLeft
  <2>2. StepsLeft(t)' \in {0, 5, 7}
    BY <1>1, <1>2, <1>3, <1>9 DEF RetryWithStored, Flow
  <2> QED
    BY <2>1, <2>2
<1>10. CASE RefreshFailed(t)
  <2>1. StepsLeft(t) \in {6, 8}
    BY <1>0, <1>10 DEF RefreshFailed, StepsLeft, Flow
  <2>2. StepsLeft(t)' \in {0, 5}
    BY <1>1, <1>2, <1>10 DEF RefreshFailed
  <2> QED
    BY <2>1, <2>2
<1>11. CASE GrantFailed(t)
  <2>1. StepsLeft(t) = 2
    BY <1>11 DEF GrantFailed, StepsLeft
  <2>2. StepsLeft(t)' = 0
    BY <1>1, <1>11 DEF GrantFailed
  <2> QED
    BY <2>1, <2>2
<1>12. CASE Provider(t)
  <2>1. /\ pc[t] = "at_provider" /\ pc' = [pc EXCEPT ![t] = "answered"] /\ UNCHANGED flow
    BY <1>12 DEF Provider, ProviderRefresh, ProviderGrant, Answered
  <2>2. StepsLeft(t) = IF flow[t] = "refresh" THEN 9 ELSE IF flow[t] = "retry" THEN 7 ELSE 3
    BY <2>1 DEF StepsLeft
  <2>3. StepsLeft(t)' = IF flow[t] = "refresh" THEN 8 ELSE IF flow[t] = "retry" THEN 6 ELSE 2
    BY <1>0, <2>1 DEF StepsLeft
  <2> QED
    BY <2>2, <2>3
<1> QED
  BY <1>4, <1>5, <1>6, <1>7, <1>8, <1>9, <1>10, <1>11, <1>12 DEF Step

(* However the tasks of the managers, the provider and the faults           *)
(* interleave, a get_token is over after ten steps: it presents the refresh *)
(* token of the cache, after a rejection that of the store, once, and runs  *)
(* the grant at most once.                                                  *)
THEOREM CallsAreBounded == Spec => CallsShrink
<1>1. TypeOK /\ [Next]_vars =>
        [\A t \in Task :
            /\ Step(t) \/ Provider(t) => StepsLeft(t)' < StepsLeft(t)
            /\ pc[t] # "idle" => StepsLeft(t)' <= StepsLeft(t)]_vars
  <2> SUFFICES ASSUME TypeOK, Next, NEW t \in Task
               PROVE  /\ Step(t) \/ Provider(t) => StepsLeft(t)' < StepsLeft(t)
                      /\ pc[t] # "idle" => StepsLeft(t)' <= StepsLeft(t)
    OBVIOUS
  <2>1. Step(t) \/ Provider(t) => StepsLeft(t)' < StepsLeft(t)
    BY CallShrinks
  <2>2. ASSUME pc[t] # "idle" PROVE StepsLeft(t)' <= StepsLeft(t)
    <3>0. StepsLeft(t) \in 0 .. 10 /\ StepsLeft(t)' \in 0 .. 10 /\ pc \in [Task -> Location]
          /\ flow \in [Task -> Flow]
      BY DEF StepsLeft, TypeOK, CallerTypeOK
    <3>1. CASE Step(t) \/ Provider(t)
      BY <2>1, <3>0, <3>1
    <3>2. CASE UNCHANGED <<pc, flow>>
      <4>1. StepsLeft(t)' = StepsLeft(t)
        BY <3>2 DEF StepsLeft
      <4> QED
        BY <3>0, <4>1
    <3>3. ASSUME NEW u \in Task \ {t}, GetToken(u) \/ Step(u) \/ Provider(u)
          PROVE  StepsLeft(t)' <= StepsLeft(t)
      <4>1. PICK where \in Location, what \in Flow : Moved(u, where, what)
        BY <3>3, CallerSteps
      <4>2. pc'[t] = pc[t] /\ flow'[t] = flow[t]
        BY <3>0, <3>3, <4>1 DEF Moved
      <4>3. StepsLeft(t)' = StepsLeft(t)
        BY <4>2 DEF StepsLeft
      <4> QED
        BY <3>0, <4>3
    <3>4. ASSUME NEW m \in Manager, Crash(m) PROVE StepsLeft(t)' <= StepsLeft(t)
      <4>1. CASE Owner[t] = m
        <5>1. StepsLeft(t)' = 0
          BY <3>4, <4>1 DEF Crash, StepsLeft
        <5> QED
          BY <3>0, <5>1
      <4>2. CASE Owner[t] # m
        <5>1. pc'[t] = pc[t] /\ flow' = flow
          BY <3>4, <4>2 DEF Crash
        <5>2. StepsLeft(t)' = StepsLeft(t)
          BY <5>1 DEF StepsLeft
        <5> QED
          BY <3>0, <5>2
      <4> QED
        BY <4>1, <4>2
    <3>5. ~GetToken(t)
      BY <2>2 DEF GetToken
    <3>8. ASSUME NEW u \in Task, Abandon(u) PROVE StepsLeft(t)' <= StepsLeft(t)
      <4>1. pc' = [pc EXCEPT ![u] = "idle"] /\ UNCHANGED flow
        BY <3>8 DEF Abandon, Return
      <4>2. StepsLeft(t)' \in {0, StepsLeft(t)}
        BY <3>0, <4>1 DEF StepsLeft
      <4> QED
        BY <3>0, <4>2
    <3>6. ASSUME NEW u \in Task, AdoptPersisted(u) PROVE UNCHANGED <<pc, flow>>
      BY <3>6 DEF AdoptPersisted
    <3>7. ASSUME NEW a, Outside(a) PROVE UNCHANGED <<pc, flow>>
      BY <3>7, OutsideSteps
    <3> QED
      BY <3>1, <3>2, <3>3, <3>4, <3>5, <3>6, <3>7, <3>8 DEF Next, Outside
  <2> QED
    BY <2>1, <2>2
<1> QED
  BY <1>1, InitTypeOK, NextTypeOK, PTL DEF Spec, CallsShrink

-----------------------------------------------------------------------------
(* Holders.                                                                *)

LEMMA NextAnswersFit == TypeOK /\ AnswersFit /\ [Next]_vars => AnswersFit'
<1> SUFFICES ASSUME TypeOK, AnswersFit, [Next]_vars PROVE AnswersFit'
  OBVIOUS
<1>0. /\ pc \in [Task -> Location] /\ flow \in [Task -> Flow] /\ answer \in [Task -> Answer]
  BY DEF TypeOK, CallerTypeOK
<1>1. ASSUME NEW t \in Task, \A u \in Task \ {t} : pc'[u] = pc[u] /\ flow'[u] = flow[u] /\ answer'[u] = answer[u],
             pc'[t] # "answered"
      PROVE  AnswersFit'
  BY <1>1 DEF AnswersFit
<1>2. ASSUME NEW t \in Task, NEW outcome, Return(t, outcome) PROVE AnswersFit'
  BY <1>0, <1>1, <1>2 DEF Return
<1>3. ASSUME NEW t \in Task, NEW where \in Location \ {"answered"}, GoTo(t, where) PROVE AnswersFit'
  BY <1>0, <1>1, <1>3 DEF GoTo
<1>4. ASSUME NEW t \in Task, NEW what, NEW token, Send(t, what, token) PROVE AnswersFit'
  BY <1>0, <1>1, <1>4 DEF Send
<1>5. ASSUME NEW t \in Task, GetToken(t) \/ Step(t) PROVE AnswersFit'
  <2>1. CASE GetToken(t)
    BY <1>2, <1>3, <2>1 DEF GetToken, Location
  <2>2. CASE LockForRefresh(t) \/ LockForAcquire(t) \/ Register(t)
    BY <1>2, <1>3, <1>4, <2>2 DEF LockForRefresh, LockForAcquire, Register, Location
  <2>3. CASE CacheTokenResponse(t)
    BY <1>0, <1>1, <2>3 DEF CacheTokenResponse
  <2>4. CASE SaveToken(t)
    BY <1>2, <2>4 DEF SaveToken
  <2>5. CASE RetryWithStored(t) \/ RefreshFailed(t) \/ GrantFailed(t)
    BY <1>2, <1>3, <1>4, <2>5 DEF RetryWithStored, RefreshFailed, GrantFailed, Location
  <2> QED
    BY <1>5, <2>1, <2>2, <2>3, <2>4, <2>5 DEF Step
<1>6. ASSUME NEW t \in Task, Provider(t) PROVE AnswersFit'
  <2>1. ASSUME NEW a, Answered(t, a), a.kind \in {"tokens", "error"} \/ (a.kind = "rejected" /\ flow[t] \in {"refresh", "retry"})
        PROVE  AnswersFit'
    BY <1>0, <2>1 DEF Answered, AnswersFit
  <2>2. CASE ProviderRefresh(t)
    BY <2>1, <2>2 DEF ProviderRefresh, NoAnswer, ErrorAnswer
  <2>3. CASE ProviderGrant(t)
    BY <2>1, <2>3 DEF ProviderGrant, NoAnswer, ErrorAnswer
  <2> QED
    BY <1>6, <2>2, <2>3 DEF Provider
<1>7. ASSUME NEW m \in Manager, Crash(m) PROVE AnswersFit'
  BY <1>0, <1>7 DEF Crash, AnswersFit
<1>8. CASE UNCHANGED <<pc, flow, answer>>
  BY <1>8 DEF AnswersFit
<1>9. ASSUME NEW t \in Task, AdoptPersisted(t) PROVE UNCHANGED <<pc, flow, answer>>
  BY <1>9 DEF AdoptPersisted
<1>10. ASSUME NEW a, Outside(a) PROVE UNCHANGED <<pc, flow, answer>>
  BY <1>10, OutsideSteps
<1>11. ASSUME NEW t \in Task, Abandon(t) PROVE AnswersFit'
  BY <1>2, <1>11 DEF Abandon
<1> QED
  BY <1>5, <1>6, <1>7, <1>8, <1>9, <1>10, <1>11 DEF Next, Outside, vars

LEMMA NextLocksAreOwn == TypeOK /\ LocksAreOwn /\ [Next]_vars => LocksAreOwn'
<1> SUFFICES ASSUME TypeOK, LocksAreOwn, [Next]_vars PROVE LocksAreOwn'
  OBVIOUS
<1>0. lock \in [Manager -> Task \union {NoTask}]
  BY DEF TypeOK, ManagerTypeOK
<1>1. CASE UNCHANGED lock
  BY <1>1 DEF LocksAreOwn
<1>2. ASSUME NEW t \in Task, Take(t) \/ Drop(t) PROVE LocksAreOwn'
  BY <1>0, <1>2, OwnerType DEF Take, Drop, LocksAreOwn
<1>3. ASSUME NEW t \in Task, Step(t) PROVE LocksAreOwn'
  <2>1. CASE LockForRefresh(t) \/ LockForAcquire(t) \/ Register(t) \/ CacheTokenResponse(t)
    BY <1>1, <1>2, <2>1 DEF LockForRefresh, LockForAcquire, Register, CacheTokenResponse
  <2>2. CASE SaveToken(t) \/ RetryWithStored(t) \/ RefreshFailed(t) \/ GrantFailed(t)
    BY <1>1, <1>2, <2>2 DEF SaveToken, RetryWithStored, RefreshFailed, GrantFailed
  <2> QED
    BY <1>3, <2>1, <2>2 DEF Step
<1>4. ASSUME NEW m \in Manager, Crash(m) PROVE LocksAreOwn'
  BY <1>0, <1>4 DEF Crash, LocksAreOwn
<1>5. ASSUME NEW t \in Task, AdoptPersisted(t) \/ GetToken(t) \/ Provider(t) PROVE UNCHANGED lock
  BY <1>5 DEF AdoptPersisted, GetToken, Provider, ProviderRefresh, ProviderGrant
<1>6. ASSUME NEW a, Outside(a) PROVE UNCHANGED lock
  BY <1>6, OutsideSteps
<1>7. ASSUME NEW t \in Task, Abandon(t) PROVE LocksAreOwn'
  BY <1>1, <1>2, <1>7 DEF Abandon
<1> QED
  BY <1>1, <1>3, <1>4, <1>5, <1>6, <1>7 DEF Next, Outside, vars

(* No caller waits for the refresh lock in vain: it is free, or another     *)
(* task of the same manager holds it and does what its answer calls for, or *)
(* has the provider to wait for.  No path through get_token keeps the lock. *)
THEOREM HoldersWork == Spec => []NobodyWaitsForAWaiter
<1>1. TypeOK /\ Singleflight /\ AnswersFit /\ LocksAreOwn => NobodyWaitsForAWaiter
  <2> SUFFICES ASSUME TypeOK, Singleflight, AnswersFit, LocksAreOwn, NEW t \in Task,
                      pc[t] \in {"wait_refresh", "wait_acquire"}, lock[Owner[t]] # NoTask
               PROVE  \E h \in Task \ {t} : lock[Owner[t]] = h /\ Owner[h] = Owner[t] /\ GoesOn(h)
    BY DEF NobodyWaitsForAWaiter
  <2> DEFINE h == lock[Owner[t]]
  <2>1. h \in Task /\ Owner[h] = Owner[t]
    BY OwnerType DEF TypeOK, ManagerTypeOK, LocksAreOwn
  <2>2. Critical(h)
    BY <2>1 DEF Singleflight
  <2>3. h # t
    BY <2>2 DEF Critical
  <2>4. GoesOn(h)
    BY <2>1, <2>2 DEF Critical, AnswersFit, GoesOn
  <2> QED
    BY <2>1, <2>3, <2>4
<1>2. Init => AnswersFit /\ LocksAreOwn
  BY DEF Init, AnswersFit, LocksAreOwn
<1>3. Spec => []Singleflight
  BY OnlyOneInFlight
<1> QED
  BY <1>1, <1>2, <1>3, InitTypeOK, NextTypeOK, NextAnswersFit, NextLocksAreOwn, PTL DEF Spec

=============================================================================
