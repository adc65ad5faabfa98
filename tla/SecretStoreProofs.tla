-------------------------- MODULE SecretStoreProofs --------------------------
(* The store's file is whole after any failure, its writers leave each      *)
(* other's entries alone within a process, and it implements AtomicStore.   *)
EXTENDS SecretStore, TLAPS

\* What a task has in hand follows from where it is, and only synced maps
\* are ever renamed over the file.
InHand ==
    /\ \A t \in Task :
         /\ pc[t] # "idle" => op[t] \in Op
         /\ loaded[t] \in Map <=> pc[t] \in {"write", "sync", "persist"}
         /\ pc[t] = "persist" => temp[t]
    /\ file.synced
    /\ file.map \in Map /\ disk \in Map

IInv == TypeOK /\ InHand

-----------------------------------------------------------------------------

\* A change leaves every key but its own.
LEMMA ChangeIsMap ==
    ASSUME NEW o \in Op, NEW map \in Map
    PROVE  /\ Change(o, map) \in Map
           /\ \A k \in Key \ {o.key} : Change(o, map)[k] = map[k]
           /\ Change(o, map) = [map EXCEPT ![o.key] = o.value]
           /\ o.key \in Key /\ o.value \in Secret \union {Nothing}
  BY DEF Op, Map, Change

\* A task that leaves the critical section takes nothing along.
LEMMA ReturnKeeps ==
    ASSUME IInv, NEW t \in Task, pc[t] \in Critical, Return(t),
           file' \in [map : Map, synced : {TRUE}], disk' \in Map,
           UNCHANGED counters, overtaken' \subseteq Task
    PROVE  IInv'
  <1>1. Owner[t] \in Process /\ lock[Owner[t]] = t
    BY ConstantsAssumption DEF IInv, TypeOK
  <1> USE ConstantsAssumption DEF IInv, InHand, Return, Critical, Location
  <1>2. /\ lock' \in [Process -> Task \union {NoTask}] /\ pc' \in [Task -> Location]
        /\ op' \in [Task -> Op \union {Nothing}] /\ loaded' \in [Task -> Map \union {Nothing}]
        /\ temp' \in [Task -> BOOLEAN]
    BY <1>1 DEF TypeOK
  <1>3. \A u \in Task : pc'[u] \in Critical <=> lock'[Owner[u]] = u
    BY <1>1 DEF TypeOK
  <1>4. \A p \in Process : lock'[p] # NoTask => Owner[lock'[p]] = p
    BY <1>1 DEF TypeOK
  <1>5. TypeOK'
    BY <1>2, <1>3, <1>4 DEF TypeOK, counters
  <1>6. InHand'
    <2>1. ASSUME NEW u \in Task
          PROVE  /\ pc'[u] # "idle" => op'[u] \in Op
                 /\ loaded'[u] \in Map <=> pc'[u] \in {"write", "sync", "persist"}
                 /\ pc'[u] = "persist" => temp'[u]
      <3>1. CASE u = t
        BY <3>1 DEF TypeOK
      <3>2. CASE u # t
        BY <3>2 DEF TypeOK
      <3> QED BY <3>1, <3>2
    <2> QED BY <2>1
  <1> QED BY <1>5, <1>6

\* The same for the tasks of a process, or of the machine, that ends.
LEMMA ForgetKeeps ==
    ASSUME IInv, NEW S \in SUBSET Task, Forget(S),
           file' \in [map : Map, synced : {TRUE}], disk' \in Map,
           UNCHANGED <<ops, overtaken>>, crashes' \in 0 .. MaxCrashes
    PROVE  IInv'
  <1> USE ConstantsAssumption DEF IInv, InHand, Forget, Critical, Location
  <1>1. /\ lock' \in [Process -> Task \union {NoTask}] /\ pc' \in [Task -> Location]
        /\ op' \in [Task -> Op \union {Nothing}] /\ loaded' \in [Task -> Map \union {Nothing}]
        /\ temp' \in [Task -> BOOLEAN]
    BY DEF TypeOK
  <1>2. \A u \in Task : pc'[u] \in Critical <=> lock'[Owner[u]] = u
    <2> TAKE u \in Task
    <2>1. CASE u \in S
      BY <2>1 DEF TypeOK
    <2>2. CASE u \notin S
      BY <2>2 DEF TypeOK
    <2> QED BY <2>1, <2>2
  <1>3. \A p \in Process : lock'[p] # NoTask => Owner[lock'[p]] = p
    BY DEF TypeOK
  <1>4. TypeOK'
    BY <1>1, <1>2, <1>3 DEF TypeOK
  <1>5. InHand'
    BY DEF TypeOK
  <1> QED BY <1>4, <1>5

-----------------------------------------------------------------------------

LEMMA InitIInv == Init => IInv
  <1> SUFFICES ASSUME Init PROVE IInv
    OBVIOUS
  <1> USE ConstantsAssumption DEF Init
  <1>1. Empty \in Map
    BY DEF Empty, Map
  <1>2. TypeOK
    BY <1>1 DEF TypeOK, Location, Critical
  <1>3. InHand
    BY <1>1 DEF InHand
  <1> QED BY <1>2, <1>3 DEF IInv

LEMMA NextIInv == IInv /\ [Next]_vars => IInv'
  <1> SUFFICES ASSUME IInv, [Next]_vars PROVE IInv'
    OBVIOUS
  <1> USE ConstantsAssumption
  <1>0. file \in [map : Map, synced : {TRUE}]
    BY DEF IInv, TypeOK, InHand
  <1>1. ASSUME NEW t \in Task, Begin(t) PROVE IInv'
    BY <1>1 DEF Begin, IInv, TypeOK, InHand, Critical, Location, fileVars
  <1>2. ASSUME NEW t \in Task, Lock(t) PROVE IInv'
    <2>1. TypeOK'
      BY <1>2 DEF Lock, IInv, TypeOK, Critical, Location, fileVars, counters
    <2>2. InHand'
      BY <1>2 DEF Lock, IInv, TypeOK, InHand, fileVars
    <2> QED BY <2>1, <2>2 DEF IInv
  <1>3. ASSUME NEW t \in Task, Read(t) PROVE IInv'
    <2>1. CASE Return(t) /\ UNCHANGED overtaken
      BY <1>0, <1>3, <2>1, ReturnKeeps DEF Read, Critical, IInv, TypeOK, InHand, fileVars
    <2>2. CASE pc' = [pc EXCEPT ![t] = "write"] /\ loaded' = [loaded EXCEPT ![t] = file.map]
               /\ overtaken' = overtaken \ {t} /\ UNCHANGED <<lock, op, temp>>
      BY <1>3, <2>2 DEF Read, IInv, TypeOK, InHand, Critical, Location, fileVars, counters
    <2> QED BY <1>3, <2>1, <2>2 DEF Read
  <1>4. ASSUME NEW t \in Task, WriteTemp(t) PROVE IInv'
    BY <1>4 DEF WriteTemp, IInv, TypeOK, InHand, Critical, Location, fileVars, counters
  <1>5. ASSUME NEW t \in Task, SyncTemp(t) PROVE IInv'
    BY <1>5 DEF SyncTemp, IInv, TypeOK, InHand, Critical, Location, fileVars, counters
  <1>6. ASSUME NEW t \in Task, Persist(t) PROVE IInv'
    <2>1. Change(op[t], loaded[t]) \in Map /\ temp[t] = TRUE
      BY <1>6, ChangeIsMap DEF Persist, IInv, TypeOK, InHand
    <2>2. overtaken' \subseteq Task
      BY <1>6 DEF Persist, IInv, TypeOK
    <2> QED BY <1>6, <2>1, <2>2, ReturnKeeps DEF Persist, Critical, IInv, TypeOK, InHand
  <1>7. ASSUME NEW t \in Task, Fails(t) PROVE IInv'
    BY <1>0, <1>7, ReturnKeeps DEF Fails, Critical, IInv, TypeOK, InHand, fileVars
  <1>8. ASSUME NEW p \in Process, Crash(p) PROVE IInv'
    <2>1. /\ Forget({t \in Task : Owner[t] = p}) /\ UNCHANGED <<ops, overtaken>>
          /\ file' \in [map : Map, synced : {TRUE}] /\ disk' \in Map
      BY <1>0, <1>8 DEF Crash, IInv, InHand, fileVars
    <2>3. crashes' \in 0 .. MaxCrashes
      BY <1>8 DEF Crash, IInv, TypeOK
    <2>2. {t \in Task : Owner[t] = p} \in SUBSET Task
      OBVIOUS
    <2> QED BY <2>1, <2>2, <2>3, ForgetKeeps
  <1>9. CASE FlushDirectory
    BY <1>9 DEF FlushDirectory, IInv, TypeOK, InHand, taskVars, counters
  <1>10. CASE PowerLoss
    BY <1>0, <1>10, ForgetKeeps DEF PowerLoss, IInv, TypeOK, InHand
  <1>11. CASE UNCHANGED vars
    BY <1>11 DEF IInv, TypeOK, InHand, vars, fileVars, taskVars, counters
  <1> QED BY <1>1, <1>2, <1>3, <1>4, <1>5, <1>6, <1>7, <1>8, <1>9, <1>10, <1>11 DEF Next, Step

\* The invariant of the store.
THEOREM Invariant == Spec => []IInv
  BY InitIInv, NextIInv, PTL DEF Spec

\* Every variable has its type, and write_lock is held exactly by the task in
\* its process's critical section.
THEOREM TypeCorrect == Spec => []TypeOK
  BY Invariant, PTL DEF IInv

\* write_atomic never leaves a file the next start cannot read, whatever ends
\* the process or the machine between two of its steps.
THEOREM FileIsWhole == Spec => []NoTornFile
  <1>1. IInv => NoTornFile
    BY ConstantsAssumption DEF IInv, InHand, NoTornFile
  <1> QED BY Invariant, <1>1, PTL

-----------------------------------------------------------------------------

\* A task that no other process has overtaken has the map the file has in
\* hand: tasks of its own process wait for write_lock.
UpToDate ==
    \A t \in Task : loaded[t] \in Map /\ t \notin overtaken => loaded[t] = file.map

LEMMA NextUpToDate == IInv /\ UpToDate /\ [Next]_vars => UpToDate'
  <1> SUFFICES ASSUME IInv, UpToDate, [Next]_vars PROVE UpToDate'
    OBVIOUS
  <1> USE ConstantsAssumption
  <1>1. \A t, u \in Task : loaded[t] \in Map /\ loaded[u] \in Map /\ Owner[t] = Owner[u] => t = u
    BY DEF IInv, TypeOK, InHand, Critical
  <1>2. ASSUME NEW t \in Task, Begin(t) \/ Lock(t) \/ WriteTemp(t) \/ SyncTemp(t) PROVE UpToDate'
    BY <1>2 DEF Begin, Lock, WriteTemp, SyncTemp, UpToDate, fileVars
  <1>3. ASSUME NEW t \in Task, Read(t) PROVE UpToDate'
    BY <1>3 DEF Read, Return, UpToDate, IInv, TypeOK, fileVars
  <1>4. ASSUME NEW t \in Task, Persist(t) PROVE UpToDate'
    BY <1>1, <1>4 DEF Persist, Return, UpToDate, IInv, TypeOK, InHand
  <1>5. ASSUME NEW t \in Task, Fails(t) PROVE UpToDate'
    BY <1>5 DEF Fails, Return, UpToDate, IInv, TypeOK, fileVars
  <1>6. ASSUME NEW p \in Process, Crash(p) PROVE UpToDate'
    BY <1>6 DEF Crash, Forget, UpToDate, IInv, TypeOK, fileVars
  <1>7. CASE FlushDirectory
    BY <1>7 DEF FlushDirectory, UpToDate, taskVars
  <1>8. CASE PowerLoss
    BY <1>8 DEF PowerLoss, Forget, UpToDate, IInv, TypeOK
  <1>9. CASE UNCHANGED vars
    BY <1>9 DEF UpToDate, vars, fileVars, taskVars
  <1> QED BY <1>2, <1>3, <1>4, <1>5, <1>6, <1>7, <1>8, <1>9 DEF Next, Step

\* A set or a delete undoes another change only if another process made it
\* after the file was read.
THEOREM OthersStay == Spec => OtherKeysStay
  <1>1. Init => UpToDate
    BY ConstantsAssumption DEF Init, UpToDate
  <1>2. IInv /\ UpToDate /\ [Next]_vars =>
           [\A t \in Task : Persist(t) /\ t \notin overtaken =>
               \A k \in Key \ {op[t].key} : file'.map[k] = file.map[k]]_vars
    <2> SUFFICES ASSUME IInv, UpToDate, NEW t \in Task, Persist(t), t \notin overtaken,
                        NEW k \in Key \ {op[t].key}
                 PROVE  file'.map[k] = file.map[k]
      OBVIOUS
    <2>1. op[t] \in Op /\ loaded[t] \in Map /\ loaded[t] = file.map
      BY DEF IInv, InHand, UpToDate, Persist
    <2> QED BY <2>1, ChangeIsMap DEF Persist
  <1> QED BY Invariant, NextUpToDate, <1>1, <1>2, PTL DEF Spec, OtherKeysStay

-----------------------------------------------------------------------------
(* The refinement.                                                         *)

Snapshot == [p \in Process |-> SnapshotOf(p)]

\* What a process is at is what the holder of its write_lock has in hand.
LEMMA SnapshotOfHolder ==
    ASSUME IInv
    PROVE  /\ \A t \in Task : pc[t] \in Critical => SnapshotOf(Owner[t]) = loaded[t]
           /\ \A t \in Task : loaded[t] \in Map \/ loaded[t] = Nothing
           /\ \A t \in Task : pc[t] \notin {"write", "sync", "persist"} => loaded[t] = Nothing
           /\ Nothing \notin Map
  BY ConstantsAssumption DEF IInv, TypeOK, InHand, SnapshotOf

\* A task that leaves the critical section ends its process's change.
LEMMA ReturnEndsIt ==
    ASSUME IInv, NEW t \in Task, pc[t] \in Critical, Return(t)
    PROVE  Snapshot' = [Snapshot EXCEPT ![Owner[t]] = Nothing]
  <1>1. lock[Owner[t]] = t /\ Owner[t] \in Process
    BY ConstantsAssumption DEF IInv, TypeOK
  <1>2. ASSUME NEW p \in Process
        PROVE  SnapshotOf(p)' = IF p = Owner[t] THEN Nothing ELSE SnapshotOf(p)
    BY <1>1, <1>2, ConstantsAssumption DEF IInv, TypeOK, Return, SnapshotOf
  <1> QED BY <1>1, <1>2 DEF Snapshot

LEMMA StepImplements == IInv /\ [Next]_vars => [Atomic!Next]_Atomic!vars
  <1> SUFFICES ASSUME IInv, [Next]_vars PROVE Atomic!Next \/ UNCHANGED Atomic!vars
    OBVIOUS
  <1> USE ConstantsAssumption, SnapshotOfHolder
  <1>1. ASSUME NEW t \in Task, Begin(t) \/ WriteTemp(t) \/ SyncTemp(t) PROVE UNCHANGED Atomic!vars
    BY <1>1 DEF Begin, WriteTemp, SyncTemp, Atomic!vars, SnapshotOf, fileVars
  <1>2. ASSUME NEW t \in Task, Lock(t) PROVE UNCHANGED Atomic!vars
    <2>1. \A p \in Process : SnapshotOf(p)' = SnapshotOf(p)
      BY <1>2 DEF Lock, SnapshotOf, IInv, TypeOK
    <2> QED BY <1>2, <2>1 DEF Lock, Atomic!vars, fileVars
  <1>3. ASSUME NEW t \in Task, Read(t) PROVE Atomic!Next \/ UNCHANGED Atomic!vars
    <2>1. CASE Return(t)
      BY <1>3, <2>1, ReturnEndsIt
         DEF Read, Critical, Snapshot, Atomic!Next, Atomic!Abort, fileVars
    <2>2. CASE loaded' = [loaded EXCEPT ![t] = file.map] /\ UNCHANGED lock
      <3>1. lock[Owner[t]] = t /\ SnapshotOf(Owner[t]) = Nothing /\ pc[t] = "read"
        BY <1>3 DEF Read, IInv, TypeOK, Critical
      <3>2. ASSUME NEW p \in Process
            PROVE  SnapshotOf(p)' = IF p = Owner[t] THEN file.map ELSE SnapshotOf(p)
        BY <2>2, <3>1 DEF SnapshotOf, IInv, TypeOK
      <3>3. Atomic!Open(Owner[t])
        BY <1>3, <3>1, <3>2 DEF Read, Atomic!Open, fileVars
      <3> QED BY <3>3 DEF Atomic!Next
    <2> QED BY <1>3, <2>1, <2>2 DEF Read
  <1>4. ASSUME NEW t \in Task, Persist(t) PROVE Atomic!Next
    <2>1. pc[t] = "persist" /\ Return(t) /\ disk' = disk /\ op[t] \in Op /\ loaded[t] \in Map
      BY <1>4 DEF Persist, IInv, InHand
    <2>2. Snapshot' = [Snapshot EXCEPT ![Owner[t]] = Nothing] /\ SnapshotOf(Owner[t]) = loaded[t]
      BY <2>1, ReturnEndsIt DEF Critical
    <2>3. /\ file'.map = [loaded[t] EXCEPT ![op[t].key] = op[t].value]
          /\ op[t].key \in Key /\ op[t].value \in Secret \union {Nothing}
      BY <1>4, <2>1, ChangeIsMap DEF Persist
    <2>4. Snapshot[Owner[t]] = loaded[t] /\ loaded[t] # Nothing
      BY <2>1, <2>2 DEF Snapshot
    <2>5. \E k \in Key, s \in Secret \union {Nothing} :
              file'.map = [Snapshot[Owner[t]] EXCEPT ![k] = s]
      BY <2>3, <2>4
    <2>6. Atomic!Commit(Owner[t])
      BY <2>1, <2>2, <2>4, <2>5, Zenon DEF Atomic!Commit, Snapshot
    <2> QED BY <2>6 DEF Atomic!Next
  <1>5. ASSUME NEW t \in Task, Fails(t) PROVE Atomic!Next
    <2>1. Snapshot' = [Snapshot EXCEPT ![Owner[t]] = Nothing]
      BY <1>5, ReturnEndsIt DEF Fails, Critical
    <2>2. Atomic!Abort(Owner[t])
      BY <1>5, <2>1 DEF Fails, Atomic!Abort, Snapshot, fileVars
    <2> QED BY <2>2 DEF Atomic!Next
  <1>6. ASSUME NEW p \in Process, Crash(p) PROVE Atomic!Next
    <2>1. ASSUME NEW q \in Process
          PROVE  SnapshotOf(q)' = IF q = p THEN Nothing ELSE SnapshotOf(q)
      BY <1>6, <2>1 DEF Crash, Forget, SnapshotOf, IInv, TypeOK
    <2>2. Atomic!Abort(p)
      BY <1>6, <2>1 DEF Crash, Atomic!Abort, fileVars
    <2> QED BY <2>2 DEF Atomic!Next
  <1>7. CASE FlushDirectory
    <2>1. Atomic!Keep
      BY <1>7 DEF FlushDirectory, Atomic!Keep, SnapshotOf, taskVars, IInv, InHand
    <2> QED BY <2>1 DEF Atomic!Next
  <1>8. CASE PowerLoss
    <2>1. \A p \in Process : SnapshotOf(p)' = Nothing
      BY <1>8 DEF PowerLoss, Forget, SnapshotOf, IInv, TypeOK
    <2>2. Atomic!PowerLoss
      BY <1>8, <2>1 DEF PowerLoss, Atomic!PowerLoss, IInv, InHand
    <2> QED BY <2>2 DEF Atomic!Next
  <1>9. CASE UNCHANGED vars
    BY <1>9 DEF Atomic!vars, SnapshotOf, vars, fileVars, taskVars
  <1> QED BY <1>1, <1>2, <1>3, <1>4, <1>5, <1>6, <1>7, <1>8, <1>9 DEF Next, Step

\* The file store implements AtomicStore: however many tasks and processes
\* use it and whatever fails, a reader finds a whole map, and a change is one
\* key of a map the process found.
THEOREM Implements == Spec => ImplementsAtomicStore
  <1>1. Init => Atomic!Init
    BY ConstantsAssumption DEF Init, Atomic!Init, Empty, SnapshotOf
  <1> QED BY Invariant, StepImplements, <1>1, PTL DEF Spec, ImplementsAtomicStore, Atomic!Spec
==============================================================================
