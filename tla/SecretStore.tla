----------------------------- MODULE SecretStore -----------------------------
(* EncryptedFileSecretStore (secrets/src/file_store.rs): one JSON file that *)
(* every process reads whole, changes and replaces.  A process has one      *)
(* store object, so its tasks take turns at write_lock; nothing keeps two   *)
(* processes apart.                                                         *)
EXTENDS Naturals

CONSTANTS
    Process,    \* processes that share the file, `serve` and `auth`
    Task,       \* their tasks
    Owner,      \* task -> its process
    Key,
    Secret,     \* encrypted values, with their nonces
    Nothing, NoTask,
    Torn,       \* a file whose blocks were never written: read_file refuses it
    MaxOps, MaxCrashes      \* bounds of the model

Map == [Key -> Secret \union {Nothing}]
Op == [kind : {"set"}, key : Key, value : Secret]
        \union [kind : {"delete", "get"}, key : Key, value : {Nothing}]

ASSUME ConstantsAssumption ==
    /\ Owner \in [Task -> Process]
    /\ NoTask \notin Task
    /\ Nothing \notin Secret \union Op \union Map
    /\ Torn \notin Map
    /\ MaxOps \in Nat /\ MaxCrashes \in Nat

VARIABLES
    file,       \* what the path leads to: a map, and whether it has reached the disk
    disk,       \* what the path leads to after a power loss
    lock,       \* process -> the task in its critical section
    pc, op,     \* task -> where it is, and the operation it is at
    loaded,     \* task -> the map it has read
    temp,       \* task -> whether its temporary file has reached the disk
    overtaken,  \* tasks whose map another process has replaced since they read it
    ops, crashes

fileVars == <<file, disk>>
taskVars == <<pc, op, loaded, temp>>
counters == <<ops, crashes>>
vars == <<file, disk, lock, taskVars, overtaken, counters>>

Empty == [k \in Key |-> Nothing]
Critical == {"read", "write", "sync", "persist"}
Location == {"idle", "lock"} \union Critical

\* A file that does not exist reads as an empty map.
Init ==
    /\ file = [map |-> Empty, synced |-> TRUE]
    /\ disk = Empty
    /\ lock = [p \in Process |-> NoTask]
    /\ pc = [t \in Task |-> "idle"]
    /\ op = [t \in Task |-> Nothing]
    /\ loaded = [t \in Task |-> Nothing]
    /\ temp = [t \in Task |-> FALSE]
    /\ overtaken = {}
    /\ ops = 0 /\ crashes = 0

-----------------------------------------------------------------------------
(* get, set and delete.                                                    *)

Begin(t) ==
    /\ pc[t] = "idle"
    /\ ops < MaxOps
    /\ ops' = ops + 1
    /\ \E o \in Op : op' = [op EXCEPT ![t] = o]
    /\ pc' = [pc EXCEPT ![t] = "lock"]
    /\ UNCHANGED <<fileVars, lock, loaded, temp, overtaken, crashes>>

LockAnyway(t) ==
    /\ pc[t] = "lock"
    /\ lock' = [lock EXCEPT ![Owner[t]] = t]
    /\ pc' = [pc EXCEPT ![t] = "read"]
    /\ UNCHANGED <<fileVars, op, loaded, temp, overtaken, counters>>

Lock(t) ==
    /\ pc[t] = "lock"
    /\ lock[Owner[t]] = NoTask
    /\ lock' = [lock EXCEPT ![Owner[t]] = t]
    /\ pc' = [pc EXCEPT ![t] = "read"]
    /\ UNCHANGED <<fileVars, op, loaded, temp, overtaken, counters>>

\* The guard is dropped, and a temporary file with it.
Return(t) ==
    /\ lock' = [lock EXCEPT ![Owner[t]] = NoTask]
    /\ pc' = [pc EXCEPT ![t] = "idle"]
    /\ op' = [op EXCEPT ![t] = Nothing]
    /\ loaded' = [loaded EXCEPT ![t] = Nothing]
    /\ temp' = [temp EXCEPT ![t] = FALSE]

\* read_file, and the change to the map for set and delete.
ChangeOnly(o, map) == [Empty EXCEPT ![o.key] = o.value]
Change(o, map) == [map EXCEPT ![o.key] = o.value]

Read(t) ==
    /\ pc[t] = "read"
    /\ \/ /\ op[t].kind # "get"
          /\ file.map # Torn
          /\ loaded' = [loaded EXCEPT ![t] = file.map]
          /\ overtaken' = overtaken \ {t}
          /\ pc' = [pc EXCEPT ![t] = "write"]
          /\ UNCHANGED <<lock, op, temp>>
       \/ /\ op[t].kind = "get" \/ file.map = Torn
          /\ Return(t)
          /\ UNCHANGED overtaken
    /\ UNCHANGED <<fileVars, counters>>

\* write_atomic: write a temporary file beside the file, sync it, rename it.
WriteTempUnsynced(t) ==
    /\ pc[t] = "write"
    /\ temp' = [temp EXCEPT ![t] = FALSE]
    /\ pc' = [pc EXCEPT ![t] = "persist"]
    /\ UNCHANGED <<fileVars, lock, op, loaded, overtaken, counters>>

WriteTemp(t) ==
    /\ pc[t] = "write"
    /\ temp' = [temp EXCEPT ![t] = FALSE]
    /\ pc' = [pc EXCEPT ![t] = "sync"]
    /\ UNCHANGED <<fileVars, lock, op, loaded, overtaken, counters>>

SyncTemp(t) ==
    /\ pc[t] = "sync"
    /\ temp' = [temp EXCEPT ![t] = TRUE]
    /\ pc' = [pc EXCEPT ![t] = "persist"]
    /\ UNCHANGED <<fileVars, lock, op, loaded, overtaken, counters>>

Persist(t) ==
    /\ pc[t] = "persist"
    /\ file' = [map |-> Change(op[t], loaded[t]), synced |-> temp[t]]
    /\ overtaken' = overtaken \union {u \in Task : Owner[u] # Owner[t]}
    /\ Return(t)
    /\ UNCHANGED <<disk, counters>>

\* A full disk, or a directory that may not be written to.
FailsHoldingLock(t) ==
    /\ pc[t] \in {"write", "sync", "persist"}
    /\ pc' = [pc EXCEPT ![t] = "idle"]
    /\ UNCHANGED <<fileVars, lock, op, loaded, temp, overtaken, counters>>

Fails(t) ==
    /\ pc[t] \in {"write", "sync", "persist"}
    /\ Return(t)
    /\ UNCHANGED <<fileVars, overtaken, counters>>

-----------------------------------------------------------------------------
(* Failures.                                                               *)

Forget(S) ==
    /\ lock' = [p \in Process |-> IF lock[p] \in S THEN NoTask ELSE lock[p]]
    /\ pc' = [t \in Task |-> IF t \in S THEN "idle" ELSE pc[t]]
    /\ op' = [t \in Task |-> IF t \in S THEN Nothing ELSE op[t]]
    /\ loaded' = [t \in Task |-> IF t \in S THEN Nothing ELSE loaded[t]]
    /\ temp' = [t \in Task |-> IF t \in S THEN FALSE ELSE temp[t]]

\* A process is killed; its temporary file stays behind, and nobody reads it.
Crash(p) ==
    /\ crashes < MaxCrashes
    /\ crashes' = crashes + 1
    /\ Forget({t \in Task : Owner[t] = p})
    /\ UNCHANGED <<fileVars, overtaken, ops>>

\* write_atomic does not sync the directory: the rename reaches the disk later.
FlushDirectory ==
    /\ disk' = IF file.synced THEN file.map ELSE Torn
    /\ UNCHANGED <<file, lock, taskVars, overtaken, counters>>

PowerLoss ==
    /\ crashes < MaxCrashes
    /\ crashes' = crashes + 1
    /\ Forget(Task)
    /\ disk' \in {disk, IF file.synced THEN file.map ELSE Torn}
    /\ file' = [map |-> disk', synced |-> TRUE]
    /\ UNCHANGED <<overtaken, ops>>

-----------------------------------------------------------------------------

Step(t) ==
    \/ Begin(t) \/ Lock(t) \/ Read(t)
    \/ WriteTemp(t) \/ SyncTemp(t) \/ Persist(t) \/ Fails(t)

Next ==
    \/ \E t \in Task : Step(t)
    \/ \E p \in Process : Crash(p)
    \/ FlushDirectory
    \/ PowerLoss

Spec == Init /\ [][Next]_vars

-----------------------------------------------------------------------------
(* Properties.                                                             *)

\* Every variable has its type, and write_lock is held exactly by the task in
\* its process's critical section.
TypeOK ==
    /\ file \in [map : Map \union {Torn}, synced : BOOLEAN]
    /\ disk \in Map \union {Torn}
    /\ lock \in [Process -> Task \union {NoTask}]
    /\ pc \in [Task -> Location]
    /\ op \in [Task -> Op \union {Nothing}]
    /\ loaded \in [Task -> Map \union {Nothing}]
    /\ temp \in [Task -> BOOLEAN]
    /\ overtaken \subseteq Task
    /\ \A t \in Task : pc[t] \in Critical <=> lock[Owner[t]] = t
    /\ \A p \in Process : lock[p] # NoTask => Owner[lock[p]] = p
    /\ ops \in 0 .. MaxOps /\ crashes \in 0 .. MaxCrashes

\* No failure between two steps of write_atomic, of the process or of the
\* machine, leaves a file the next start cannot read: it would take every
\* stored consent with it.
NoTornFile == file.map # Torn /\ disk # Torn

\* A set or a delete leaves every other entry as it is; only when another
\* process has replaced the file since it was read are that process's changes
\* undone (write_lock is one process's own).
OtherKeysStay ==
    [][\A t \in Task : Persist(t) /\ t \notin overtaken =>
          \A k \in Key \ {op[t].key} : file'.map[k] = file.map[k]]_vars

\* To its users the store is AtomicStore: a process has at most one change
\* under way, based on the map its task has read, and the file changes by
\* whole maps.
SnapshotOf(p) == IF lock[p] = NoTask THEN Nothing ELSE loaded[lock[p]]

Atomic == INSTANCE AtomicStore WITH
    content <- file.map, kept <- disk, snapshot <- [p \in Process |-> SnapshotOf(p)]

ImplementsAtomicStore == Atomic!Spec
==============================================================================
