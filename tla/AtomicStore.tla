----------------------------- MODULE AtomicStore -----------------------------
(* What SecretStore (secrets/src/store.rs) promises to the processes that   *)
(* share one store: a change is applied to a whole map, all of it or        *)
(* nothing, whatever the process or the machine does meanwhile.  Processes  *)
(* are not kept apart: a change is applied to the map as the process found  *)
(* it when it began.                                                        *)

CONSTANTS Process, Key, Secret, Nothing

VARIABLES
    content,    \* the map every process reads
    kept,       \* the map a power loss may bring back
    snapshot    \* process -> the map its change under way is based on

vars == <<content, kept, snapshot>>

Map == [Key -> Secret \union {Nothing}]

Init ==
    /\ content = [k \in Key |-> Nothing]
    /\ kept = content
    /\ snapshot = [p \in Process |-> Nothing]

Open(p) ==
    /\ snapshot[p] = Nothing
    /\ snapshot' = [snapshot EXCEPT ![p] = content]
    /\ UNCHANGED <<content, kept>>

Commit(p) ==
    /\ snapshot[p] # Nothing
    /\ \E k \in Key, s \in Secret \union {Nothing} : content' = [snapshot[p] EXCEPT ![k] = s]
    /\ snapshot' = [snapshot EXCEPT ![p] = Nothing]
    /\ UNCHANGED kept

\* An error, or the end of the process.
Abort(p) ==
    /\ snapshot' = [snapshot EXCEPT ![p] = Nothing]
    /\ UNCHANGED <<content, kept>>

Keep ==
    /\ kept' = content
    /\ UNCHANGED <<content, snapshot>>

PowerLoss ==
    /\ content' \in {content, kept}
    /\ kept' = content'
    /\ snapshot' = [p \in Process |-> Nothing]

Next ==
    \/ \E p \in Process : Open(p) \/ Commit(p) \/ Abort(p)
    \/ Keep
    \/ PowerLoss

Spec == Init /\ [][Next]_vars
==============================================================================
