------------------------------- MODULE Backend -------------------------------
(* What every implementation of the McpBackend trait promises the registry  *)
(* (crates/core/src/lib.rs:22): requests only start on a connected backend, *)
(* only a whole handshake connects it, disconnect is safe at any time, and   *)
(* whatever the backend does by itself, reconnecting included, a request is  *)
(* carried out at most once.  The tasks call the trait's operations.         *)

CONSTANT Task

VARIABLES
    connected,  \* what the backend's `connected` says
    refresh,    \* take_tools_refresh would say true
    doing,      \* the trait operation each task is in
    carried     \* tasks whose request the downstream may have carried out

vars == <<connected, refresh, doing, carried>>

Operation == {"none", "connect", "request", "disconnect"}

Init ==
    /\ connected \in BOOLEAN
    /\ refresh = FALSE
    /\ doing = [t \in Task |-> "none"]
    /\ carried = {}

Enter(t, operation) ==
    /\ doing[t] = "none"
    /\ doing' = [doing EXCEPT ![t] = operation]
    /\ UNCHANGED carried

\* A connect that has a handshake to do; when connected it returns at once.
Connect(t) ==
    /\ ~connected
    /\ Enter(t, "connect")
    /\ UNCHANGED <<connected, refresh>>

\* The whole handshake is done.  connect_backend goes on to list the tools.
Connected(t) ==
    /\ doing[t] = "connect"
    /\ connected' = TRUE
    /\ \E next \in {"none", "request"} : doing' = [doing EXCEPT ![t] = next]
    /\ UNCHANGED <<refresh, carried>>

\* list_tools, call_tool, health_check and request.
Request(t) ==
    /\ connected
    /\ Enter(t, "request")
    /\ UNCHANGED <<connected, refresh>>

\* The request is out, and no error of the downstream says it did nothing.
Carry(t) ==
    /\ doing[t] = "request"
    /\ t \notin carried
    /\ carried' = carried \union {t}
    /\ UNCHANGED <<connected, refresh, doing>>

\* The backend does its handshake again, before the request is carried out.
Renew(t) ==
    /\ doing[t] = "request"
    /\ t \notin carried
    /\ refresh' = TRUE
    /\ UNCHANGED <<connected, doing, carried>>

Disconnect(t) ==
    /\ \E operation \in {"none", "disconnect"} : Enter(t, operation)
    /\ connected' = FALSE
    /\ UNCHANGED refresh

\* An operation returns, with a result or an error, or is dropped; the health
\* loop may take the refresh with it, once.
Return(t) ==
    /\ doing[t] # "none"
    /\ doing' = [doing EXCEPT ![t] = "none"]
    /\ carried' = carried \ {t}
    /\ refresh' \in {refresh, FALSE}
    /\ UNCHANGED connected

\* The downstream goes away.
Lose ==
    /\ connected' = FALSE
    /\ UNCHANGED <<refresh, doing, carried>>

Next ==
    \/ \E t \in Task :
         \/ Connect(t) \/ Connected(t)
         \/ Request(t) \/ Carry(t) \/ Renew(t)
         \/ Disconnect(t)
         \/ Return(t)
    \/ Lose

Spec == Init /\ [][Next]_vars
==============================================================================
