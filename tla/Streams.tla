------------------------------- MODULE Streams -------------------------------
(* subscriptions/listen over the stdio transport: the loop that reads stdin *)
(* (transport-stdio/src/lib.rs), the writer task that owns stdout, and for  *)
(* each stream the session's listener (mcp-server/src/subscriptions.rs) and *)
(* the transport's forwarder.                                               *)
EXTENDS Naturals, Sequences

CONSTANTS
    MaxIds,         \* JSON-RPC ids the client uses, named in the order of their first use
    NoStream,
    Capacity,       \* of the broadcast channel: 64 in the code
    MaxStreams, MaxChanges  \* bounds of the model

ASSUME ConstantsAssumption ==
    /\ Capacity \in Nat \ {0}
    /\ MaxIds \in Nat /\ MaxStreams \in Nat /\ MaxChanges \in Nat
    /\ NoStream \notin 1 .. MaxStreams

Stream == 1 .. MaxStreams
Id == 1 .. MaxIds
Kind == {"ack", "changed"}

VARIABLES
    pc,         \* the reading loop
    streams,    \* id -> the stream whose handle is kept for it
    out,        \* messages on their way to the writer task
    writer,     \* "running", "ended", or "failed" once stdout is closed
    opened,     \* streams opened so far
    tools,      \* stream -> whether it asked for tool list changes
    listener,   \* stream -> its task in the session
    unread,     \* stream -> changes in the broadcast channel it has yet to receive
    queue,      \* stream -> messages on their way to the forwarder
    forwarder,  \* stream -> its task in the transport
    changes,    \* of the tool list so far
    shown,      \* stream -> whether what its client has read predates the last change
    overwritten \* streams whose handle was replaced by that of another stream of their id

hubVars == <<pc, streams, out, writer>>
streamVars == <<opened, tools, listener, unread, queue, forwarder>>
historyVars == <<shown, overwritten>>
vars == <<hubVars, streamVars, changes, historyVars>>

Running(l) == forwarder[l] \in {"running", "aborted"}
Message(kind, l) == [kind |-> kind, stream |-> l, fresh |-> TRUE]

\* The writer task is gone once a write has failed: sends are ignored.
Sent(m) == IF writer = "running" THEN Append(out, m) ELSE out

Init ==
    /\ pc = "read"
    /\ streams = [i \in Id |-> NoStream]
    /\ out = <<>> /\ writer = "running"
    /\ opened = 0
    /\ tools = [l \in Stream |-> FALSE]
    /\ listener = [l \in Stream |-> "none"]
    /\ unread = [l \in Stream |-> 0]
    /\ queue = [l \in Stream |-> <<>>]
    /\ forwarder = [l \in Stream |-> "none"]
    /\ changes = 0
    /\ shown = [l \in Stream |-> "nothing"]
    /\ overwritten = {}

-----------------------------------------------------------------------------
(* The reading loop: one message at a time.                                *)

\* The acknowledgement is queued before the listener subscribes to changes.
Listen(i, wanted) ==
    /\ pc = "read"
    /\ opened < MaxStreams /\ i <= opened + 1
    /\ LET l == opened + 1 IN
         /\ opened' = l
         /\ tools' = [tools EXCEPT ![l] = wanted]
         /\ listener' = [listener EXCEPT ![l] = "on"]
         /\ queue' = [queue EXCEPT ![l] = <<Message("ack", l)>>]
         /\ forwarder' = [forwarder EXCEPT ![l] = "running"]
         /\ streams' = [streams EXCEPT ![i] = l]
         /\ overwritten' = overwritten \union ({streams[i]} \ {NoStream})
    /\ UNCHANGED <<pc, out, writer, unread, changes, shown>>

Aborted(S) == [l \in Stream |-> IF l \in S /\ forwarder[l] = "running" THEN "aborted" ELSE forwarder[l]]

\* notifications/cancelled
Cancelled(i) ==
    /\ pc = "read"
    /\ streams[i] # NoStream
    /\ forwarder' = Aborted({streams[i]})
    /\ streams' = [streams EXCEPT ![i] = NoStream]
    /\ UNCHANGED <<pc, out, writer, opened, tools, listener, unread, queue, changes, historyVars>>

\* The channel keeps the last Capacity changes; a receiver further behind is
\* told that it has lagged, and goes on with the oldest one kept.
Broadcast ==
    [l \in Stream |-> IF listener[l] = "on" /\ unread[l] <= Capacity THEN unread[l] + 1 ELSE unread[l]]

\* Any other request: the loop waits for its answer and reads nothing
\* meanwhile.  A tools/call may reconnect its backend first and tell every
\* listener (notify_tools_list_changed); what is on its way is then out of date.
Old(q) == [n \in DOMAIN q |-> [q[n] EXCEPT !.fresh = FALSE]]

Request ==
    /\ pc = "read"
    /\ pc' = "calling"
    /\ \/ UNCHANGED <<out, unread, queue, changes, shown>>
       \/ /\ changes < MaxChanges
          /\ changes' = changes + 1
          /\ unread' = Broadcast
          /\ out' = Old(out)
          /\ queue' = [l \in Stream |-> Old(queue[l])]
          /\ shown' = [l \in Stream |-> IF shown[l] = "current" THEN "stale" ELSE shown[l]]
    /\ UNCHANGED <<streams, writer, opened, tools, listener, forwarder, overwritten>>

\* Its reply goes to the writer task too, as does the error for a line that
\* does not decode; no property is about replies, and `out` leaves them out.
Replied ==
    /\ pc = "calling"
    /\ pc' = "read"
    /\ UNCHANGED <<streams, out, writer, streamVars, changes, historyVars>>

\* stdin is closed: abort every stream, wait for the forwarders, drop out_tx,
\* wait for the writer task.
Handles == {streams[i] : i \in Id} \ {NoStream}

EofLeavesStreams ==
    /\ pc = "read"
    /\ pc' = "joining"
    /\ UNCHANGED <<streams, out, writer, streamVars, changes, historyVars>>

Eof ==
    /\ pc = "read"
    /\ forwarder' = Aborted(Handles)
    /\ pc' = "joining"
    /\ UNCHANGED <<streams, out, writer, opened, tools, listener, unread, queue, changes, historyVars>>

Joined ==
    /\ pc = "joining"
    /\ \A l \in Handles : ~Running(l)
    /\ pc' = "flushing"
    /\ UNCHANGED <<streams, out, writer, streamVars, changes, historyVars>>

Done ==
    /\ pc = "flushing"
    /\ writer # "running"
    /\ pc' = "done"
    /\ UNCHANGED <<streams, out, writer, streamVars, changes, historyVars>>

-----------------------------------------------------------------------------
(* The tasks of a stream, and the writer task.                             *)

LaggedEnds(l) ==
    /\ listener[l] = "on"
    /\ unread[l] > Capacity
    /\ listener' = [listener EXCEPT ![l] = "ended"]
    /\ UNCHANGED <<hubVars, opened, tools, unread, queue, forwarder, changes, historyVars>>

\* recv says that it has lagged, and the listener goes on.
Lagged(l) ==
    /\ listener[l] = "on"
    /\ unread[l] > Capacity
    /\ unread' = [unread EXCEPT ![l] = Capacity]
    /\ UNCHANGED <<hubVars, opened, tools, listener, queue, forwarder, changes, historyVars>>

\* A change is passed on to a stream that asked for it; that its client went
\* away is only noticed here.
WantedByAll(l) == TRUE
Wanted(l) == tools[l]

HearWithoutWaiting(l) ==
    /\ listener[l] = "on"
    /\ unread[l] <= Capacity
    /\ unread' = [unread EXCEPT ![l] = @ - 1]
    /\ UNCHANGED <<hubVars, opened, tools, listener, queue, forwarder, changes, historyVars>>

Hear(l) ==
    /\ listener[l] = "on"
    /\ unread[l] \in 1 .. Capacity
    /\ unread' = [unread EXCEPT ![l] = @ - 1]
    /\ IF Wanted(l) /\ Running(l)
         THEN queue' = [queue EXCEPT ![l] = Append(@, Message("changed", l))]
         ELSE UNCHANGED queue
    /\ listener' = [listener EXCEPT ![l] = IF Wanted(l) /\ ~Running(l) THEN "ended" ELSE "on"]
    /\ UNCHANGED <<hubVars, opened, tools, forwarder, changes, historyVars>>

\* A forwarder that is being polled when it is aborted finishes that poll.
Forward(l) ==
    /\ Running(l)
    /\ queue[l] # <<>>
    /\ out' = Sent(Head(queue[l]))
    /\ queue' = [queue EXCEPT ![l] = IF writer = "running" THEN Tail(@) ELSE <<>>]
    /\ forwarder' = [forwarder EXCEPT ![l] = IF writer = "running" THEN @ ELSE "ended"]
    /\ UNCHANGED <<pc, streams, writer, opened, tools, listener, unread, changes, historyVars>>

Stop(l) ==
    /\ forwarder[l] = "aborted"
    /\ forwarder' = [forwarder EXCEPT ![l] = "ended"]
    /\ queue' = [queue EXCEPT ![l] = <<>>]
    /\ UNCHANGED <<hubVars, opened, tools, listener, unread, changes, historyVars>>

Write ==
    /\ writer = "running"
    /\ out # <<>>
    /\ out' = Tail(out)
    /\ shown' = [l \in Stream |-> IF Head(out).stream # l THEN shown[l]
                                   ELSE IF Head(out).fresh THEN "current" ELSE "stale"]
    /\ UNCHANGED <<pc, streams, writer, streamVars, changes, overwritten>>

\* The client has closed stdout.
WriteFails ==
    /\ writer = "running"
    /\ out # <<>>
    /\ out' = <<>>
    /\ writer' = "failed"
    /\ UNCHANGED <<pc, streams, streamVars, changes, historyVars>>

\* The channel is empty and every sender of it is dropped.
WriterEnds ==
    /\ writer = "running"
    /\ out = <<>>
    /\ pc = "flushing" /\ \A l \in Stream : ~Running(l)
    /\ writer' = "ended"
    /\ UNCHANGED <<pc, streams, out, streamVars, changes, historyVars>>

-----------------------------------------------------------------------------

Client == \E i \in Id : Cancelled(i) \/ \E wanted \in BOOLEAN : Listen(i, wanted)
Loop == Replied \/ Joined \/ Done
Next ==
    \/ Client \/ Request \/ Eof \/ Loop
    \/ \E l \in Stream : Lagged(l) \/ Hear(l) \/ Forward(l) \/ Stop(l)
    \/ Write \/ WriteFails \/ WriterEnds

Spec == Init /\ [][Next]_vars

\* The runtime polls its tasks, a call is answered or times out, and the
\* client reads stdout.
Fairness ==
    /\ WF_vars(Loop)
    /\ \A l \in Stream :
         WF_vars(Lagged(l) \/ Hear(l)) /\ WF_vars(Forward(l)) /\ WF_vars(Stop(l))
    /\ WF_vars(Write) /\ WF_vars(WriterEnds)

FairSpec == Spec /\ Fairness

-----------------------------------------------------------------------------
(* Properties.                                                             *)

\* Every variable has its type: in particular a receiver is at most one change
\* further behind than the channel keeps.
TypeOK ==
    /\ pc \in {"read", "calling", "joining", "flushing", "done"}
    /\ streams \in [Id -> Stream \union {NoStream}]
    /\ out \in Seq([kind : Kind, stream : Stream, fresh : BOOLEAN])
    /\ writer \in {"running", "ended", "failed"}
    /\ opened \in 0 .. MaxStreams
    /\ tools \in [Stream -> BOOLEAN]
    /\ listener \in [Stream -> {"none", "on", "ended"}]
    /\ unread \in [Stream -> 0 .. Capacity + 1]
    /\ queue \in [Stream -> Seq([kind : Kind, stream : Stream, fresh : BOOLEAN])]
    /\ \A l \in Stream : \A n \in DOMAIN queue[l] : queue[l][n].stream = l
    /\ forwarder \in [Stream -> {"none", "running", "aborted", "ended"}]
    /\ changes \in 0 .. MaxChanges
    /\ shown \in [Stream -> {"nothing", "current", "stale"}]
    /\ overwritten \subseteq Stream

\* What a client reads of a stream starts with its acknowledgement, and goes on
\* with changes only if the acknowledgement promised them; messages of one
\* stream are never reordered on their way through two tasks and two queues.
StartsStream(l, n) == shown[l] = "nothing" /\ \A k \in 1 .. n - 1 : out[k].stream # l

KeepsWord(m, first) ==
    /\ m.kind = "ack" <=> first
    /\ m.kind = "changed" => tools[m.stream]

StreamKeepsItsWord ==
    writer = "running" =>
        /\ \A n \in DOMAIN out : KeepsWord(out[n], StartsStream(out[n].stream, n))
        /\ \A l \in Stream : \A n \in DOMAIN queue[l] :
              KeepsWord(queue[l][n], n = 1 /\ StartsStream(l, Len(out) + 1))

\* A listener that still has its client is told after every change, however far
\* it lagged behind the broadcast channel.
Gone(l) == forwarder[l] # "running" \/ writer # "running"

EveryChangeIsTold ==
    \A l \in Stream :
        (tools[l] /\ shown[l] = "stale") ~> (shown[l] = "current" \/ Gone(l))

\* A cancelled stream ends; one whose handle was overwritten by a second
\* listen under the same id cannot be cancelled any more.
CancelEndsStream == \A l \in Stream : (opened >= l /\ l \notin Handles \union overwritten) ~> ~Running(l)

\* Once stdin is closed the transport ends, as the comment on run_stdio says,
\* unless a client has used the id of a running stream again: the forwarder
\* nobody aborts keeps a sender, and the writer task waits for it for ever.
RunEnds == pc = "joining" ~> (pc = "done" \/ overwritten # {})

\* What holds a stream or the process ends with it: a cancelled subscription's
\* forwarder, and run_stdio itself once its input has ended.
NothingLingers == CancelEndsStream /\ RunEnds
==============================================================================
