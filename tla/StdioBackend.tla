---------------------------- MODULE StdioBackend ----------------------------
(***************************************************************************)
(* A backend reached over a child process's stdin and stdout               *)
(* (crates/backends/backend-stdio/src/lib.rs), used by concurrent tasks    *)
(* the way the registry uses any backend (crates/registry/src/lib.rs).     *)
(*                                                                         *)
(* All connections share one map of pending requests, one `connected`      *)
(* flag, one slot for the child and one for its stdin; each child has a    *)
(* reader task of its own.  A message is a line written in two pieces, and *)
(* a pipe holds Room pieces, so a write can stop half way.  The child      *)
(* processes and the pipes are external.                                   *)
(***************************************************************************)
EXTENDS Naturals, Sequences, FiniteSets

CONSTANTS
    Task,         \* tasks that use the backend
    NoTask,       \* "nobody is writing"
    Jobs,         \* what they do
    Conduct,      \* how children may misbehave: "exit", "hang", "garble"
    Room,         \* pieces a pipe holds
    MaxRequests,  \* bound: request ids
    MaxChildren,  \* bound: children spawned
    MaxCancels    \* bound: calls whose client goes away

\* The trait operations a job calls in turn: route_call_with, connect_backend,
\* reconnect_backend, and route_call_with for a per-call backend.
Program == [call |-> <<"request">>,
            connect |-> <<"connect", "request">>,
            reconnect |-> <<"disconnect", "connect", "request">>,
            per_call |-> <<"connect", "request", "disconnect">>]

Operations == {"request", "connect", "disconnect"}

Id == 1 .. MaxRequests
Child == 1 .. MaxChildren
Nothing == 0            \* an empty slot, or the id of a message without one
LineLength == 2         \* pieces in a line

ASSUME ConstantsAssumption ==
    /\ NoTask \notin Task
    /\ Jobs \subseteq DOMAIN Program
    /\ Conduct \subseteq {"exit", "hang", "garble"}
    /\ Room \in Nat \ {0}
    /\ MaxRequests \in Nat /\ MaxChildren \in Nat /\ MaxCancels \in Nat

VARIABLES
    connected,  \* SharedState.connected
    hasInit,    \* SharedState.initialize_result is Some
    stdin,      \* the child whose pipe is in SharedState.stdin
    child,      \* the child in SharedState.child
    pending,    \* ids in SharedState.pending
    counter,    \* StdioBackend.request_counter
    writer,     \* holder of write_guard and of the stdin lock
    reader,     \* reader[g]: where child g's reader task is
    pc,         \* where each task is
    job,        \* its job
    op,         \* index into Program[job] of the running operation
    mine,       \* the child it has spawned and still holds in a local
    req,        \* id of the request it has out
    left,       \* pieces of its line not yet written
    to,         \* the child to whose pipe it writes, or has written, its line
    reply,      \* what its oneshot channel has received
    state,      \* state[g]: the process
    pipe,       \* pipe[g]: pieces on their way to child g
    line,       \* line[g]: the piece of a line child g has read
    working,    \* working[g]: requests child g has read whole
    out,        \* out[g]: answers on child g's stdout
    torn,       \* history: children a line to whom was abandoned half way
    garbled,    \* history: children that have read a line nobody wrote
    overtaken,  \* history: children whose reader ended when a connect could not be stopped
    cancels     \* calls whose client has gone away so far

hubVars == <<connected, hasInit, stdin, child, pending, counter, writer>>
taskVars == <<job, op, mine, req, left, to, reply>>
childVars == <<state, pipe, line, working, out>>
historyVars == <<torn, garbled, overtaken, cancels>>
vars == <<connected, hasInit, stdin, child, pending, counter, writer, reader, pc, job, op, mine,
          req, left, to, reply, state, pipe, line, working, out, torn, garbled, overtaken,
          cancels>>

Location == {"idle", "connect", "store_stdin", "store_child", "register", "lock", "write",
             "wait", "established", "request", "disconnect", "drop_stdin", "kill"}
Piece == [id : Id \union {Nothing}, end : BOOLEAN]
Reply == [kind : {"none", "answer", "gone"}, from : Child \union {Nothing}]
NoReply == [kind |-> "none", from |-> Nothing]

Init ==
    /\ connected = FALSE /\ hasInit = FALSE
    /\ stdin = Nothing /\ child = Nothing
    /\ pending = {} /\ counter = 0
    /\ writer = NoTask
    /\ reader = [g \in Child |-> "none"]
    /\ pc = [t \in Task |-> "idle"]
    /\ job = [t \in Task |-> "call"]
    /\ op = [t \in Task |-> 1]
    /\ mine = [t \in Task |-> Nothing]
    /\ req = [t \in Task |-> Nothing]
    /\ left = [t \in Task |-> 0]
    /\ to = [t \in Task |-> Nothing]
    /\ reply = [t \in Task |-> NoReply]
    /\ state = [g \in Child |-> "unborn"]
    /\ pipe = [g \in Child |-> <<>>]
    /\ line = [g \in Child |-> <<>>]
    /\ working = [g \in Child |-> {}]
    /\ out = [g \in Child |-> {}]
    /\ torn = {} /\ garbled = {} /\ overtaken = {}
    /\ cancels = 0

-----------------------------------------------------------------------------
(* Moving a task through its program.                                      *)

Goto(t, where) == pc' = [pc EXCEPT ![t] = where]
Operation(t) == Program[job[t]][op[t]]

\* Go on with operation i of t's program, or end: the task forgets its locals.
Resume(t, i) ==
    LET more == i <= Len(Program[job[t]]) IN
    /\ Goto(t, IF more THEN Program[job[t]][i] ELSE "idle")
    /\ op' = [op EXCEPT ![t] = IF more THEN i ELSE 1]
    /\ job' = [job EXCEPT ![t] = IF more THEN @ ELSE "call"]
    /\ mine' = [mine EXCEPT ![t] = Nothing]
    /\ req' = [req EXCEPT ![t] = Nothing]
    /\ left' = [left EXCEPT ![t] = 0]
    /\ to' = [to EXCEPT ![t] = Nothing]
    /\ reply' = [reply EXCEPT ![t] = NoReply]

Succeed(t) == Resume(t, op[t] + 1)

\* An error ends the job, except that a per-call job keeps the call's result
\* and disconnects.
Fail(t) ==
    Resume(t, IF job[t] = "per_call" /\ Operation(t) = "request"
              THEN op[t] + 1 ELSE Len(Program[job[t]]) + 1)

\* The process dies: it reads and answers no more.
Killed(g) ==
    IF g = Nothing THEN UNCHANGED <<state, pipe, line, working>>
    ELSE /\ state' = [state EXCEPT ![g] = "dead"]
         /\ pipe' = [pipe EXCEPT ![g] = <<>>]
         /\ line' = [line EXCEPT ![g] = <<>>]
         /\ working' = [working EXCEPT ![g] = {}]

Spawned == Cardinality({g \in Child : state[g] # "unborn"})

\* How many requests a job makes, at most: the bound leaves room for all that run.
Asks(j) == Cardinality({i \in DOMAIN Program[j] : Program[j][i] # "disconnect"})
MostAsks == 2
Running == {t \in Task : pc[t] # "idle"}

StartJob(t) ==
    /\ pc[t] = "idle"
    /\ \E j \in Jobs :
         /\ counter + Asks(j) + MostAsks * Cardinality(Running) <= MaxRequests
         /\ job' = [job EXCEPT ![t] = j]
         /\ Goto(t, Program[j][1])
    /\ UNCHANGED <<hubVars, reader, op, mine, req, left, to, reply, childVars, historyVars>>

-----------------------------------------------------------------------------
(* send_request and send_message.                                          *)

\* MUTANT of Request: nobody asks whether the backend is connected.
RequestUnchecked(t) ==
    /\ pc[t] = "request"
    /\ Goto(t, "register")
    /\ UNCHANGED <<hubVars, taskVars, reader, childVars, historyVars>>

\* call_tool, list_tools, health_check and request refuse at once when the
\* backend is not connected.
Request(t) ==
    /\ pc[t] = "request"
    /\ IF connected
       THEN Goto(t, "register") /\ UNCHANGED taskVars
       ELSE Fail(t)
    /\ UNCHANGED <<hubVars, reader, childVars, historyVars>>

\* Take an id and leave a oneshot channel under it.
Register(t) ==
    /\ pc[t] = "register"
    /\ counter < MaxRequests
    /\ counter' = counter + 1
    /\ pending' = pending \union {counter'}
    /\ req' = [req EXCEPT ![t] = counter']
    /\ left' = [left EXCEPT ![t] = LineLength]
    /\ Goto(t, "lock")
    /\ UNCHANGED <<connected, hasInit, stdin, child, writer, reader, job, op, mine, to, reply,
                   childVars, historyVars>>

\* write_guard, then the stdin lock.  Only a task that holds the first keeps
\* the second across an await, so one variable stands for both.
Lock(t) ==
    /\ pc[t] = "lock"
    /\ writer = NoTask
    /\ IF stdin = Nothing
       THEN Fail(t) /\ UNCHANGED writer
       ELSE /\ writer' = t
            /\ to' = [to EXCEPT ![t] = stdin]
            /\ Goto(t, "write")
            /\ UNCHANGED <<job, op, mine, req, left, reply>>
    /\ UNCHANGED <<connected, hasInit, stdin, child, pending, counter, reader, childVars,
                   historyVars>>

\* The last n pieces of t's line.
Pieces(t, n) == [i \in 1 .. n |-> [id |-> req[t], end |-> i = n]]

\* MUTANT of Write: the locks are released whenever the pipe is full.
WriteReleasesWhenFull(t) ==
    /\ pc[t] = "write"
    /\ state[to[t]] # "dead"
    /\ LET room == Room - Len(pipe[to[t]])
           n == IF room < left[t] THEN room ELSE left[t]
           done == n = left[t]
       IN  /\ n > 0
           /\ pipe' = [pipe EXCEPT ![to[t]] = @ \o SubSeq(Pieces(t, left[t]), 1, n)]
           /\ left' = [left EXCEPT ![t] = @ - n]
           /\ writer' = NoTask
           /\ Goto(t, IF ~done THEN "write" ELSE IF req[t] = Nothing THEN "established" ELSE "wait")
    /\ UNCHANGED <<connected, hasInit, stdin, child, pending, counter, reader, job, op, mine, req,
                   to, reply, state, line, working, out, historyVars>>

\* write_all: as many pieces as the pipe has room for.
Write(t) ==
    /\ pc[t] = "write"
    /\ state[to[t]] # "dead"
    /\ LET room == Room - Len(pipe[to[t]])
           n == IF room < left[t] THEN room ELSE left[t]
           done == n = left[t]
       IN  /\ n > 0
           /\ pipe' = [pipe EXCEPT ![to[t]] = @ \o SubSeq(Pieces(t, left[t]), 1, n)]
           /\ left' = [left EXCEPT ![t] = @ - n]
           /\ writer' = IF done THEN NoTask ELSE writer
           /\ Goto(t, IF ~done THEN "write" ELSE IF req[t] = Nothing THEN "established" ELSE "wait")
    /\ UNCHANGED <<connected, hasInit, stdin, child, pending, counter, reader, job, op, mine, req,
                   to, reply, state, line, working, out, historyVars>>

\* Writing to a process that is gone is an error; the pending entry stays.
WriteFails(t) ==
    /\ pc[t] = "write"
    /\ state[to[t]] = "dead"
    /\ writer' = NoTask
    /\ Fail(t)
    /\ UNCHANGED <<connected, hasInit, stdin, child, pending, counter, reader, childVars,
                   historyVars>>

\* The oneshot channel has an answer that is a result, well formed: connect
\* goes on with the notification.
Answered(t) ==
    /\ pc[t] = "wait"
    /\ reply[t].kind = "answer"
    /\ IF Operation(t) = "request" THEN Succeed(t)
       ELSE /\ Goto(t, "lock")
            /\ req' = [req EXCEPT ![t] = Nothing]
            /\ left' = [left EXCEPT ![t] = LineLength]
            /\ reply' = [reply EXCEPT ![t] = NoReply]
            /\ UNCHANGED <<job, op, mine, to>>
    /\ UNCHANGED <<hubVars, reader, childVars, historyVars>>

\* The reader task says the backend has gone, or the answer is an error
\* response or malformed.
Refused(t) ==
    /\ pc[t] = "wait"
    /\ reply[t].kind # "none"
    /\ Fail(t)
    /\ UNCHANGED <<hubVars, reader, childVars, historyVars>>

\* MUTANT of TimedOut: the wait for the answer has no timeout.
NeverTimesOut(t) == FALSE

\* The timeout only covers the wait for the answer.  Were the pending entry
\* not removed, its channel would have no receiver any more.
TimedOut(t) ==
    /\ pc[t] = "wait"
    /\ reply[t].kind = "none"
    /\ pending' = pending \ {req[t]}
    /\ Fail(t)
    /\ UNCHANGED <<connected, hasInit, stdin, child, counter, writer, reader, childVars,
                   historyVars>>

-----------------------------------------------------------------------------
(* connect and disconnect.                                                 *)

\* Already connected: the cached result.  Otherwise spawn a child, which can fail.
Connect(t) ==
    /\ pc[t] = "connect"
    /\ \/ /\ connected
          /\ IF hasInit THEN Succeed(t) ELSE Fail(t)
          /\ UNCHANGED state
       \/ /\ ~connected
          /\ Fail(t)
          /\ UNCHANGED state
       \/ /\ ~connected
          /\ Spawned < MaxChildren
          /\ state' = [state EXCEPT ![Spawned + 1] = "running"]
          /\ mine' = [mine EXCEPT ![t] = Spawned + 1]
          /\ Goto(t, "store_stdin")
          /\ UNCHANGED <<job, op, req, left, to, reply>>
    /\ UNCHANGED <<hubVars, reader, pipe, line, working, out, historyVars>>

\* The old pipe, if any, is closed.
StoreStdin(t) ==
    /\ pc[t] = "store_stdin"
    /\ writer = NoTask
    /\ stdin' = mine[t]
    /\ Goto(t, "store_child")
    /\ UNCHANGED <<connected, hasInit, child, pending, counter, writer, reader, taskVars, childVars,
                   historyVars>>

\* MUTANTS of StoreChild: without kill_on_drop; with ids that start over.
StoreChildLeavesOld(t) ==
    /\ pc[t] = "store_child"
    /\ child' = mine[t]
    /\ mine' = [mine EXCEPT ![t] = Nothing]
    /\ reader' = [reader EXCEPT ![mine[t]] = "reading"]
    /\ Goto(t, "register")
    /\ UNCHANGED <<connected, hasInit, stdin, pending, counter, writer, job, op, req, left, to,
                   reply, childVars, historyVars>>

StoreChildRestartsIds(t) ==
    /\ pc[t] = "store_child"
    /\ child' = mine[t]
    /\ Killed(child)
    /\ mine' = [mine EXCEPT ![t] = Nothing]
    /\ reader' = [reader EXCEPT ![mine[t]] = "reading"]
    /\ counter' = 0
    /\ Goto(t, "register")
    /\ UNCHANGED <<connected, hasInit, stdin, pending, writer, job, op, req, left, to, reply, out,
                   historyVars>>

\* The slot owns the child: the one it held is dropped, and so killed.  The
\* reader task starts, then the handshake.
StoreChild(t) ==
    /\ pc[t] = "store_child"
    /\ child' = mine[t]
    /\ Killed(child)
    /\ mine' = [mine EXCEPT ![t] = Nothing]
    /\ reader' = [reader EXCEPT ![mine[t]] = "reading"]
    /\ Goto(t, "register")
    /\ UNCHANGED <<connected, hasInit, stdin, pending, counter, writer, job, op, req, left, to,
                   reply, out, historyVars>>

\* notifications/initialized is out: the backend is connected.
Established(t) ==
    /\ pc[t] = "established"
    /\ hasInit' = TRUE
    /\ connected' = TRUE
    /\ Succeed(t)
    /\ UNCHANGED <<stdin, child, pending, counter, writer, reader, childVars, historyVars>>

\* MUTANT of Disconnect: the ids start over, and requests are still pending.
DisconnectRestartsIds(t) ==
    /\ pc[t] = "disconnect"
    /\ connected' = FALSE
    /\ counter' = 0
    /\ Goto(t, "drop_stdin")
    /\ UNCHANGED <<hasInit, stdin, child, pending, writer, reader, taskVars, childVars, historyVars>>

Disconnect(t) ==
    /\ pc[t] = "disconnect"
    /\ connected' = FALSE
    /\ Goto(t, "drop_stdin")
    /\ UNCHANGED <<hasInit, stdin, child, pending, counter, writer, reader, taskVars, childVars,
                   historyVars>>

DropStdin(t) ==
    /\ pc[t] = "drop_stdin"
    /\ writer = NoTask
    /\ stdin' = Nothing
    /\ Goto(t, "kill")
    /\ UNCHANGED <<connected, hasInit, child, pending, counter, writer, reader, taskVars, childVars,
                   historyVars>>

Kill(t) ==
    /\ pc[t] = "kill"
    /\ Killed(child)
    /\ child' = Nothing
    /\ Succeed(t)
    /\ UNCHANGED <<connected, hasInit, stdin, pending, counter, writer, reader, out, historyVars>>

\* The HTTP client goes away: its handler's future, and all it holds, is
\* dropped.  A line may stay unfinished in the pipe, and the pending entry stays.
Cancel(t) ==
    /\ pc[t] # "idle" /\ job[t] # "connect"
    /\ cancels < MaxCancels
    /\ cancels' = cancels + 1
    /\ Killed(mine[t])
    /\ writer' = IF writer = t THEN NoTask ELSE writer
    /\ torn' = IF writer = t /\ left[t] < LineLength THEN torn \union {to[t]} ELSE torn
    /\ Resume(t, Len(Program[job[t]]) + 1)
    /\ UNCHANGED <<connected, hasInit, stdin, child, pending, counter, reader, out, garbled,
                   overtaken>>

-----------------------------------------------------------------------------
(* The reader task of child g.                                             *)

Owners(id) == {t \in Task : req[t] = id}
Hand(id, r) == reply' = [t \in Task |-> IF t \in Owners(id) THEN r ELSE reply[t]]

\* An answer goes to the request of its id, if that is still pending.
ReadAnswer(g) ==
    /\ reader[g] = "reading"
    /\ \E id \in out[g] :
         /\ out' = [out EXCEPT ![g] = @ \ {id}]
         /\ pending' = pending \ {id}
         /\ IF id \in pending THEN Hand(id, [kind |-> "answer", from |-> g]) ELSE UNCHANGED reply
    /\ UNCHANGED <<connected, hasInit, stdin, child, counter, writer, reader, pc, job, op, mine,
                   req, left, to, state, pipe, line, working, historyVars>>

\* stdout is closed, or carries a line that is not UTF-8.
ReadEnds(g) ==
    /\ reader[g] = "reading"
    /\ \/ state[g] = "dead" /\ out[g] = {}
       \/ "garble" \in Conduct /\ state[g] = "running"
    /\ reader' = [reader EXCEPT ![g] = "ended"]
    /\ UNCHANGED <<hubVars, pc, taskVars, childVars, historyVars>>

\* MUTANT of MarkDisconnected: the flag stays.
MarkConnected(g) ==
    /\ reader[g] = "ended"
    /\ reader' = [reader EXCEPT ![g] = "marked"]
    /\ UNCHANGED <<hubVars, pc, taskVars, childVars, historyVars>>

\* t's connect has yet to set the flag, and child g can no longer stop it: its
\* initialize is answered, or the answer of a child that g replaced is to be read.
Establishing(t, g) ==
    \/ /\ Operation(t) # "request"
       /\ \/ reply[t].kind = "answer"
          \/ \E h \in Child \ {g} : to[t] = h /\ reader[h] = "reading" /\ req[t] \in out[h]
    \/ pc[t] \in {"lock", "write"} /\ req[t] = Nothing
    \/ pc[t] = "established"

MarkDisconnected(g) ==
    /\ reader[g] = "ended"
    /\ reader' = [reader EXCEPT ![g] = "marked"]
    /\ connected' = FALSE
    /\ overtaken' = IF \E t \in Task : Establishing(t, g) THEN overtaken \union {g} ELSE overtaken
    /\ UNCHANGED <<hasInit, stdin, child, pending, counter, writer, pc, taskVars, childVars,
                   torn, garbled, cancels>>

\* Every pending caller of the backend is told, whichever child it waits for.
DrainPending(g) ==
    /\ reader[g] = "marked"
    /\ reader' = [reader EXCEPT ![g] = "done"]
    /\ reply' = [t \in Task |-> IF req[t] \in pending /\ reply[t].kind = "none"
                                THEN [kind |-> "gone", from |-> g] ELSE reply[t]]
    /\ pending' = {}
    /\ UNCHANGED <<connected, hasInit, stdin, child, counter, writer, pc, job, op, mine, req, left,
                   to, childVars, historyVars>>

-----------------------------------------------------------------------------
(* The child processes.                                                    *)

\* A piece is read.  Two pieces of one line make a request; anything else is
\* garbage up to the next line end.
ChildReads(g) ==
    /\ state[g] = "running"
    /\ pipe[g] # <<>>
    /\ LET p == Head(pipe[g])
           whole == p.end /\ line[g] = <<p.id>>
           plain == ~p.end /\ line[g] = <<>>
       IN  /\ line' = [line EXCEPT ![g] = IF p.end THEN <<>> ELSE Append(@, p.id)]
           /\ working' = [working EXCEPT ![g] = IF whole /\ p.id # Nothing THEN @ \union {p.id} ELSE @]
           /\ garbled' = IF whole \/ plain THEN garbled ELSE garbled \union {g}
    /\ pipe' = [pipe EXCEPT ![g] = Tail(@)]
    /\ UNCHANGED <<hubVars, reader, pc, taskVars, state, out, torn, overtaken, cancels>>

ChildAnswers(g) ==
    /\ state[g] = "running"
    /\ \E id \in working[g] :
         /\ working' = [working EXCEPT ![g] = @ \ {id}]
         /\ out' = [out EXCEPT ![g] = @ \union {id}]
    /\ UNCHANGED <<hubVars, reader, pc, taskVars, state, pipe, line, historyVars>>

\* It crashes, or its stdin is closed and it has read all of it.
ChildExits(g) ==
    /\ state[g] \in {"running", "hung"}
    /\ \/ "exit" \in Conduct
       \/ /\ state[g] = "running"
          /\ stdin # g /\ \A t \in Task : mine[t] = g => pc[t] # "store_stdin"
          /\ pipe[g] = <<>>
    /\ Killed(g)
    /\ UNCHANGED <<hubVars, reader, pc, taskVars, out, historyVars>>

\* It stops reading and answering, but lives.
ChildHangs(g) ==
    /\ "hang" \in Conduct
    /\ state[g] = "running"
    /\ state' = [state EXCEPT ![g] = "hung"]
    /\ UNCHANGED <<hubVars, reader, pc, taskVars, pipe, line, working, out, historyVars>>

-----------------------------------------------------------------------------

Proceed(t) ==
    \/ Request(t) \/ Register(t) \/ Lock(t) \/ Write(t) \/ WriteFails(t)
    \/ Answered(t) \/ Refused(t) \/ TimedOut(t)
    \/ Connect(t) \/ StoreStdin(t) \/ StoreChild(t) \/ Established(t)
    \/ Disconnect(t) \/ DropStdin(t) \/ Kill(t)

Read(g) == ReadAnswer(g) \/ ReadEnds(g) \/ MarkDisconnected(g) \/ DrainPending(g)
ChildRuns(g) == ChildReads(g) \/ ChildAnswers(g) \/ ChildExits(g) \/ ChildHangs(g)

Next ==
    \/ \E t \in Task : StartJob(t) \/ Proceed(t) \/ Cancel(t)
    \/ \E g \in Child : Read(g) \/ ChildRuns(g)

Spec == Init /\ [][Next]_vars

\* The runtime polls every task that can go on, and its timers fire.  A mutex is
\* handed to its waiters in order; as requests are bounded, weak fairness is
\* enough for that.  A child reads its stdin, but need never answer.
Fairness ==
    /\ \A t \in Task : WF_vars(Proceed(t))
    /\ \A g \in Child : WF_vars(Read(g)) /\ WF_vars(ChildReads(g))

FairSpec == Spec /\ Fairness

-----------------------------------------------------------------------------
(* Properties.                                                             *)

\* Every variable has its type: the shape of SharedState, of the tasks and of
\* the processes; and no id is pending that has not been given out.
TypeOK ==
    /\ connected \in BOOLEAN /\ hasInit \in BOOLEAN
    /\ stdin \in Child \union {Nothing} /\ child \in Child \union {Nothing}
    /\ counter \in 0 .. MaxRequests /\ pending \subseteq 1 .. counter
    /\ writer \in Task \union {NoTask}
    /\ reader \in [Child -> {"none", "reading", "ended", "marked", "done"}]
    /\ pc \in [Task -> Location]
    /\ job \in [Task -> DOMAIN Program] /\ op \in [Task -> 1 .. 3]
    /\ mine \in [Task -> Child \union {Nothing}]
    /\ req \in [Task -> Id \union {Nothing}]
    /\ left \in [Task -> 0 .. LineLength]
    /\ to \in [Task -> Child \union {Nothing}]
    /\ reply \in [Task -> Reply]
    /\ state \in [Child -> {"unborn", "running", "hung", "dead"}]
    /\ pipe \in [Child -> Seq(Piece)] /\ \A g \in Child : Len(pipe[g]) <= Room
    /\ line \in [Child -> Seq(Id \union {Nothing})]
    /\ working \in [Child -> SUBSET Id] /\ out \in [Child -> SUBSET Id]
    /\ torn \subseteq Child /\ garbled \subseteq Child /\ overtaken \subseteq Child
    /\ cancels \in 0 .. MaxCancels

\* An answer a caller receives comes from the child its request was written
\* to, even when an old child, its reader still running, answers late:
\* request_counter outlives the connections, so no id is used twice.
AnswerIsFromItsChild ==
    \A t \in Task : reply[t].kind = "answer" => reply[t].from = to[t]

\* However the writers interleave, and however little a pipe takes at a time,
\* a child reads the lines the hub wrote; only a client that goes away while
\* its line is half written spoils one.
OnlyACancelTearsALine == garbled \subseteq torn

\* No process outlives its owner: a child that runs is the one in the slot, or
\* is still held by the connect that spawned it.
NoStrayChild ==
    \A g \in Child : state[g] \in {"running", "hung"} => child = g \/ \E t \in Task : mine[t] = g

\* Once the reader of the child in the slot has marked the end, the backend is
\* not connected: the comment at lib.rs:235, "Mark as disconnected when the
\* reader exits".  The one exception: a connect whose initialize was answered
\* by then, by this child or by one it replaced, sets the flag as its last
\* step, and may well do so after the reader.
EndedReaderMeansDisconnected ==
    child \notin {Nothing} \union overtaken /\ reader[child] \in {"marked", "done"} => ~connected

\* A child that lives and no longer reads, and a line that does not fit its pipe:
\* the write waits, without a timeout, and keeps the locks.
Stuck == \E t \in Task : pc[t] = "write" /\ state[to[t]] = "hung" /\ Len(pipe[to[t]]) = Room

\* Every job ends, though the child may exit, garble its output or never
\* answer; a child that stops reading holds jobs up only once its pipe is full.
\* README.md:370, "A hung backend must not hang the hub", without that exception.
JobsEnd == \A t \in Task : pc[t] # "idle" ~> (pc[t] = "idle" \/ Stuck)

-----------------------------------------------------------------------------
(* StdioBackend implements the McpBackend trait.                           *)

Doing(t) == IF pc[t] \in Operations \union {"idle"} THEN "none" ELSE Operation(t)

\* The line is written: the child may carry out the request.
Carried(t) == pc[t] = "wait" /\ Operation(t) = "request"

Contract == INSTANCE Backend WITH
    refresh <- FALSE,
    doing <- [t \in Task |-> Doing(t)],
    carried <- {t \in Task : Carried(t)}

(* However connects, disconnects, requests, cancelled calls and readers     *)
(* that end interleave, the trait's word is kept (crates/core/src/          *)
(* lib.rs:31-86): no request starts on a backend that is not connected,     *)
(* none is written twice, and only a connect that has done its handshake    *)
(* sets the flag.                                                           *)
ImplementsBackend == Contract!Spec

=============================================================================
