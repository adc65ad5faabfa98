-------------------------- MODULE StdioBackendProofs --------------------------
(* Types, processes, answers, lines and connections of the stdio backend, for *)
(* every number of tasks, children and requests and every size of the pipes.  *)
EXTENDS StdioBackend, FiniteSetTheorems, SequenceTheorems, TLAPS

\* A job is a sequence of one to three operations.
LEMMA Programs ==
    \A j \in DOMAIN Program :
        /\ Program[j] \in Seq(Operations) /\ Len(Program[j]) \in 1 .. 3
        /\ \A i \in Nat \ {0} : i <= Len(Program[j]) => i \in 1 .. 3 /\ Program[j][i] \in Operations
  <1>1. DOMAIN Program = {"call", "connect", "reconnect", "per_call"}
    BY DEF Program
  <1>2. /\ Program["call"] = <<"request">> /\ Program["connect"] = <<"connect", "request">>
        /\ Program["reconnect"] = <<"disconnect", "connect", "request">>
        /\ Program["per_call"] = <<"connect", "request", "disconnect">>
    BY DEF Program
  <1>3. ASSUME NEW p, p \in {<<"request">>, <<"connect", "request">>,
                             <<"disconnect", "connect", "request">>, <<"connect", "request", "disconnect">>}
        PROVE  /\ p \in Seq(Operations) /\ Len(p) \in 1 .. 3
               /\ \A i \in Nat \ {0} : i <= Len(p) => i \in 1 .. 3 /\ p[i] \in Operations
    <2>1. CASE p = <<"request">>
      BY <2>1 DEF Operations
    <2>2. CASE p = <<"connect", "request">>
      BY <2>2 DEF Operations
    <2>3. CASE p = <<"disconnect", "connect", "request">>
      BY <2>3 DEF Operations
    <2>4. CASE p = <<"connect", "request", "disconnect">>
      BY <2>4 DEF Operations
    <2> QED BY <1>3, <2>1, <2>2, <2>3, <2>4
  <1> QED BY <1>1, <1>2, <1>3

\* Where tasks are, beside the types: a writer has a pipe, and whoever holds
\* the locks is writing.
Writers ==
    /\ \A t \in Task : pc[t] = "write" => to[t] \in Child
    /\ \A t \in Task : writer = t => pc[t] = "write"

\* A child a task still holds in a local has just been spawned.
Holders == \A t \in Task : mine[t] # Nothing => pc[t] \in {"store_stdin", "store_child"}

TypeInv == TypeOK /\ Writers /\ Holders

TaskTypes ==
    /\ pc \in [Task -> Location]
    /\ job \in [Task -> DOMAIN Program] /\ op \in [Task -> 1 .. 3]
    /\ mine \in [Task -> Child \union {Nothing}]
    /\ req \in [Task -> Id \union {Nothing}]
    /\ left \in [Task -> 0 .. LineLength]
    /\ to \in [Task -> Child \union {Nothing}]
    /\ reply \in [Task -> Reply]

ChildTypes ==
    /\ state \in [Child -> {"unborn", "running", "hung", "dead"}]
    /\ pipe \in [Child -> Seq(Piece)] /\ \A g \in Child : Len(pipe[g]) <= Room
    /\ line \in [Child -> Seq(Id \union {Nothing})]
    /\ working \in [Child -> SUBSET Id] /\ out \in [Child -> SUBSET Id]

HubTypes ==
    /\ connected \in BOOLEAN /\ hasInit \in BOOLEAN
    /\ stdin \in Child \union {Nothing} /\ child \in Child \union {Nothing}
    /\ counter \in 0 .. MaxRequests /\ pending \subseteq 1 .. counter
    /\ writer \in Task \union {NoTask}
    /\ reader \in [Child -> {"none", "reading", "ended", "marked", "done"}]

HistoryTypes ==
    /\ torn \subseteq Child /\ garbled \subseteq Child /\ overtaken \subseteq Child
    /\ cancels \in 0 .. MaxCancels

LEMMA TypeParts == TypeOK <=> TaskTypes /\ ChildTypes /\ HubTypes /\ HistoryTypes
  BY DEF TypeOK, TaskTypes, ChildTypes, HubTypes, HistoryTypes

-----------------------------------------------------------------------------
(* What the helpers keep.                                                  *)

LEMMA ResumeType ==
    ASSUME TypeInv, NEW t \in Task, NEW i \in Nat \ {0}, Resume(t, i)
    PROVE  /\ TaskTypes'
           /\ pc' = [pc EXCEPT ![t] = pc'[t]] /\ pc'[t] \in Operations \union {"idle"}
           /\ mine' = [mine EXCEPT ![t] = Nothing] /\ to' = [to EXCEPT ![t] = Nothing]
           /\ req' = [req EXCEPT ![t] = Nothing] /\ reply' = [reply EXCEPT ![t] = NoReply]
  <1>1. job[t] \in DOMAIN Program /\ "call" \in DOMAIN Program
    BY DEF TypeInv, TypeOK, Program
  <1>2. i <= Len(Program[job[t]]) => i \in 1 .. 3 /\ Program[job[t]][i] \in Operations
    BY <1>1, Programs
  <1>3. NoReply \in Reply /\ Operations \union {"idle"} \subseteq Location
    BY DEF NoReply, Reply, Operations, Location
  <1>4. pc' = [pc EXCEPT ![t] = pc'[t]] /\ pc'[t] \in Operations \union {"idle"}
    BY <1>2 DEF Resume, Goto, TypeInv, TypeOK
  <1>5. op' \in [Task -> 1 .. 3] /\ job' \in [Task -> DOMAIN Program]
    BY <1>1, <1>2 DEF Resume, TypeInv, TypeOK
  <1>6. pc' \in [Task -> Location]
    BY <1>3, <1>4 DEF TypeInv, TypeOK
  <1>7. /\ mine' = [mine EXCEPT ![t] = Nothing] /\ to' = [to EXCEPT ![t] = Nothing]
        /\ req' = [req EXCEPT ![t] = Nothing] /\ reply' = [reply EXCEPT ![t] = NoReply]
        /\ left' = [left EXCEPT ![t] = 0]
    BY DEF Resume
  <1>8. /\ mine' \in [Task -> Child \union {Nothing}] /\ to' \in [Task -> Child \union {Nothing}]
        /\ req' \in [Task -> Id \union {Nothing}] /\ reply' \in [Task -> Reply]
        /\ left' \in [Task -> 0 .. LineLength]
    BY <1>3, <1>7 DEF TypeInv, TypeOK, LineLength
  <1> QED BY <1>4, <1>5, <1>6, <1>7, <1>8 DEF TaskTypes

\* Succeed and Fail are both of them a Resume.
LEMMA EndType ==
    ASSUME TypeInv, NEW t \in Task, Succeed(t) \/ Fail(t)
    PROVE  \E i \in Nat \ {0} : Resume(t, i)
  <1>1. op[t] \in 1 .. 3 /\ Len(Program[job[t]]) \in 1 .. 3
    BY Programs DEF TypeInv, TypeOK
  <1>2. op[t] + 1 \in Nat \ {0} /\ Len(Program[job[t]]) + 1 \in Nat \ {0}
    BY <1>1
  <1> QED BY <1>2 DEF Succeed, Fail

LEMMA KilledType ==
    ASSUME TypeInv, NEW g \in Child \union {Nothing}, Killed(g), UNCHANGED out
    PROVE  ChildTypes'
  <1>1. <<>> \in Seq(Piece) /\ <<>> \in Seq(Id \union {Nothing}) /\ Len(<<>>) = 0
    OBVIOUS
  <1>2. 0 <= Room
    BY ConstantsAssumption
  <1>3. ChildTypes
    BY DEF TypeInv, TypeOK, ChildTypes
  <1>4. state' \in [Child -> {"unborn", "running", "hung", "dead"}]
    BY <1>3 DEF Killed, ChildTypes
  <1>5. /\ pipe' \in [Child -> Seq(Piece)] /\ \A h \in Child : Len(pipe'[h]) <= Room
        /\ line' \in [Child -> Seq(Id \union {Nothing})]
    BY <1>1, <1>2, <1>3 DEF Killed, ChildTypes
  <1>6. working' \in [Child -> SUBSET Id] /\ out' \in [Child -> SUBSET Id]
    BY <1>3 DEF Killed, ChildTypes
  <1> QED BY <1>4, <1>5, <1>6 DEF ChildTypes

LEMMA SpawnedType ==
    ASSUME Spawned < MaxChildren
    PROVE  Spawned + 1 \in Child
  <1>1. IsFiniteSet(Child) /\ Cardinality(Child) = MaxChildren
    BY FS_Interval, ConstantsAssumption DEF Child
  <1>2. Spawned \in Nat
    BY <1>1, FS_Subset, FS_CardinalityType DEF Spawned
  <1> QED BY <1>2, ConstantsAssumption DEF Child

LEMMA WriteType ==
    ASSUME TypeInv, NEW t \in Task, Write(t)
    PROVE  ChildTypes' /\ left' \in [Task -> 0 .. LineLength]
  <1> DEFINE g == to[t]
             room == Room - Len(pipe[g])
             n == IF room < left[t] THEN room ELSE left[t]
             more == SubSeq(Pieces(t, left[t]), 1, n)
  <1>1. g \in Child
    BY DEF Write, TypeInv, Writers
  <1>2. pipe[g] \in Seq(Piece) /\ Len(pipe[g]) <= Room /\ Room \in Nat
    BY <1>1, ConstantsAssumption DEF TypeInv, TypeOK
  <1>3. left[t] \in 0 .. 2 /\ n \in 0 .. left[t] /\ n <= room
    BY <1>2 DEF TypeInv, TypeOK, LineLength
  <1>4. Pieces(t, left[t]) \in Seq(Piece) /\ Len(Pieces(t, left[t])) = left[t]
    <2>1. \A i \in 1 .. left[t] : [id |-> req[t], end |-> i = left[t]] \in Piece
      BY DEF TypeInv, TypeOK, Piece
    <2> QED BY <2>1, <1>3 DEF Pieces
  <1>5. more \in Seq(Piece) /\ Len(more) = n
    <2> HIDE DEF n
    <2> QED BY <1>3, <1>4, SubSeqProperties
  <1>6. pipe[g] \o more \in Seq(Piece) /\ Len(pipe[g] \o more) = Len(pipe[g]) + n
    <2> HIDE DEF more, n
    <2> QED BY <1>2, <1>5, ConcatProperties
  <1>7. Len(pipe[g] \o more) <= Room
    BY <1>2, <1>3, <1>6
  <1>8. pipe' = [pipe EXCEPT ![g] = pipe[g] \o more] /\ left' = [left EXCEPT ![t] = left[t] - n]
    BY DEF Write
  <1>9. UNCHANGED <<state, line, working, out>>
    BY DEF Write
  <1> HIDE DEF g, more, n
  <1> QED BY <1>1, <1>3, <1>6, <1>7, <1>8, <1>9 DEF TypeInv, TypeOK, ChildTypes, LineLength

\* A task that ends its operation lets go of the locks and of its child.
LEMMA EndKeeps ==
    ASSUME TypeInv, NEW t \in Task, NEW i \in Nat \ {0}, Resume(t, i),
           writer' = NoTask \/ (writer' = writer /\ writer # t)
    PROVE  TaskTypes' /\ Writers' /\ Holders'
  <1>1. TaskTypes' /\ pc' = [pc EXCEPT ![t] = pc'[t]] /\ pc'[t] \in Operations \union {"idle"}
    BY ResumeType
  <1>2. mine' = [mine EXCEPT ![t] = Nothing] /\ to' = [to EXCEPT ![t] = Nothing]
    BY ResumeType
  <1>3. NoTask \notin Task
    BY ConstantsAssumption
  <1> QED BY <1>1, <1>2, <1>3 DEF TypeInv, TypeOK, Writers, Holders, Operations

LEMMA MoveKeeps ==
    ASSUME TypeInv, NEW t \in Task, NEW l \in Location \ {"write"}, Goto(t, l), pc[t] # "write",
           UNCHANGED <<writer, to>>
    PROVE  pc' \in [Task -> Location] /\ Writers'
  BY DEF TypeInv, TypeOK, Writers, Goto

-----------------------------------------------------------------------------
(* Types.                                                                  *)

LEMMA InitTypeInv == Init => TypeInv
  <1> SUFFICES ASSUME Init PROVE TypeInv
    OBVIOUS
  <1>1. NoReply \in Reply /\ "call" \in DOMAIN Program /\ "idle" \in Location
    BY DEF NoReply, Reply, Program, Location
  <1>2. <<>> \in Seq(Piece) /\ <<>> \in Seq(Id \union {Nothing}) /\ Len(<<>>) = 0
    OBVIOUS
  <1>3. 0 <= Room /\ 0 \in 0 .. MaxRequests /\ 0 \in 0 .. MaxCancels /\ NoTask \notin Task
    BY ConstantsAssumption
  <1>4. TaskTypes
    BY <1>1 DEF Init, TaskTypes, LineLength
  <1>5. HubTypes /\ HistoryTypes
    BY <1>3 DEF Init, HubTypes, HistoryTypes, Nothing
  <1>7. ChildTypes
    <2>1. \A g \in Child : pipe[g] = <<>>
      BY DEF Init
    <2>2. \A g \in Child : Len(pipe[g]) <= Room
      BY <2>1, <1>2, <1>3
    <2> QED BY <1>2, <2>2 DEF Init, ChildTypes
  <1>6. Writers /\ Holders
    BY <1>3 DEF Init, Writers, Holders
  <1> QED BY <1>4, <1>5, <1>6, <1>7, TypeParts DEF TypeInv

LEMMA TaskTypeInv ==
    ASSUME TypeInv, NEW t \in Task, Proceed(t)
    PROVE  TypeInv'
  <1> USE ConstantsAssumption
  <1>0. /\ TypeOK /\ Writers /\ Holders /\ TaskTypes /\ ChildTypes /\ HubTypes /\ HistoryTypes
        /\ writer = t => pc[t] = "write"
    BY TypeParts DEF TypeInv, Writers
  <1>p. TaskTypes' /\ ChildTypes' /\ HubTypes' /\ HistoryTypes' /\ Writers' /\ Holders' => TypeInv'
    BY TypeParts, PTL DEF TypeInv
  <1>e. ASSUME Succeed(t) \/ Fail(t), writer' = NoTask \/ (writer' = writer /\ writer # t)
        PROVE  TaskTypes' /\ Writers' /\ Holders'
    BY <1>e, EndType, EndKeeps
  <1>c. ASSUME UNCHANGED childVars PROVE ChildTypes'
    BY <1>0, <1>c DEF ChildTypes, childVars
  <1>h. ASSUME UNCHANGED historyVars PROVE HistoryTypes'
    BY <1>0, <1>h DEF HistoryTypes, historyVars
  <1>b. ASSUME UNCHANGED hubVars, UNCHANGED reader PROVE HubTypes'
    BY <1>0, <1>b DEF HubTypes, hubVars
  <1>1. CASE Request(t)
    <2>1. UNCHANGED <<hubVars, reader, childVars, historyVars>> /\ writer' = writer /\ writer # t
      BY <1>0, <1>1 DEF Request, hubVars
    <2>2. CASE Fail(t)
      BY <2>1, <2>2, <1>e, <1>c, <1>h, <1>b, <1>p
    <2>3. CASE Goto(t, "register") /\ UNCHANGED taskVars
      <3>1. Writers' /\ pc' \in [Task -> Location]
        BY <2>1, <2>3, <1>1, MoveKeeps DEF Request, Location, taskVars
      <3>2. TaskTypes' /\ Holders'
        BY <2>3, <3>1, <1>0, <1>1 DEF Request, Goto, TaskTypes, taskVars, Holders
      <3> QED BY <2>1, <3>1, <3>2, <1>c, <1>h, <1>b, <1>p
    <2> QED BY <1>1, <2>2, <2>3 DEF Request
  <1>2. CASE Register(t)
    <2>1. Writers' /\ pc' \in [Task -> Location]
      BY <1>2, MoveKeeps DEF Register, Location
    <2>2. counter' \in 1 .. MaxRequests /\ pending' \subseteq 1 .. counter' /\ counter' \in Id
      BY <1>0, <1>2 DEF Register, HubTypes, Id
    <2>3. TaskTypes' /\ Holders'
      BY <1>0, <1>2, <2>1, <2>2 DEF Register, Goto, TaskTypes, Holders, LineLength
    <2>4. HubTypes'
      BY <1>0, <1>2, <2>2 DEF Register, HubTypes
    <2> QED BY <1>2, <2>1, <2>3, <2>4, <1>c, <1>h, <1>p DEF Register
  <1>3. CASE Lock(t)
    <2>1. CASE stdin = Nothing
      BY <1>0, <1>3, <2>1, <1>e, <1>c, <1>h, <1>b, <1>p DEF Lock, hubVars
    <2>2. CASE stdin # Nothing
      <3>1. stdin \in Child
        BY <1>0, <2>2 DEF HubTypes
      <3>2. TaskTypes' /\ Writers' /\ Holders' /\ HubTypes'
        BY <1>0, <1>3, <2>2, <3>1 DEF Lock, Goto, TaskTypes, Writers, Holders, HubTypes, Location
      <3> QED BY <1>3, <3>2, <1>c, <1>h, <1>p DEF Lock
    <2> QED BY <2>1, <2>2
  <1>4. CASE Write(t)
    <2>1. ChildTypes' /\ left' \in [Task -> 0 .. LineLength]
      BY <1>4, WriteType
    <2>2. pc' = [pc EXCEPT ![t] = pc'[t]] /\ pc'[t] \in {"write", "established", "wait"}
      BY <1>0, <1>4 DEF Write, Goto, TaskTypes
    <2>3. writer' = NoTask \/ (writer' = writer /\ pc'[t] = "write")
      BY <1>0, <1>4 DEF Write, Goto, TaskTypes
    <2>4. TaskTypes'
      BY <1>0, <1>4, <2>1, <2>2 DEF Write, TaskTypes, Location
    <2>5. Writers' /\ Holders'
      BY <1>0, <1>4, <2>2, <2>3 DEF Write, Writers, Holders, TaskTypes
    <2>6. HubTypes' /\ HistoryTypes'
      BY <1>0, <1>4, <2>3 DEF Write, HubTypes, HistoryTypes, historyVars
    <2> QED BY <2>1, <2>4, <2>5, <2>6, <1>p
  <1>5. CASE WriteFails(t)
    <2>1. HubTypes'
      BY <1>0, <1>5 DEF WriteFails, HubTypes
    <2> QED BY <1>5, <2>1, <1>e, <1>c, <1>h, <1>p DEF WriteFails
  <1>6. CASE Answered(t)
    <2>1. UNCHANGED <<hubVars, reader, childVars, historyVars>> /\ writer' = writer /\ writer # t
      BY <1>0, <1>6 DEF Answered, hubVars
    <2>2. CASE Operation(t) = "request"
      BY <1>6, <2>1, <2>2, <1>e, <1>c, <1>h, <1>b, <1>p DEF Answered
    <2>3. CASE Operation(t) # "request"
      <3>1. /\ Goto(t, "lock") /\ req' = [req EXCEPT ![t] = Nothing]
            /\ left' = [left EXCEPT ![t] = LineLength] /\ reply' = [reply EXCEPT ![t] = NoReply]
            /\ UNCHANGED <<job, op, mine, to>> /\ pc[t] = "wait" /\ NoReply \in Reply
        BY <1>6, <2>3 DEF Answered, NoReply, Reply
      <3>2. TaskTypes' /\ Writers' /\ Holders'
        BY <1>0, <2>1, <3>1 DEF Goto, TaskTypes, Writers, Holders, Location, LineLength
      <3> QED BY <2>1, <3>2, <1>c, <1>h, <1>b, <1>p
    <2> QED BY <2>2, <2>3
  <1>7. CASE Refused(t)
    BY <1>0, <1>7, <1>e, <1>c, <1>h, <1>b, <1>p DEF Refused, hubVars
  <1>8. CASE TimedOut(t)
    <2>1. HubTypes'
      BY <1>0, <1>8 DEF TimedOut, HubTypes
    <2> QED BY <1>0, <1>8, <2>1, <1>e, <1>c, <1>h, <1>p DEF TimedOut
  <1>9. CASE Connect(t)
    <2>1. UNCHANGED <<hubVars, reader, historyVars, pipe, line, working, out>> /\ writer' = writer /\ writer # t
      BY <1>0, <1>9 DEF Connect, hubVars
    <2>2. CASE (Succeed(t) \/ Fail(t)) /\ UNCHANGED state
      <3>1. UNCHANGED childVars
        BY <2>1, <2>2 DEF childVars
      <3> QED BY <2>1, <2>2, <3>1, <1>e, <1>c, <1>h, <1>b, <1>p
    <2>3. CASE /\ Spawned < MaxChildren
               /\ state' = [state EXCEPT ![Spawned + 1] = "running"]
               /\ mine' = [mine EXCEPT ![t] = Spawned + 1]
               /\ Goto(t, "store_stdin")
               /\ UNCHANGED <<job, op, req, left, to, reply>>
      <3>1. Spawned + 1 \in Child
        BY <2>3, SpawnedType
      <3>2. Writers' /\ TaskTypes' /\ Holders'
        BY <1>0, <1>9, <2>1, <2>3, <3>1 DEF Connect, Goto, TaskTypes, Writers, Holders, Location
      <3>3. ChildTypes'
        BY <1>0, <2>1, <2>3, <3>1 DEF ChildTypes
      <3> QED BY <2>1, <3>2, <3>3, <1>h, <1>b, <1>p
    <2> QED BY <1>9, <2>2, <2>3 DEF Connect
  <1>10. CASE StoreStdin(t)
    <2>1. mine[t] \in Child \union {Nothing}
      BY <1>0 DEF TaskTypes
    <2>2. HubTypes'
      BY <1>0, <1>10, <2>1 DEF StoreStdin, HubTypes
    <2>3. TaskTypes' /\ Writers' /\ Holders'
      BY <1>0, <1>10 DEF StoreStdin, Goto, TaskTypes, Writers, Holders, Location, taskVars
    <2> QED BY <1>10, <2>2, <2>3, <1>c, <1>h, <1>p DEF StoreStdin
  <1>11. CASE StoreChild(t)
    <2>1. mine[t] \in Child \union {Nothing} /\ child \in Child \union {Nothing}
      BY <1>0 DEF TaskTypes, HubTypes
    <2>2. ChildTypes'
      BY <1>11, <2>1, KilledType DEF StoreChild
    <2>3. HubTypes'
      BY <1>0, <1>11, <2>1 DEF StoreChild, HubTypes
    <2>4. TaskTypes' /\ Writers' /\ Holders'
      BY <1>0, <1>11 DEF StoreChild, Goto, TaskTypes, Writers, Holders, Location
    <2> QED BY <1>11, <2>2, <2>3, <2>4, <1>h, <1>p DEF StoreChild
  <1>12. CASE Established(t)
    <2>1. HubTypes'
      BY <1>0, <1>12 DEF Established, HubTypes
    <2> QED BY <1>0, <1>12, <2>1, <1>e, <1>c, <1>h, <1>p DEF Established
  <1>13. CASE Disconnect(t)
    <2>1. TaskTypes' /\ Writers' /\ Holders' /\ HubTypes'
      BY <1>0, <1>13 DEF Disconnect, Goto, TaskTypes, Writers, Holders, HubTypes, Location, taskVars
    <2> QED BY <1>13, <2>1, <1>c, <1>h, <1>p DEF Disconnect
  <1>14. CASE DropStdin(t)
    <2>1. TaskTypes' /\ Writers' /\ Holders' /\ HubTypes'
      BY <1>0, <1>14 DEF DropStdin, Goto, TaskTypes, Writers, Holders, HubTypes, Location, taskVars
    <2> QED BY <1>14, <2>1, <1>c, <1>h, <1>p DEF DropStdin
  <1>15. CASE Kill(t)
    <2>1. ChildTypes'
      BY <1>0, <1>15, KilledType DEF Kill, HubTypes
    <2>2. HubTypes'
      BY <1>0, <1>15 DEF Kill, HubTypes
    <2> QED BY <1>0, <1>15, <2>1, <2>2, <1>e, <1>h, <1>p DEF Kill
  <1> QED BY <1>1, <1>2, <1>3, <1>4, <1>5, <1>6, <1>7, <1>8, <1>9, <1>10, <1>11, <1>12, <1>13,
          <1>14, <1>15
          DEF Proceed

LEMMA ReaderTypeInv ==
    ASSUME TypeInv, NEW g \in Child, Read(g)
    PROVE  TypeInv'
  <1>0. TypeOK /\ Writers /\ Holders /\ TaskTypes /\ ChildTypes /\ HubTypes /\ HistoryTypes
    BY TypeParts DEF TypeInv
  <1>1. \A k \in {"answer", "gone"} : [kind |-> k, from |-> g] \in Reply
    BY DEF Reply
  <1>2. UNCHANGED <<writer, pc, job, op, mine, req, left, to>>
    BY DEF Read, ReadAnswer, ReadEnds, MarkDisconnected, DrainPending, hubVars, taskVars
  <1>3. reply' \in [Task -> Reply]
    BY <1>0, <1>1
       DEF Read, ReadAnswer, Hand, ReadEnds, MarkDisconnected, DrainPending, taskVars, TaskTypes
  <1>4. TaskTypes' /\ Writers' /\ Holders'
    BY <1>0, <1>2, <1>3 DEF TaskTypes, Writers, Holders
  <1>5. HubTypes'
    BY <1>0 DEF Read, ReadAnswer, ReadEnds, MarkDisconnected, DrainPending, hubVars, HubTypes
  <1>6. ChildTypes'
    BY <1>0 DEF Read, ReadAnswer, ReadEnds, MarkDisconnected, DrainPending, childVars, ChildTypes
  <1>7. HistoryTypes'
    BY <1>0
       DEF Read, ReadAnswer, ReadEnds, MarkDisconnected, DrainPending, historyVars, HistoryTypes
  <1> QED BY <1>4, <1>5, <1>6, <1>7, TypeParts, PTL DEF TypeInv

LEMMA ChildTypeInv ==
    ASSUME TypeInv, NEW g \in Child, ChildRuns(g)
    PROVE  TypeInv'
  <1>0. TypeOK /\ Writers /\ Holders /\ TaskTypes /\ ChildTypes /\ HubTypes /\ HistoryTypes
    BY TypeParts DEF TypeInv
  <1>1. UNCHANGED <<hubVars, reader, pc, taskVars, torn, overtaken, cancels>>
    BY DEF ChildRuns, ChildReads, ChildAnswers, ChildExits, ChildHangs, historyVars
  <1>2. TaskTypes' /\ Writers' /\ Holders' /\ HubTypes'
    BY <1>0, <1>1 DEF TaskTypes, Writers, Holders, HubTypes, hubVars, taskVars
  <1>3. HistoryTypes'
    BY <1>0, <1>1
       DEF ChildRuns, ChildReads, ChildAnswers, ChildExits, ChildHangs, historyVars, HistoryTypes
  <1>4. ChildTypes'
    <2>1. CASE ChildReads(g)
      <3>1. pipe[g] \in Seq(Piece) /\ pipe[g] # <<>>
        BY <1>0, <2>1 DEF ChildReads, ChildTypes
      <3>2. /\ Head(pipe[g]) \in Piece /\ Tail(pipe[g]) \in Seq(Piece)
            /\ Len(Tail(pipe[g])) <= Len(pipe[g])
        BY <3>1, HeadTailProperties
      <3>3. Head(pipe[g]).id \in Id \union {Nothing}
        BY <3>2 DEF Piece
      <3>4. /\ Append(line[g], Head(pipe[g]).id) \in Seq(Id \union {Nothing})
            /\ <<>> \in Seq(Id \union {Nothing})
        BY <1>0, <3>3, AppendProperties DEF ChildTypes
      <3>5. line' \in [Child -> Seq(Id \union {Nothing})]
        BY <1>0, <2>1, <3>4 DEF ChildReads, ChildTypes
      <3>6. working' \in [Child -> SUBSET Id]
        BY <1>0, <2>1, <3>3 DEF ChildReads, ChildTypes
      <3>7. pipe' \in [Child -> Seq(Piece)] /\ \A h \in Child : Len(pipe'[h]) <= Room
        <4>1. pipe' = [pipe EXCEPT ![g] = Tail(pipe[g])]
          BY <2>1 DEF ChildReads
        <4>2. Len(Tail(pipe[g])) <= Room
          BY <1>0, <3>1, <3>2, LenProperties, ConstantsAssumption DEF ChildTypes
        <4> QED BY <1>0, <3>2, <4>1, <4>2 DEF ChildTypes
      <3> QED BY <1>0, <2>1, <3>5, <3>6, <3>7 DEF ChildReads, ChildTypes
    <2>2. CASE ChildAnswers(g)
      BY <1>0, <2>2 DEF ChildAnswers, ChildTypes
    <2>3. CASE ChildExits(g)
      BY <2>3, KilledType DEF ChildExits
    <2>4. CASE ChildHangs(g)
      BY <1>0, <2>4 DEF ChildHangs, ChildTypes
    <2> QED BY <2>1, <2>2, <2>3, <2>4 DEF ChildRuns
  <1> QED BY <1>2, <1>3, <1>4, TypeParts, PTL DEF TypeInv

LEMMA NextTypeInv == TypeInv /\ [Next]_vars => TypeInv'
  <1> SUFFICES ASSUME TypeInv, [Next]_vars PROVE TypeInv'
    OBVIOUS
  <1>0. TypeOK /\ Writers /\ Holders /\ TaskTypes /\ ChildTypes /\ HubTypes /\ HistoryTypes
    BY TypeParts DEF TypeInv
  <1>1. ASSUME NEW t \in Task, StartJob(t) PROVE TypeInv'
    <2>1. PICK j \in Jobs : job' = [job EXCEPT ![t] = j] /\ Goto(t, Program[j][1])
      BY <1>1 DEF StartJob
    <2>2. j \in DOMAIN Program
      BY <2>1, ConstantsAssumption
    <2>3. Program[j][1] \in Location \ {"write"}
      <3>1. Len(Program[j]) \in 1 .. 3
        BY <2>2, Programs
      <3>2. 1 \in Nat \ {0} /\ 1 <= Len(Program[j])
        BY <3>1
      <3> QED BY <2>2, <3>2, Programs DEF Operations, Location
    <2>4. UNCHANGED <<hubVars, reader, op, mine, req, left, to, reply, childVars, historyVars>> /\ pc[t] = "idle"
      BY <1>1 DEF StartJob
    <2>5. TaskTypes' /\ Holders'
      BY <1>0, <2>1, <2>2, <2>3, <2>4 DEF Goto, TaskTypes, Holders
    <2>6. Writers'
      BY <2>1, <2>3, <2>4, MoveKeeps DEF hubVars
    <2>7. ChildTypes' /\ HubTypes' /\ HistoryTypes'
      BY <1>0, <2>4 DEF ChildTypes, HubTypes, HistoryTypes, childVars, hubVars, historyVars
    <2> QED BY <2>5, <2>6, <2>7, TypeParts, PTL DEF TypeInv
  <1>2. ASSUME NEW t \in Task, Cancel(t) PROVE TypeInv'
    <2>1. Len(Program[job[t]]) + 1 \in Nat \ {0}
      BY <1>0, Programs DEF TaskTypes
    <2>2. writer' = NoTask \/ (writer' = writer /\ writer # t)
      BY <1>2 DEF Cancel
    <2>3. TaskTypes' /\ Writers' /\ Holders'
      BY <1>2, <2>1, <2>2, EndKeeps DEF Cancel
    <2>4. ChildTypes'
      BY <1>0, <1>2, KilledType DEF Cancel, TaskTypes
    <2>5. writer = t => to[t] \in Child
      BY <1>0 DEF Writers
    <2>6. HubTypes' /\ HistoryTypes'
      BY <1>0, <1>2, <2>5, ConstantsAssumption DEF Cancel, HubTypes, HistoryTypes
    <2> QED BY <2>3, <2>4, <2>6, TypeParts, PTL DEF TypeInv
  <1>3. CASE UNCHANGED vars
    <2>1. TypeOK'
      BY <1>0, <1>3 DEF vars, TypeOK
    <2>2. Writers' /\ Holders'
      BY <1>0, <1>3 DEF vars, Writers, Holders
    <2> QED BY <2>1, <2>2 DEF TypeInv
  <1> QED BY <1>1, <1>2, <1>3, TaskTypeInv, ReaderTypeInv, ChildTypeInv DEF Next

\* Every variable has its type: the shape of SharedState, of the tasks and of
\* the processes, at every size.
THEOREM TypeCorrect == Spec => []TypeOK
  <1>1. TypeInv => TypeOK
    BY DEF TypeInv
  <1> QED BY InitTypeInv, NextTypeInv, <1>1, PTL DEF Spec

-----------------------------------------------------------------------------
(* Processes.                                                              *)

LEMMA NextNoStray == TypeInv /\ NoStrayChild /\ [Next]_vars => NoStrayChild'
  <1> SUFFICES ASSUME TypeInv, NoStrayChild, [Next]_vars PROVE NoStrayChild'
    OBVIOUS
  <1>0. /\ Holders /\ mine \in [Task -> Child \union {Nothing}]
        /\ child \in Child \union {Nothing} /\ Nothing \notin Child
        /\ state \in [Child -> {"unborn", "running", "hung", "dead"}]
    BY DEF TypeInv, TypeOK, Child, Nothing
  <1>1. ASSUME NEW t \in Task, Succeed(t) \/ Fail(t), UNCHANGED <<state, child>>, pc[t] \notin {"store_stdin", "store_child"}
        PROVE  NoStrayChild'
    <2>1. mine[t] = Nothing /\ mine' = [mine EXCEPT ![t] = Nothing]
      BY <1>0, <1>1 DEF Holders, Succeed, Fail, Resume
    <2> QED BY <1>0, <1>1, <2>1 DEF NoStrayChild
  <1>2. ASSUME UNCHANGED <<state, child, mine>> PROVE NoStrayChild'
    BY <1>2 DEF NoStrayChild
  <1>3. ASSUME NEW t \in Task, StartJob(t) \/ Register(t) \/ Write(t) \/ StoreStdin(t) \/ Disconnect(t) \/ DropStdin(t)
        PROVE  NoStrayChild'
    BY <1>2, <1>3
       DEF StartJob, Register, Write, StoreStdin, Disconnect, DropStdin, hubVars, taskVars,
           childVars
  <1>4. ASSUME NEW t \in Task, Request(t) \/ Lock(t) \/ WriteFails(t) \/ Answered(t) \/ Refused(t) \/ TimedOut(t) \/ Established(t)
        PROVE  NoStrayChild'
    BY <1>1, <1>2, <1>4
       DEF Request, Lock, WriteFails, Answered, Refused, TimedOut, Established, hubVars, taskVars,
           childVars
  <1>5. ASSUME NEW t \in Task, Connect(t) PROVE NoStrayChild'
    <2>1. CASE (Succeed(t) \/ Fail(t)) /\ UNCHANGED state
      BY <1>1, <1>5, <2>1 DEF Connect, hubVars
    <2>2. CASE /\ state' = [state EXCEPT ![Spawned + 1] = "running"]
               /\ mine' = [mine EXCEPT ![t] = Spawned + 1]
      <3>1. mine[t] = Nothing /\ UNCHANGED child
        BY <1>0, <1>5 DEF Connect, Holders, hubVars
      <3> QED BY <1>0, <2>2, <3>1 DEF NoStrayChild
    <2> QED BY <1>5, <2>1, <2>2 DEF Connect
  <1>6. ASSUME NEW t \in Task, StoreChild(t) PROVE NoStrayChild'
    BY <1>0, <1>6 DEF StoreChild, Killed, NoStrayChild
  <1>7. ASSUME NEW t \in Task, Kill(t) PROVE NoStrayChild'
    <2>1. mine[t] = Nothing /\ mine' = [mine EXCEPT ![t] = Nothing]
      BY <1>0, <1>7 DEF Kill, Holders, Succeed, Resume
    <2> QED BY <1>0, <1>7, <2>1 DEF Kill, Killed, NoStrayChild
  <1>8. ASSUME NEW t \in Task, Cancel(t) PROVE NoStrayChild'
    <2>1. mine' = [mine EXCEPT ![t] = Nothing] /\ UNCHANGED child /\ Killed(mine[t])
      BY <1>8 DEF Cancel, Resume
    <2> QED BY <1>0, <2>1 DEF Killed, NoStrayChild
  <1>9. ASSUME NEW g \in Child, Read(g) PROVE NoStrayChild'
    BY <1>2, <1>9
       DEF Read, ReadAnswer, ReadEnds, MarkDisconnected, DrainPending, hubVars, taskVars, childVars
  <1>10. ASSUME NEW g \in Child, ChildRuns(g) PROVE NoStrayChild'
    BY <1>0, <1>10
       DEF ChildRuns, ChildReads, ChildAnswers, ChildExits, ChildHangs, Killed, NoStrayChild,
           hubVars, taskVars
  <1>11. CASE UNCHANGED vars
    BY <1>2, <1>11 DEF vars
  <1> QED BY <1>3, <1>4, <1>5, <1>6, <1>7, <1>8, <1>9, <1>10, <1>11 DEF Next, Proceed

\* However connects, reconnects and clients that go away overlap, no process
\* is left without an owner: the slot and kill_on_drop see to it.
THEOREM NobodyStrays == Spec => []NoStrayChild
  <1>1. Init => NoStrayChild
    BY DEF Init, NoStrayChild
  <1>2. Spec => []TypeInv
    BY InitTypeInv, NextTypeInv, PTL DEF Spec
  <1> QED BY <1>1, <1>2, NextNoStray, PTL DEF Spec

-----------------------------------------------------------------------------
(* Answers.                                                                *)

\* Child g has request i before it, or its answer.
Holds(g, i) ==
    \/ \E n \in 1 .. Len(pipe[g]) : pipe[g][n].id = i
    \/ \E n \in 1 .. Len(line[g]) : line[g][n] = i
    \/ i \in working[g] \union out[g]

\* Ids are new when they are given out; a request has one task, and one child
\* at most that has seen any of it; an answer has arrived only where a request
\* waits for it.
IdsAreOld ==
    /\ \A t \in Task : req[t] <= counter
    /\ \A g \in Child, i \in Id : Holds(g, i) => i <= counter
IdsAreUnique == \A t, u \in Task : req[t] = req[u] /\ req[t] # Nothing => t = u
HeldWhereWritten ==
    \A g \in Child, t \in Task : req[t] # Nothing /\ Holds(g, req[t]) => to[t] = g /\ pc[t] \in {"write", "wait"}
AnsweredWaits ==
    \A t \in Task : reply[t].kind = "answer" =>
        req[t] # Nothing /\ pc[t] \in {"write", "wait"} /\ reply[t].from = to[t]

AnswerInv == IdsAreOld /\ IdsAreUnique /\ HeldWhereWritten /\ AnsweredWaits

\* Nobody holds more than before.
Fewer == \A g \in Child, i \in Id : Holds(g, i)' => Holds(g, i)

LEMMA SameIsFewer == UNCHANGED childVars => Fewer
  BY DEF childVars, Fewer, Holds

LEMMA KilledIsFewer ==
    ASSUME TypeInv, NEW g \in Child \union {Nothing}, Killed(g), UNCHANGED out
    PROVE  Fewer
  <1>1. CASE g = Nothing
    BY <1>1 DEF Killed, Fewer, Holds
  <1>2. CASE g # Nothing
    <2>1. ASSUME NEW h \in Child
          PROVE  \/ pipe'[h] = pipe[h] /\ line'[h] = line[h] /\ working'[h] = working[h]
                 \/ pipe'[h] = <<>> /\ line'[h] = <<>> /\ working'[h] = {}
      BY <1>2 DEF Killed, TypeInv, TypeOK
    <2> QED BY <2>1 DEF Fewer, Holds
  <1> QED BY <1>1, <1>2

LEMMA ReadIsFewer ==
    ASSUME TypeInv, NEW g \in Child, ChildReads(g)
    PROVE  Fewer
  <1>1. pipe[g] \in Seq(Piece) /\ pipe[g] # <<>> /\ line[g] \in Seq(Id \union {Nothing})
    BY DEF ChildReads, TypeInv, TypeOK
  <1> DEFINE p == Head(pipe[g])
  <1>2. /\ p = pipe[g][1] /\ 1 \in 1 .. Len(pipe[g])
        /\ \A n \in 1 .. Len(Tail(pipe[g])) : n + 1 \in 1 .. Len(pipe[g]) /\ Tail(pipe[g])[n] = pipe[g][n + 1]
    BY <1>1, HeadTailProperties
  <1>3. Holds(g, p.id)
    BY <1>2 DEF Holds
  <1>4. \A n \in 1 .. Len(Append(line[g], p.id)) :
           \/ Append(line[g], p.id)[n] = p.id
           \/ n \in 1 .. Len(line[g]) /\ Append(line[g], p.id)[n] = line[g][n]
    BY <1>1
  <1>5. /\ pipe' = [pipe EXCEPT ![g] = Tail(pipe[g])] /\ UNCHANGED out
        /\ line'[g] = <<>> \/ line'[g] = Append(line[g], p.id)
        /\ working'[g] \subseteq working[g] \union {p.id}
        /\ \A h \in Child \ {g} : line'[h] = line[h] /\ working'[h] = working[h]
    BY DEF ChildReads, TypeInv, TypeOK
  <1>6. pipe'[g] = Tail(pipe[g]) /\ \A h \in Child \ {g} : pipe'[h] = pipe[h]
    BY <1>5 DEF TypeInv, TypeOK
  <1>7. ASSUME NEW i, Holds(g, i)' PROVE Holds(g, i)
    <2>1. CASE \E n \in 1 .. Len(pipe'[g]) : pipe'[g][n].id = i
      BY <1>2, <1>6, <2>1 DEF Holds
    <2>2. CASE \E n \in 1 .. Len(line'[g]) : line'[g][n] = i
      <3>1. CASE line'[g] = <<>>
        BY <2>2, <3>1
      <3>2. CASE line'[g] = Append(line[g], p.id)
        BY <1>3, <1>4, <2>2, <3>2 DEF Holds
      <3> QED BY <1>5, <3>1, <3>2
    <2>3. CASE i \in working'[g] \union out'[g]
      BY <1>3, <1>5, <2>3 DEF Holds
    <2> QED BY <1>7, <2>1, <2>2, <2>3 DEF Holds
  <1>8. ASSUME NEW h \in Child \ {g}, NEW i, Holds(h, i)' PROVE Holds(h, i)
    BY <1>5, <1>6, <1>8 DEF Holds
  <1> QED BY <1>7, <1>8 DEF Fewer

LEMMA WriteHolds ==
    ASSUME TypeInv, NEW t \in Task, Write(t), NEW g \in Child, NEW i, Holds(g, i)'
    PROVE  Holds(g, i) \/ (g = to[t] /\ i = req[t])
  <1> DEFINE room == Room - Len(pipe[to[t]])
             n == IF room < left[t] THEN room ELSE left[t]
             more == SubSeq(Pieces(t, left[t]), 1, n)
  <1>1. UNCHANGED <<line, working, out>> /\ pipe' = [pipe EXCEPT ![to[t]] = pipe[to[t]] \o more] /\ n > 0
    BY DEF Write
  <1>2. to[t] \in Child /\ pipe[to[t]] \in Seq(Piece) /\ left[t] \in 0 .. 2
    BY DEF TypeInv, TypeOK, Writers, Write, LineLength
  <1>3. n \in 1 .. left[t]
    BY <1>1, <1>2, LenProperties, ConstantsAssumption
  <1>4. more \in Seq(Piece) /\ \A m \in 1 .. Len(more) : more[m].id = req[t]
    <2>1. \A m \in 1 .. left[t] : [id |-> req[t], end |-> m = left[t]] \in Piece
      BY DEF TypeInv, TypeOK, Piece
    <2>2. Pieces(t, left[t]) \in Seq(Piece) /\ Len(Pieces(t, left[t])) = left[t]
          /\ \A m \in 1 .. left[t] : Pieces(t, left[t])[m].id = req[t]
      BY <1>2, <2>1 DEF Pieces
    <2> HIDE DEF n
    <2> QED BY <1>2, <1>3, <2>2, SubSeqProperties
  <1> HIDE DEF n, more
  <1>5. \A m \in 1 .. Len(pipe[to[t]] \o more) :
           \/ m \in 1 .. Len(pipe[to[t]]) /\ (pipe[to[t]] \o more)[m] = pipe[to[t]][m]
           \/ (pipe[to[t]] \o more)[m].id = req[t]
    <2> DEFINE k == Len(pipe[to[t]])
    <2>1. k \in Nat /\ Len(more) \in Nat /\ Len(pipe[to[t]] \o more) = k + Len(more)
      BY <1>2, <1>4, ConcatProperties, LenProperties
    <2>2. ASSUME NEW m \in 1 .. Len(pipe[to[t]] \o more)
          PROVE  (pipe[to[t]] \o more)[m] = IF m <= k THEN pipe[to[t]][m] ELSE more[m - k]
      BY <1>2, <1>4, ConcatProperties
    <2>3. ASSUME NEW m \in 1 .. Len(pipe[to[t]] \o more), ~(m <= k) PROVE m - k \in 1 .. Len(more)
      BY <2>1, <2>3
    <2>4. ASSUME NEW m \in 1 .. Len(pipe[to[t]] \o more), m <= k PROVE m \in 1 .. k
      BY <2>1, <2>4
    <2> HIDE DEF k
    <2>5. k = Len(pipe[to[t]])
      BY DEF k
    <2> QED BY <1>4, <2>2, <2>3, <2>4, <2>5
  <1>6. CASE g = to[t]
    <2>1. pipe'[g] = pipe[g] \o more
      BY <1>1, <1>2, <1>6 DEF TypeInv, TypeOK
    <2> QED BY <1>1, <1>5, <1>6, <2>1 DEF Holds
  <1>7. CASE g # to[t]
    <2>1. pipe'[g] = pipe[g]
      BY <1>1, <1>7 DEF TypeInv, TypeOK
    <2> QED BY <1>1, <2>1 DEF Holds
  <1> QED BY <1>6, <1>7

\* A task that ends its operation has no request any more.
LEMMA EndAnswer ==
    ASSUME TypeInv, AnswerInv, NEW t \in Task, Succeed(t) \/ Fail(t) \/ Resume(t, Len(Program[job[t]]) + 1),
           Fewer, UNCHANGED counter
    PROVE  AnswerInv'
  <1>1. /\ req' = [req EXCEPT ![t] = Nothing] /\ to' = [to EXCEPT ![t] = Nothing]
        /\ reply' = [reply EXCEPT ![t] = NoReply]
        /\ \A u \in Task \ {t} : pc'[u] = pc[u]
    BY DEF Succeed, Fail, Resume, Goto, TypeInv, TypeOK
  <1>2. /\ req \in [Task -> Id \union {Nothing}] /\ to \in [Task -> Child \union {Nothing}]
        /\ reply \in [Task -> Reply] /\ counter \in Nat
    BY DEF TypeInv, TypeOK
  <1>3. IdsAreOld'
    BY <1>1, <1>2 DEF AnswerInv, IdsAreOld, Fewer, Nothing
  <1>4. IdsAreUnique'
    BY <1>1, <1>2 DEF AnswerInv, IdsAreUnique
  <1>5. HeldWhereWritten'
    BY <1>1, <1>2 DEF AnswerInv, HeldWhereWritten, Fewer
  <1>6. AnsweredWaits'
    BY <1>1, <1>2 DEF AnswerInv, AnsweredWaits, NoReply
  <1> QED BY <1>3, <1>4, <1>5, <1>6 DEF AnswerInv

\* So it is with a step that leaves requests alone, unless it takes a waiting
\* task elsewhere.
LEMMA OtherAnswer ==
    ASSUME TypeInv, AnswerInv, Fewer, UNCHANGED <<counter, req, to, reply>>,
           \A t \in Task : pc[t] \in {"write", "wait"} => pc'[t] \in {"write", "wait"}
    PROVE  AnswerInv'
  BY DEF AnswerInv, IdsAreOld, IdsAreUnique, HeldWhereWritten, AnsweredWaits, Fewer, TypeInv, TypeOK

LEMMA InitAnswer == Init => AnswerInv
  <1> SUFFICES ASSUME Init PROVE AnswerInv
    OBVIOUS
  <1>1. \A g \in Child, i \in Id : ~Holds(g, i)
    BY DEF Init, Holds
  <1> QED BY <1>1
          DEF Init, AnswerInv, IdsAreOld, IdsAreUnique, HeldWhereWritten, AnsweredWaits, NoReply,
              Nothing, Holds

LEMMA NextAnswer == TypeInv /\ AnswerInv /\ [Next]_vars => AnswerInv'
  <1> SUFFICES ASSUME TypeInv, AnswerInv, [Next]_vars PROVE AnswerInv'
    OBVIOUS
  <1>0. /\ req \in [Task -> Id \union {Nothing}] /\ to \in [Task -> Child \union {Nothing}]
        /\ pc \in [Task -> Location] /\ reply \in [Task -> Reply] /\ counter \in Nat
        /\ IdsAreOld /\ IdsAreUnique /\ HeldWhereWritten /\ AnsweredWaits
    BY DEF TypeInv, TypeOK, AnswerInv
  <1>1. ASSUME NEW t \in Task, StartJob(t) \/ StoreStdin(t) \/ Disconnect(t) \/ DropStdin(t) PROVE AnswerInv'
    BY <1>0, <1>1, SameIsFewer, OtherAnswer
       DEF StartJob, StoreStdin, Disconnect, DropStdin, Goto, hubVars, taskVars
  <1>2. ASSUME NEW t \in Task, Request(t) PROVE AnswerInv'
    <2>1. UNCHANGED counter /\ Fewer
      BY <1>2, SameIsFewer DEF Request, hubVars
    <2>2. CASE Fail(t)
      BY <2>1, <2>2, EndAnswer
    <2>3. CASE Goto(t, "register") /\ UNCHANGED taskVars
      BY <1>0, <1>2, <2>1, <2>3, OtherAnswer DEF Request, Goto, taskVars
    <2> QED BY <1>2, <2>2, <2>3 DEF Request
  <1>3. ASSUME NEW t \in Task, WriteFails(t) \/ Refused(t) \/ TimedOut(t) \/ Established(t) PROVE AnswerInv'
    BY <1>3, SameIsFewer, EndAnswer DEF WriteFails, Refused, TimedOut, Established, hubVars
  <1>4. ASSUME NEW t \in Task, Register(t) PROVE AnswerInv'
    <2>1. /\ counter' = counter + 1 /\ req' = [req EXCEPT ![t] = counter + 1] /\ UNCHANGED <<to, reply>> /\ Fewer
          /\ pc[t] = "register" /\ pc' = [pc EXCEPT ![t] = "lock"] /\ counter < MaxRequests
      BY <1>4, SameIsFewer DEF Register, Goto
    <2>2. \A u \in Task : req[u] <= counter /\ req[u] \in Nat
      BY <1>0, ConstantsAssumption DEF IdsAreOld, Id, Nothing
    <2>3. \A g \in Child, i \in Id : i = counter + 1 => ~Holds(g, i)'
      BY <1>0, <2>1 DEF Fewer, IdsAreOld
    <2>8. counter + 1 \in Id
      BY <1>0, <2>1, ConstantsAssumption DEF Id
    <2>4. IdsAreOld'
      <3>1. \A u \in Task : req'[u] <= counter'
        BY <1>0, <2>1, <2>2
      <3>2. \A g \in Child, i \in Id : Holds(g, i)' => i <= counter'
        BY <1>0, <2>1 DEF IdsAreOld, Fewer, Id
      <3> QED BY <3>1, <3>2 DEF IdsAreOld
    <2>5. IdsAreUnique'
      BY <1>0, <2>1, <2>2 DEF IdsAreUnique
    <2>6. HeldWhereWritten'
      <3> SUFFICES ASSUME NEW g \in Child, NEW u \in Task, NEW i \in Id, i = req'[u], Holds(g, i)'
                   PROVE  to'[u] = g /\ pc'[u] \in {"write", "wait"}
        BY <1>0, <2>1, <2>8 DEF HeldWhereWritten, Holds
      <3>1. u # t /\ Holds(g, i)
        BY <1>0, <2>1, <2>3 DEF Fewer
      <3>2. req[u] = i /\ i # Nothing /\ to'[u] = to[u] /\ pc'[u] = pc[u]
        BY <1>0, <2>1, <3>1 DEF Id, Nothing
      <3> QED BY <1>0, <3>1, <3>2 DEF HeldWhereWritten
    <2>7. AnsweredWaits'
      BY <1>0, <2>1 DEF AnsweredWaits
    <2> QED BY <2>4, <2>5, <2>6, <2>7 DEF AnswerInv
  <1>5. ASSUME NEW t \in Task, Lock(t) PROVE AnswerInv'
    <2>1. UNCHANGED counter /\ Fewer
      BY <1>5, SameIsFewer DEF Lock
    <2>2. CASE Fail(t)
      BY <2>1, <2>2, EndAnswer
    <2>3. CASE to' = [to EXCEPT ![t] = stdin] /\ Goto(t, "write") /\ UNCHANGED <<req, reply>>
      <3>1. IdsAreOld' /\ IdsAreUnique'
        BY <1>0, <2>1, <2>3 DEF IdsAreOld, IdsAreUnique, Fewer
      <3>2. HeldWhereWritten' /\ AnsweredWaits'
        BY <1>0, <1>5, <2>1, <2>3 DEF Lock, Goto, HeldWhereWritten, AnsweredWaits, Fewer
      <3> QED BY <3>1, <3>2 DEF AnswerInv
    <2> QED BY <1>5, <2>2, <2>3 DEF Lock
  <1>6. ASSUME NEW t \in Task, Write(t) PROVE AnswerInv'
    <2>1. /\ pc[t] = "write" /\ UNCHANGED <<counter, req, to, reply>>
          /\ req[t] # Nothing => pc'[t] \in {"write", "wait"}
          /\ \A u \in Task \ {t} : pc'[u] = pc[u]
      BY <1>0, <1>6 DEF Write, Goto
    <2>2. \A g \in Child, i \in Id : Holds(g, i)' => Holds(g, i) \/ (g = to[t] /\ i = req[t])
      BY <1>6, WriteHolds
    <2>3. IdsAreOld' /\ IdsAreUnique'
      BY <1>0, <2>1, <2>2 DEF IdsAreOld, IdsAreUnique
    <2>4. HeldWhereWritten'
      <3> SUFFICES ASSUME NEW g \in Child, NEW u \in Task, NEW i \in Id, i = req[u], Holds(g, i)'
                   PROVE  to[u] = g /\ pc'[u] \in {"write", "wait"}
        BY <1>0, <2>1 DEF HeldWhereWritten, Holds
      <3>1. Holds(g, i) \/ (g = to[t] /\ i = req[t])
        BY <2>2
      <3>4. req[u] # Nothing
        BY DEF Id, Nothing
      <3>2. CASE Holds(g, i)
        BY <1>0, <2>1, <3>2, <3>4 DEF HeldWhereWritten
      <3>3. CASE g = to[t] /\ i = req[t]
        BY <1>0, <2>1, <3>3, <3>4 DEF IdsAreUnique
      <3> QED BY <3>1, <3>2, <3>3
    <2>5. AnsweredWaits'
      BY <1>0, <2>1 DEF AnsweredWaits
    <2> QED BY <2>3, <2>4, <2>5 DEF AnswerInv
  <1>7. ASSUME NEW t \in Task, Answered(t) PROVE AnswerInv'
    <2>1. UNCHANGED counter /\ Fewer
      BY <1>7, SameIsFewer DEF Answered, hubVars
    <2>2. CASE Succeed(t)
      BY <2>1, <2>2, EndAnswer
    <2>3. CASE /\ Goto(t, "lock") /\ req' = [req EXCEPT ![t] = Nothing]
               /\ reply' = [reply EXCEPT ![t] = NoReply] /\ UNCHANGED to
      <3>1. IdsAreOld' /\ IdsAreUnique'
        BY <1>0, <2>1, <2>3 DEF IdsAreOld, IdsAreUnique, Fewer, Nothing
      <3>2. HeldWhereWritten' /\ AnsweredWaits'
        BY <1>0, <2>1, <2>3 DEF Goto, HeldWhereWritten, AnsweredWaits, Fewer, NoReply
      <3> QED BY <3>1, <3>2 DEF AnswerInv
    <2> QED BY <1>7, <2>2, <2>3 DEF Answered
  <1>8. ASSUME NEW t \in Task, Connect(t) PROVE AnswerInv'
    <2>1. Fewer /\ UNCHANGED counter
      BY <1>8 DEF Connect, Fewer, Holds, hubVars
    <2>2. CASE Succeed(t) \/ Fail(t)
      BY <2>1, <2>2, EndAnswer
    <2>3. CASE Goto(t, "store_stdin") /\ UNCHANGED <<req, to, reply>>
      BY <1>0, <1>8, <2>1, <2>3, OtherAnswer DEF Connect, Goto
    <2> QED BY <1>8, <2>2, <2>3 DEF Connect
  <1>9. ASSUME NEW t \in Task, StoreChild(t) PROVE AnswerInv'
    <2>1. Fewer
      BY <1>9, KilledIsFewer DEF StoreChild, TypeInv, TypeOK
    <2> QED BY <1>0, <1>9, <2>1, OtherAnswer DEF StoreChild, Goto
  <1>10. ASSUME NEW t \in Task, Kill(t) PROVE AnswerInv'
    <2>1. Fewer
      BY <1>10, KilledIsFewer DEF Kill, TypeInv, TypeOK
    <2> QED BY <1>10, <2>1, EndAnswer DEF Kill
  <1>11. ASSUME NEW t \in Task, Cancel(t) PROVE AnswerInv'
    <2>1. Fewer
      BY <1>11, KilledIsFewer DEF Cancel, TypeInv, TypeOK
    <2> QED BY <1>11, <2>1, EndAnswer DEF Cancel
  <1>12. ASSUME NEW g \in Child, ReadAnswer(g) PROVE AnswerInv'
    <2>1. PICK id \in out[g] :
             /\ out' = [out EXCEPT ![g] = @ \ {id}]
             /\ IF id \in pending THEN Hand(id, [kind |-> "answer", from |-> g]) ELSE UNCHANGED reply
      BY <1>12 DEF ReadAnswer
    <2>2. UNCHANGED <<counter, req, to, pc, pipe, line, working>>
      BY <1>12 DEF ReadAnswer
    <2>3. Fewer
      BY <2>1, <2>2 DEF Fewer, Holds, TypeInv, TypeOK
    <2>4. IdsAreOld' /\ IdsAreUnique' /\ HeldWhereWritten'
      BY <1>0, <2>2, <2>3 DEF IdsAreOld, IdsAreUnique, HeldWhereWritten, Fewer
    <2>5. AnsweredWaits'
      <3>1. CASE UNCHANGED reply
        BY <1>0, <2>2, <3>1 DEF AnsweredWaits
      <3>2. CASE id \in pending /\ Hand(id, [kind |-> "answer", from |-> g])
        <4>1. id # Nothing /\ Holds(g, id)
          BY <2>1, <3>2 DEF Holds, TypeInv, TypeOK, Nothing
        <4>2. \A t \in Task : req[t] = id => to[t] = g /\ pc[t] \in {"write", "wait"}
          BY <1>0, <4>1 DEF HeldWhereWritten
        <4>3. \A t \in Task : reply'[t] = IF req[t] = id THEN [kind |-> "answer", from |-> g] ELSE reply[t]
          BY <3>2 DEF Hand, Owners
        <4> QED BY <1>0, <2>2, <4>1, <4>2, <4>3 DEF AnsweredWaits
      <3> QED BY <2>1, <3>1, <3>2
    <2> QED BY <2>4, <2>5 DEF AnswerInv
  <1>13. ASSUME NEW g \in Child, ReadEnds(g) \/ MarkDisconnected(g) PROVE AnswerInv'
    BY <1>0, <1>13, SameIsFewer, OtherAnswer DEF ReadEnds, MarkDisconnected, hubVars, taskVars
  <1>14. ASSUME NEW g \in Child, DrainPending(g) PROVE AnswerInv'
    <2>1. UNCHANGED <<counter, req, to, pc>> /\ Fewer
      BY <1>14, SameIsFewer DEF DrainPending
    <2>2. \A t \in Task : reply'[t] = reply[t] \/ reply'[t].kind = "gone"
      BY <1>14 DEF DrainPending
    <2> QED BY <1>0, <2>1, <2>2
            DEF AnswerInv, IdsAreOld, IdsAreUnique, HeldWhereWritten, AnsweredWaits, Fewer
  <1>15. ASSUME NEW g \in Child, ChildRuns(g) PROVE AnswerInv'
    <2>1. ASSUME ChildReads(g) PROVE Fewer
      BY <2>1, ReadIsFewer
    <2>2. ASSUME ChildAnswers(g) PROVE Fewer
      BY <2>2 DEF ChildAnswers, Fewer, Holds, TypeInv, TypeOK
    <2>3. ASSUME ChildExits(g) PROVE Fewer
      BY <2>3, KilledIsFewer DEF ChildExits
    <2>4. ASSUME ChildHangs(g) PROVE Fewer
      BY <2>4 DEF ChildHangs, Fewer, Holds
    <2>5. Fewer
      BY <1>15, <2>1, <2>2, <2>3, <2>4 DEF ChildRuns
    <2>6. UNCHANGED <<counter, req, to, pc, reply>>
      BY <1>15 DEF ChildRuns, ChildReads, ChildAnswers, ChildExits, ChildHangs, hubVars, taskVars
    <2> QED BY <1>0, <2>5, <2>6, OtherAnswer
  <1>16. CASE UNCHANGED vars
    BY <1>0, <1>16, SameIsFewer, OtherAnswer DEF vars, childVars
  <1> QED BY <1>1, <1>2, <1>3, <1>4, <1>5, <1>6, <1>7, <1>8, <1>9, <1>10, <1>11, <1>12, <1>13,
          <1>14, <1>15, <1>16
          DEF Next, Proceed, Read

\* An answer a caller receives comes from the child its request was written
\* to: request_counter outlives the connections, so an old child has no id that
\* a later request uses.
THEOREM AnswersComeHome == Spec => []AnswerIsFromItsChild
  <1>1. AnswerInv => AnswerIsFromItsChild
    BY DEF AnswerInv, AnsweredWaits, AnswerIsFromItsChild
  <1>2. Spec => []TypeInv
    BY InitTypeInv, NextTypeInv, PTL DEF Spec
  <1> QED BY <1>1, <1>2, InitAnswer, NextAnswer, PTL DEF Spec

-----------------------------------------------------------------------------
(* Lines.                                                                  *)

\* What a child has read of a line (l) and what its pipe holds (p) are lines of
\* two pieces, one after the other; the last may be half written.
Whole(l, p) ==
    /\ p # <<>> => l = IF p[1].end THEN <<p[1].id>> ELSE <<>>
    /\ p = <<>> => l = <<>> \/ \E i \in Id \union {Nothing} : l = <<i>>
    /\ \A n \in 2 .. Len(p) : /\ p[n].end <=> ~p[n - 1].end
                              /\ p[n].end => p[n].id = p[n - 1].id

HalfWritten(l, p) == IF p = <<>> THEN l # <<>> ELSE ~p[Len(p)].end
LastId(l, p) == IF p = <<>> THEN l[1] ELSE p[Len(p)].id

\* Putting a piece at the end, and taking one from the front.
LEMMA PutPiece ==
    ASSUME NEW l, NEW p \in Seq(Piece), Whole(l, p), NEW x \in Piece,
           x.end <=> HalfWritten(l, p), x.end => x.id = LastId(l, p)
    PROVE  /\ Whole(l, Append(p, x)) /\ Append(p, x) \in Seq(Piece)
           /\ HalfWritten(l, Append(p, x)) <=> ~x.end
           /\ LastId(l, Append(p, x)) = x.id
  <1> DEFINE q == Append(p, x)
  <1>1. /\ q \in Seq(Piece) /\ q # <<>> /\ Len(q) = Len(p) + 1 /\ Len(p) \in Nat
        /\ \A n \in 1 .. Len(p) : q[n] = p[n]
        /\ q[Len(p) + 1] = x
    BY AppendProperties, LenProperties
  <1>2. x.id \in Id \union {Nothing} /\ x.end \in BOOLEAN
    BY DEF Piece
  <1> HIDE DEF q
  <1>3. q[1] = IF p = <<>> THEN x ELSE p[1]
    BY <1>1, EmptySeq
  <1>4. l = IF q[1].end THEN <<q[1].id>> ELSE <<>>
    <2>1. CASE p = <<>>
      <3>1. q[1] = x
        BY <1>3, <2>1
      <3>2. x.end => \E i \in Id \union {Nothing} : l = <<i>> /\ x.id = i
        BY <2>1 DEF Whole, HalfWritten, LastId
      <3>3. ~x.end => l = <<>>
        BY <2>1 DEF HalfWritten
      <3> QED BY <3>1, <3>2, <3>3
    <2>2. CASE p # <<>>
      BY <1>3, <2>2 DEF Whole
    <2> QED BY <2>1, <2>2
  <1>5. ASSUME NEW n \in 2 .. Len(q)
        PROVE  (q[n].end <=> ~q[n - 1].end) /\ (q[n].end => q[n].id = q[n - 1].id)
    <2>1. CASE n = Len(p) + 1
      <3>1. n - 1 = Len(p) /\ n - 1 \in 1 .. Len(p)
        BY <1>1, <2>1
      <3>2. q[n] = x /\ q[n - 1] = p[Len(p)] /\ p # <<>>
        BY <1>1, <2>1, <3>1, EmptySeq
      <3> QED BY <3>2 DEF HalfWritten, LastId
    <2>2. CASE n # Len(p) + 1
      <3>1. n \in 2 .. Len(p) /\ n \in 1 .. Len(p) /\ n - 1 \in 1 .. Len(p)
        BY <1>1, <2>2
      <3> QED BY <1>1, <3>1 DEF Whole
    <2> QED BY <2>1, <2>2
  <1>6. q[Len(q)] = x
    BY <1>1
  <1>7. Whole(l, q)
    BY <1>1, <1>4, <1>5 DEF Whole
  <1> QED BY <1>1, <1>6, <1>7 DEF HalfWritten, LastId, q

LEMMA TakePiece ==
    ASSUME NEW l, NEW p \in Seq(Piece), p # <<>>, Whole(l, p), NEW m,
           m = IF Head(p).end THEN <<>> ELSE <<Head(p).id>>
    PROVE  /\ l = IF Head(p).end THEN <<Head(p).id>> ELSE <<>>
           /\ Whole(m, Tail(p))
           /\ HalfWritten(m, Tail(p)) <=> HalfWritten(l, p)
           /\ HalfWritten(m, Tail(p)) => LastId(m, Tail(p)) = LastId(l, p)
  <1> DEFINE q == Tail(p)
  <1>1. /\ Head(p) = p[1] /\ q \in Seq(Piece) /\ Len(p) \in Nat /\ Len(p) > 0 /\ Len(q) = Len(p) - 1
        /\ \A n \in 1 .. Len(q) : q[n] = p[n + 1]
    BY HeadTailProperties, LenProperties, EmptySeq
  <1>2. p[1] \in Piece /\ p[1].id \in Id \union {Nothing}
    <2>1. 1 \in 1 .. Len(p)
      BY <1>1
    <2>2. p[1] \in Piece
      BY <2>1, ElementOfSeq
    <2> QED BY <2>2 DEF Piece
  <1> HIDE DEF q
  <1>3. CASE q = <<>>
    <2>1. Len(p) = 1
      BY <1>1, <1>3, EmptySeq
    <2>2. ~(\E n \in 2 .. Len(q) : TRUE)
      BY <1>3, EmptySeq
    <2>3. Whole(m, q)
      BY <1>1, <1>2, <1>3, <2>2 DEF Whole
    <2>4. l = IF Head(p).end THEN <<Head(p).id>> ELSE <<>>
      BY <1>1 DEF Whole
    <2>5. (m # <<>> <=> ~p[1].end) /\ (m # <<>> => m[1] = p[1].id)
      BY <1>1
    <2> QED BY <1>1, <1>3, <2>1, <2>3, <2>4, <2>5 DEF HalfWritten, LastId, q
  <1>4. CASE q # <<>>
    <2>1. Len(q) \in Nat /\ Len(q) > 0
      BY <1>1, <1>4, LenProperties, EmptySeq
    <2>2. q[1] = p[2] /\ 2 \in 2 .. Len(p) /\ q[Len(q)] = p[Len(p)]
      BY <1>1, <2>1
    <2>3. m = IF q[1].end THEN <<q[1].id>> ELSE <<>>
      BY <1>1, <2>2 DEF Whole
    <2>4. ASSUME NEW n \in 2 .. Len(q)
          PROVE  (q[n].end <=> ~q[n - 1].end) /\ (q[n].end => q[n].id = q[n - 1].id)
      <3>1. /\ n \in 1 .. Len(q) /\ n - 1 \in 1 .. Len(q) /\ n + 1 \in 2 .. Len(p)
            /\ (n + 1) - 1 = n /\ (n - 1) + 1 = n
        BY <1>1, <2>1
      <3>2. q[n] = p[n + 1] /\ q[n - 1] = p[n]
        BY <1>1, <3>1
      <3> QED BY <3>1, <3>2 DEF Whole
    <2>5. Whole(m, q)
      BY <1>4, <2>3, <2>4 DEF Whole
    <2> QED BY <1>1, <1>4, <2>2, <2>5 DEF Whole, HalfWritten, LastId, q
  <1> QED BY <1>3, <1>4

\* While nobody has torn a line to it, what child g gets is whole, but for the
\* line that the holder of the locks has begun.
Clean(g) == g \notin torn /\ state[g] # "dead"
WritesHalf(t, g) == pc[t] = "write" /\ to[t] = g /\ left[t] = 1

WritersInTurn ==
    /\ \A t \in Task : pc[t] = "write" => writer = t /\ left[t] \in 1 .. 2
    /\ \A t \in Task : pc[t] = "lock" => left[t] = 2
LinesOf(g) ==
    /\ Whole(line[g], pipe[g])
    /\ HalfWritten(line[g], pipe[g]) <=> \E t \in Task : WritesHalf(t, g)
    /\ \A t \in Task : WritesHalf(t, g) => LastId(line[g], pipe[g]) = req[t]

LinesInv ==
    /\ WritersInTurn
    /\ \A g \in Child : Clean(g) => LinesOf(g)
    /\ garbled \subseteq torn

\* Children are spawned in the order of their numbers, and nobody has one that
\* is yet to be spawned.
Births ==
    /\ {g \in Child : state[g] # "unborn"} = 1 .. Spawned
    /\ \A g \in Child : child = g => state[g] # "unborn"
    /\ \A g \in Child, t \in Task : mine[t] = g => state[g] # "unborn"

LEMMA InitBirths == Init => Births
  <1> SUFFICES ASSUME Init PROVE Births
    OBVIOUS
  <1>1. {g \in Child : state[g] # "unborn"} = {}
    BY DEF Init
  <1>2. Spawned = 0
    BY <1>1, FS_EmptySet DEF Spawned
  <1> QED BY <1>1, <1>2 DEF Init, Births, Child, Nothing

LEMMA NextBirths == TypeInv /\ Births /\ [Next]_vars => Births'
  <1> SUFFICES ASSUME TypeInv, Births, [Next]_vars PROVE Births'
    OBVIOUS
  <1> DEFINE Born == {g \in Child : state[g] # "unborn"}
  <1>0. /\ mine \in [Task -> Child \union {Nothing}] /\ child \in Child \union {Nothing} /\ Nothing \notin Child
        /\ state \in [Child -> {"unborn", "running", "hung", "dead"}]
    BY DEF TypeInv, TypeOK, Child, Nothing
  <1>1. ASSUME \A g \in Child : state'[g] = "unborn" <=> state[g] = "unborn",
               child' \in {child, Nothing} \union {mine[t] : t \in Task},
               \A t \in Task : mine'[t] \in {mine[t], Nothing}
        PROVE  Births'
    <2>1. Born' = Born
      BY <1>1
    <2>2. Spawned' = Spawned
      BY <2>1 DEF Spawned
    <2> QED BY <1>0, <1>1, <2>1, <2>2 DEF Births
  <1>2. ASSUME NEW g \in Child \union {Nothing}, Killed(g), g = Nothing \/ state[g] # "unborn"
        PROVE  \A h \in Child : state'[h] = "unborn" <=> state[h] = "unborn"
    BY <1>0, <1>2 DEF Killed
  <1>3. ASSUME NEW t \in Task, Succeed(t) \/ Fail(t) \/ Resume(t, Len(Program[job[t]]) + 1)
        PROVE  \A u \in Task : mine'[u] \in {mine[u], Nothing}
    BY <1>0, <1>3 DEF Succeed, Fail, Resume
  <1>4. ASSUME NEW t \in Task, Proceed(t), ~Connect(t) PROVE Births'
    <2>1. \A u \in Task : mine'[u] \in {mine[u], Nothing}
      BY <1>0, <1>3, <1>4
         DEF Proceed, Request, Register, Lock, Write, WriteFails, Answered, Refused, TimedOut,
             StoreStdin, StoreChild, Established, Disconnect, DropStdin, Kill, taskVars
    <2>2. child' \in {child, Nothing} \union {mine[u] : u \in Task}
      BY <1>4
         DEF Proceed, Request, Register, Lock, Write, WriteFails, Answered, Refused, TimedOut,
             StoreStdin, StoreChild, Established, Disconnect, DropStdin, Kill, hubVars
    <2>3. \A g \in Child : state'[g] = "unborn" <=> state[g] = "unborn"
      <3>1. CASE StoreChild(t) \/ Kill(t)
        BY <1>0, <1>2, <3>1 DEF StoreChild, Kill, Births
      <3>2. CASE ~(StoreChild(t) \/ Kill(t))
        BY <1>4, <3>2
           DEF Proceed, Request, Register, Lock, Write, WriteFails, Answered, Refused, TimedOut,
               StoreStdin, Established, Disconnect, DropStdin, childVars
      <3> QED BY <3>1, <3>2
    <2> QED BY <1>1, <2>1, <2>2, <2>3
  <1>5. ASSUME NEW t \in Task, Connect(t) PROVE Births'
    <2>1. UNCHANGED child
      BY <1>5 DEF Connect, hubVars
    <2>2. CASE (Succeed(t) \/ Fail(t)) /\ UNCHANGED state
      BY <1>1, <1>3, <2>1, <2>2
    <2>3. CASE /\ Spawned < MaxChildren
               /\ state' = [state EXCEPT ![Spawned + 1] = "running"]
               /\ mine' = [mine EXCEPT ![t] = Spawned + 1]
      <3>1. Spawned + 1 \in Child /\ Spawned \in Nat
        <4>1. IsFiniteSet(Child)
          BY FS_Interval, ConstantsAssumption DEF Child
        <4>2. Spawned \in Nat
          BY <4>1, FS_Subset, FS_CardinalityType DEF Spawned
        <4> QED BY <2>3, <4>2, SpawnedType
      <3>2. Born' = 1 .. Spawned + 1
        <4>1. Born' = Born \union {Spawned + 1}
          BY <1>0, <2>3, <3>1
        <4> HIDE DEF Born
        <4>2. Born = 1 .. Spawned
          BY DEF Births, Born
        <4> QED BY <3>1, <4>1, <4>2
      <3>3. Spawned' = Spawned + 1
        <4>1. Spawned' = Cardinality(1 .. Spawned + 1)
          BY <3>2 DEF Spawned
        <4>2. Cardinality(1 .. Spawned + 1) = Spawned + 1
          BY <3>1, FS_Interval
        <4> QED BY <4>1, <4>2
      <3>4. \A g \in Child, u \in Task : mine'[u] = g => state'[g] # "unborn"
        BY <1>0, <2>3, <3>1 DEF Births
      <3>5. \A g \in Child : child' = g => state'[g] # "unborn"
        BY <1>0, <2>1, <2>3, <3>1 DEF Births
      <3> QED BY <3>2, <3>3, <3>4, <3>5 DEF Births
    <2> QED BY <1>5, <2>2, <2>3 DEF Connect
  <1>6. ASSUME NEW t \in Task, Cancel(t) PROVE Births'
    <2>1. \A g \in Child : state'[g] = "unborn" <=> state[g] = "unborn"
      BY <1>0, <1>2, <1>6 DEF Cancel, Births
    <2> QED BY <1>1, <1>3, <1>6, <2>1 DEF Cancel
  <1>7. ASSUME NEW t \in Task, StartJob(t) PROVE Births'
    BY <1>1, <1>7 DEF StartJob, hubVars, childVars
  <1>8. ASSUME NEW g \in Child, Read(g) PROVE Births'
    BY <1>1, <1>8
       DEF Read, ReadAnswer, ReadEnds, MarkDisconnected, DrainPending, hubVars, taskVars, childVars
  <1>9. ASSUME NEW g \in Child, ChildRuns(g) PROVE Births'
    <2>1. \A h \in Child : state'[h] = "unborn" <=> state[h] = "unborn"
      <3>1. CASE ChildExits(g)
        BY <1>0, <1>2, <3>1 DEF ChildExits
      <3>2. CASE ~ChildExits(g)
        BY <1>0, <1>9, <3>2 DEF ChildRuns, ChildReads, ChildAnswers, ChildHangs
      <3> QED BY <3>1, <3>2
    <2> QED BY <1>1, <1>9, <2>1
            DEF ChildRuns, ChildReads, ChildAnswers, ChildExits, ChildHangs, hubVars, taskVars
  <1>10. CASE UNCHANGED vars
    BY <1>1, <1>10 DEF vars
  <1> QED BY <1>4, <1>5, <1>6, <1>7, <1>8, <1>9, <1>10 DEF Next

\* A step that writes nothing and reads nothing.
SameWriting ==
    \A t \in Task :
        /\ pc'[t] = "write" <=> pc[t] = "write"
        /\ pc'[t] = "write" => left'[t] = left[t] /\ to'[t] = to[t] /\ req'[t] = req[t]
        /\ pc'[t] = "lock" => left'[t] = 2
SamePipes ==
    \A g \in Child : Clean(g)' => Clean(g) /\ pipe'[g] = pipe[g] /\ line'[g] = line[g]

LEMMA SameLines ==
    ASSUME TypeInv, LinesInv, SameWriting, SamePipes, UNCHANGED <<writer, garbled>>, torn \subseteq torn'
    PROVE  LinesInv'
  <1>1. WritersInTurn'
    BY DEF LinesInv, WritersInTurn, SameWriting
  <1>2. ASSUME NEW g \in Child, Clean(g)' PROVE LinesOf(g)'
    <2>1. Clean(g) /\ LinesOf(g) /\ pipe'[g] = pipe[g] /\ line'[g] = line[g]
      BY <1>2 DEF SamePipes, LinesInv
    <2>2. \A t \in Task : (WritesHalf(t, g)' <=> WritesHalf(t, g)) /\ (WritesHalf(t, g) => req'[t] = req[t])
      BY DEF SameWriting, WritesHalf
    <2> QED BY <2>1, <2>2 DEF LinesOf
  <1> QED BY <1>1, <1>2 DEF LinesInv

LEMMA EndSame ==
    ASSUME TypeInv, LinesInv, NEW t \in Task, Succeed(t) \/ Fail(t) \/ Resume(t, Len(Program[job[t]]) + 1),
           pc[t] # "write"
    PROVE  SameWriting
  <1>1. \E i \in Nat \ {0} : Resume(t, i)
    <2>1. Len(Program[job[t]]) + 1 \in Nat \ {0}
      BY Programs DEF TypeInv, TypeOK
    <2> QED BY <2>1, EndType
  <1>2. pc' = [pc EXCEPT ![t] = pc'[t]] /\ pc'[t] \in Operations \union {"idle"}
    BY <1>1, ResumeType
  <1>3. \A u \in Task \ {t} : left'[u] = left[u] /\ to'[u] = to[u] /\ req'[u] = req[u] /\ pc'[u] = pc[u]
    BY <1>1, <1>2 DEF Resume, TypeInv, TypeOK
  <1> QED BY <1>2, <1>3 DEF SameWriting, LinesInv, WritersInTurn, Operations, TypeInv, TypeOK

LEMMA KilledSame ==
    ASSUME TypeInv, NEW g \in Child \union {Nothing}, Killed(g), torn \subseteq torn'
    PROVE  SamePipes
  BY DEF Killed, SamePipes, Clean, TypeInv, TypeOK

\* A line is put into the pipe a piece at a time, by the one task that holds the
\* locks, until it is whole.
LEMMA WriteLines ==
    ASSUME TypeInv, LinesInv, NEW t \in Task, Write(t)
    PROVE  LinesInv'
  <1> DEFINE g == to[t]
             room == Room - Len(pipe[g])
             n == IF room < left[t] THEN room ELSE left[t]
             more == SubSeq(Pieces(t, left[t]), 1, n)
             first == [id |-> req[t], end |-> FALSE]
             second == [id |-> req[t], end |-> TRUE]
  <1>1. /\ pc[t] = "write" /\ n > 0
        /\ pipe' = [pipe EXCEPT ![g] = pipe[g] \o more] /\ left' = [left EXCEPT ![t] = left[t] - n]
        /\ writer' = IF n = left[t] THEN NoTask ELSE writer
        /\ Goto(t, IF n # left[t] THEN "write" ELSE IF req[t] = Nothing THEN "established" ELSE "wait")
        /\ UNCHANGED <<line, to, req, state, torn, garbled>>
    BY DEF Write, historyVars
  <1>2. g \in Child /\ pipe[g] \in Seq(Piece) /\ left[t] \in 1 .. 2 /\ writer = t
    BY <1>1 DEF TypeInv, TypeOK, Writers, LinesInv, WritersInTurn
  <1>3. first \in Piece /\ second \in Piece
    BY DEF Piece, TypeInv, TypeOK
  <1>4. n \in 1 .. left[t]
    BY <1>1, <1>2, LenProperties, ConstantsAssumption
  <1>5. \A u \in Task \ {t} : pc[u] # "write" /\ pc'[u] = pc[u] /\ left'[u] = left[u]
    BY <1>1, <1>2 DEF Goto, LinesInv, WritersInTurn, TypeInv, TypeOK
  <1>6. pc'[t] = IF n # left[t] THEN "write" ELSE IF req[t] = Nothing THEN "established" ELSE "wait"
    BY <1>1 DEF Goto, TypeInv, TypeOK
  <1>7. left'[t] = left[t] - n
    BY <1>1 DEF TypeInv, TypeOK
  <1>8. /\ pipe'[g] = pipe[g] \o more /\ \A h \in Child \ {g} : pipe'[h] = pipe[h]
    BY <1>1, <1>2 DEF TypeInv, TypeOK
  <1>9. more = IF left[t] = 1 THEN <<second>> ELSE IF n = 1 THEN <<first>> ELSE <<first, second>>
    <2> DEFINE ps == Pieces(t, left[t])
    <2>1. /\ ps \in Seq(Piece) /\ Len(ps) = left[t]
          /\ \A i \in 1 .. left[t] : ps[i] = IF i = left[t] THEN second ELSE first
      <3>1. \A i \in 1 .. left[t] : [id |-> req[t], end |-> i = left[t]] \in Piece
        BY DEF Piece, TypeInv, TypeOK
      <3>2. ps \in Seq(Piece) /\ Len(ps) = left[t]
        BY <1>2, <3>1 DEF Pieces
      <3>3. \A i \in 1 .. left[t] : ps[i] = [id |-> req[t], end |-> i = left[t]]
        BY DEF Pieces
      <3>4. ASSUME NEW i \in 1 .. left[t] PROVE ps[i] = IF i = left[t] THEN second ELSE first
        <4>1. CASE i = left[t]
          BY <3>3, <4>1
        <4>2. CASE i # left[t]
          BY <3>3, <4>2
        <4> QED BY <4>1, <4>2
      <3> QED BY <3>2, <3>4
    <2> HIDE DEF n, ps, first, second
    <2>2. more \in Seq(Piece) /\ Len(more) = n /\ \A i \in 1 .. n : more[i] = ps[i]
      <3>1. \A i \in 1 .. n : i \in 1 .. Len(ps) /\ 1 + i - 1 = i
        BY <1>2, <1>4, <2>1
      <3>2. more = SubSeq(ps, 1, n)
        BY DEF more, ps
      <3>3. 1 \in Int /\ n \in Int /\ 1 <= n /\ n - 1 + 1 = n /\ 1 .. n \subseteq 1 .. Len(ps)
        BY <1>2, <1>4, <2>1
      <3> HIDE DEF more
      <3> QED BY <2>1, <3>1, <3>2, <3>3, SubSeqProperties
    <2> HIDE DEF more
    <2>3. CASE left[t] = 1
      <3>1. n = 1 /\ more[1] = second
        BY <1>4, <2>1, <2>2, <2>3
      <3> QED BY <1>3, <2>2, <2>3, <3>1, SeqEqual
    <2>4. CASE left[t] = 2 /\ n = 1
      <3>1. more[1] = first
        BY <2>1, <2>2, <2>4
      <3> QED BY <1>3, <2>2, <2>4, <3>1, SeqEqual
    <2>5. CASE left[t] = 2 /\ n = 2
      <3>1. more[1] = first /\ more[2] = second
        BY <2>1, <2>2, <2>5
      <3> QED BY <1>3, <2>2, <2>5, <3>1, SeqEqual
    <2>6. left[t] = 1 \/ (left[t] = 2 /\ n = 1) \/ (left[t] = 2 /\ n = 2)
      BY <1>2, <1>4
    <2> QED BY <2>3, <2>4, <2>5, <2>6
  <1> HIDE DEF n, more
  <1>10. WritersInTurn'
    <2>1. n # left[t] => left[t] - n \in 1 .. 2
      BY <1>2, <1>4
    <2> QED BY <1>1, <1>2, <1>5, <1>6, <1>7, <2>1 DEF LinesInv, WritersInTurn
  <1>11. ASSUME NEW h \in Child, h # g, Clean(h)' PROVE LinesOf(h)'
    <2>1. LinesOf(h) /\ pipe'[h] = pipe[h] /\ line'[h] = line[h]
      BY <1>1, <1>8, <1>11 DEF LinesInv, Clean
    <2>2. \A u \in Task : (WritesHalf(u, h)' <=> WritesHalf(u, h)) /\ (WritesHalf(u, h) => req'[u] = req[u])
      BY <1>1, <1>5, <1>11 DEF WritesHalf
    <2> QED BY <2>1, <2>2 DEF LinesOf
  <1>12. ASSUME Clean(g)' PROVE LinesOf(g)'
    <2>1. Clean(g) /\ LinesOf(g)
      BY <1>1, <1>2, <1>12 DEF LinesInv, Clean
    <2>2. \A u \in Task : WritesHalf(u, g) => u = t
      BY <1>5 DEF WritesHalf
    <2>3. \A u \in Task : WritesHalf(u, g)' <=> u = t /\ left[t] = 2 /\ n = 1
      BY <1>1, <1>2, <1>4, <1>5, <1>6, <1>7 DEF WritesHalf
    <2>4. /\ first.end = FALSE /\ first.id = req[t] /\ second.end = TRUE /\ second.id = req[t]
      OBVIOUS
    <2> HIDE DEF first, second
    <2>5. /\ pipe[g] \o <<second>> = Append(pipe[g], second)
          /\ pipe[g] \o <<first>> = Append(pipe[g], first)
          /\ pipe[g] \o <<first, second>> = Append(Append(pipe[g], first), second)
      BY <1>2, <1>3
    <2>6. CASE left[t] = 1
      <3>1. HalfWritten(line[g], pipe[g]) /\ LastId(line[g], pipe[g]) = req[t]
        BY <1>1, <2>1, <2>6 DEF LinesOf, WritesHalf
      <3>2. pipe'[g] = Append(pipe[g], second)
        BY <1>8, <1>9, <2>5, <2>6
      <3>3. Whole(line[g], pipe'[g]) /\ ~HalfWritten(line[g], pipe'[g])
        BY <1>2, <1>3, <2>1, <2>4, <3>1, <3>2, PutPiece DEF LinesOf
      <3> QED BY <1>1, <2>3, <2>6, <3>3 DEF LinesOf
    <2>7. CASE left[t] = 2
      <3>1. ~HalfWritten(line[g], pipe[g])
        BY <2>1, <2>2, <2>7 DEF LinesOf, WritesHalf
      <3> DEFINE q == Append(pipe[g], first)
      <3>2. /\ Whole(line[g], q) /\ q \in Seq(Piece) /\ HalfWritten(line[g], q)
            /\ LastId(line[g], q) = req[t]
        BY <1>2, <1>3, <2>1, <2>4, <3>1, PutPiece DEF LinesOf
      <3>3. CASE n = 1
        <4>1. pipe'[g] = q
          BY <1>8, <1>9, <2>5, <2>7, <3>3
        <4> HIDE DEF q
        <4> QED BY <1>1, <2>3, <2>7, <3>2, <3>3, <4>1 DEF LinesOf
      <3>4. CASE n # 1
        <4>1. pipe'[g] = Append(q, second)
          BY <1>8, <1>9, <2>5, <2>7, <3>4
        <4> HIDE DEF q
        <4>2. Whole(line[g], pipe'[g]) /\ ~HalfWritten(line[g], pipe'[g])
          BY <1>3, <2>4, <3>2, <4>1, PutPiece
        <4> QED BY <1>1, <2>3, <3>4, <4>2 DEF LinesOf
      <3> QED BY <3>3, <3>4
    <2> QED BY <1>2, <2>6, <2>7
  <1> QED BY <1>1, <1>2, <1>10, <1>11, <1>12 DEF LinesInv

LEMMA NextLines == TypeInv /\ Births /\ LinesInv /\ [Next]_vars => LinesInv'
  <1> SUFFICES ASSUME TypeInv, Births, LinesInv, [Next]_vars PROVE LinesInv'
    OBVIOUS
  <1>0. /\ pc \in [Task -> Location] /\ left \in [Task -> 0 .. 2] /\ mine \in [Task -> Child \union {Nothing}]
        /\ to \in [Task -> Child \union {Nothing}] /\ child \in Child \union {Nothing}
        /\ state \in [Child -> {"unborn", "running", "hung", "dead"}]
        /\ WritersInTurn /\ \A t \in Task : writer = t => pc[t] = "write"
    BY DEF TypeInv, TypeOK, Writers, LinesInv, LineLength
  <1>p. ASSUME UNCHANGED <<torn, state, pipe, line>> PROVE SamePipes
    BY <1>p DEF SamePipes, Clean
  <1>1. ASSUME NEW t \in Task, Request(t) \/ Answered(t) \/ Refused(t) \/ TimedOut(t) \/ Established(t)
        PROVE  LinesInv'
    <2>1. UNCHANGED <<writer, garbled, torn, state, pipe, line>> /\ pc[t] # "write"
      BY <1>1 DEF Request, Answered, Refused, TimedOut, Established, hubVars, childVars, historyVars
    <2>2. CASE Succeed(t) \/ Fail(t)
      BY <2>1, <2>2, <1>p, EndSame, SameLines
    <2>3. CASE Goto(t, "register") /\ UNCHANGED taskVars
      BY <1>0, <2>1, <2>3, <1>p, SameLines DEF Goto, taskVars, SameWriting, WritersInTurn
    <2>4. CASE /\ Goto(t, "lock") /\ req' = [req EXCEPT ![t] = Nothing]
               /\ left' = [left EXCEPT ![t] = LineLength] /\ UNCHANGED to
      <3>1. SameWriting
        BY <1>0, <2>1, <2>4 DEF Goto, SameWriting, WritersInTurn, LineLength, TypeInv, TypeOK
      <3> QED BY <2>1, <3>1, <1>p, SameLines
    <2> QED BY <1>1, <2>2, <2>3, <2>4 DEF Request, Answered, Refused, TimedOut, Established
  <1>2. ASSUME NEW t \in Task, Register(t) PROVE LinesInv'
    <2>1. SameWriting
      BY <1>0, <1>2 DEF Register, Goto, SameWriting, WritersInTurn, LineLength, TypeInv, TypeOK
    <2> QED BY <1>2, <2>1, <1>p, SameLines DEF Register, childVars, historyVars
  <1>3. ASSUME NEW t \in Task, Lock(t) PROVE LinesInv'
    <2>1. UNCHANGED <<garbled, torn, state, pipe, line>> /\ pc[t] = "lock" /\ writer = NoTask
      BY <1>3 DEF Lock, childVars, historyVars
    <2>2. CASE Fail(t) /\ UNCHANGED writer
      BY <2>1, <2>2, <1>p, EndSame, SameLines
    <2>3. CASE writer' = t /\ to' = [to EXCEPT ![t] = stdin] /\ Goto(t, "write") /\ UNCHANGED <<req, left>>
      <3>1. left[t] = 2 /\ \A u \in Task : pc[u] # "write"
        BY <1>0, <2>1, ConstantsAssumption DEF WritersInTurn
      <3>2. WritersInTurn'
        BY <1>0, <2>3, <3>1 DEF Goto, WritersInTurn
      <3>3. \A g \in Child, u \in Task : ~WritesHalf(u, g) /\ ~WritesHalf(u, g)'
        BY <1>0, <2>3, <3>1 DEF Goto, WritesHalf
      <3>4. ASSUME NEW g \in Child, Clean(g)' PROVE LinesOf(g)'
        <4>1. Clean(g) /\ LinesOf(g)
          BY <2>1, <3>4 DEF Clean, LinesInv
        <4> QED BY <2>1, <3>3, <4>1 DEF LinesOf
      <3> QED BY <2>1, <3>2, <3>4 DEF LinesInv
    <2> QED BY <1>3, <2>2, <2>3 DEF Lock
  <1>4. ASSUME NEW t \in Task, writer' = (IF writer = t THEN NoTask ELSE writer), UNCHANGED garbled,
               Succeed(t) \/ Fail(t) \/ Resume(t, Len(Program[job[t]]) + 1),
               torn \subseteq torn',
               \A g \in Child : Clean(g)' => /\ Clean(g) /\ pipe'[g] = pipe[g] /\ line'[g] = line[g]
                                            /\ ~WritesHalf(t, g)
        PROVE  LinesInv'
    <2>1. \E i \in Nat \ {0} : Resume(t, i)
      <3>1. Len(Program[job[t]]) + 1 \in Nat \ {0}
        BY Programs DEF TypeInv, TypeOK
      <3> QED BY <1>4, <3>1, EndType
    <2>2. pc' = [pc EXCEPT ![t] = pc'[t]] /\ pc'[t] \in Operations \union {"idle"}
      BY <2>1, ResumeType
    <2>3. \A u \in Task \ {t} : left'[u] = left[u] /\ to'[u] = to[u] /\ req'[u] = req[u] /\ pc'[u] = pc[u]
      BY <2>1, <2>2 DEF Resume, TypeInv, TypeOK
    <2>4. pc'[t] \notin {"write", "lock"}
      BY <2>2 DEF Operations
    <2>5. WritersInTurn'
      BY <1>0, <1>4, <2>3, <2>4 DEF WritersInTurn
    <2>6. ASSUME NEW g \in Child, Clean(g)' PROVE LinesOf(g)'
      <3>1. LinesOf(g) /\ pipe'[g] = pipe[g] /\ line'[g] = line[g] /\ ~WritesHalf(t, g)
        BY <1>4, <2>6 DEF LinesInv
      <3>2. \A u \in Task : (WritesHalf(u, g)' <=> WritesHalf(u, g)) /\ (WritesHalf(u, g) => req'[u] = req[u])
        BY <2>3, <2>4, <3>1 DEF WritesHalf
      <3> QED BY <3>1, <3>2 DEF LinesOf
    <2> QED BY <1>4, <2>5, <2>6 DEF LinesInv
  <1>5. ASSUME NEW t \in Task, WriteFails(t) PROVE LinesInv'
    <2>1. writer = t /\ writer' = NoTask /\ Fail(t) /\ UNCHANGED <<torn, garbled, state, pipe, line>> /\ state[to[t]] = "dead"
      BY <1>0, <1>5 DEF WriteFails, WritersInTurn, childVars, historyVars
    <2>2. \A g \in Child : Clean(g)' => Clean(g) /\ ~WritesHalf(t, g)
      BY <2>1 DEF Clean, WritesHalf
    <2> QED BY <1>4, <2>1, <2>2
  <1>6. ASSUME NEW t \in Task, Cancel(t) PROVE LinesInv'
    <2>1. /\ writer' = (IF writer = t THEN NoTask ELSE writer) /\ UNCHANGED garbled
          /\ Resume(t, Len(Program[job[t]]) + 1) /\ Killed(mine[t])
          /\ torn' = IF writer = t /\ left[t] < LineLength THEN torn \union {to[t]} ELSE torn
      BY <1>6 DEF Cancel
    <2>2. SamePipes
      BY <1>0, <2>1, KilledSame
    <2>3. \A g \in Child : Clean(g)' => ~WritesHalf(t, g)
      BY <1>0, <2>1 DEF Clean, WritesHalf, WritersInTurn, LineLength
    <2> QED BY <1>4, <2>1, <2>2, <2>3 DEF SamePipes
  <1>7. ASSUME NEW t \in Task, Connect(t) PROVE LinesInv'
    <2>1. UNCHANGED <<writer, garbled, torn, pipe, line>> /\ pc[t] = "connect"
      BY <1>7 DEF Connect, hubVars, historyVars
    <2>2. CASE (Succeed(t) \/ Fail(t)) /\ UNCHANGED state
      BY <2>1, <2>2, <1>p, EndSame, SameLines
    <2>3. CASE /\ Spawned < MaxChildren /\ state' = [state EXCEPT ![Spawned + 1] = "running"]
               /\ Goto(t, "store_stdin") /\ UNCHANGED <<req, left, to>>
      <3>1. Spawned + 1 \in Child /\ Spawned \in Nat
        <4>1. IsFiniteSet(Child)
          BY FS_Interval, ConstantsAssumption DEF Child
        <4>2. Spawned \in Nat
          BY <4>1, FS_Subset, FS_CardinalityType DEF Spawned
        <4> QED BY <2>3, <4>2, SpawnedType
      <3>2. state[Spawned + 1] = "unborn"
        BY <3>1 DEF Births
      <3>3. SamePipes
        BY <1>0, <2>1, <2>3, <3>1, <3>2 DEF SamePipes, Clean
      <3>4. SameWriting
        BY <1>0, <2>1, <2>3 DEF Goto, SameWriting, WritersInTurn
      <3> QED BY <2>1, <3>3, <3>4, SameLines
    <2> QED BY <1>7, <2>2, <2>3 DEF Connect
  <1>8. ASSUME NEW t \in Task, StoreStdin(t) \/ Disconnect(t) \/ DropStdin(t) PROVE LinesInv'
    <2>1. UNCHANGED <<writer, garbled, torn, state, pipe, line>>
      BY <1>8 DEF StoreStdin, Disconnect, DropStdin, childVars, historyVars
    <2>2. SameWriting
      BY <1>0, <1>8
         DEF StoreStdin, Disconnect, DropStdin, Goto, taskVars, SameWriting, WritersInTurn
    <2> QED BY <2>1, <2>2, <1>p, SameLines
  <1>9. ASSUME NEW t \in Task, StoreChild(t) PROVE LinesInv'
    <2>1. SamePipes
      BY <1>0, <1>9, KilledSame DEF StoreChild, historyVars
    <2>2. SameWriting
      BY <1>0, <1>9 DEF StoreChild, Goto, SameWriting, WritersInTurn
    <2> QED BY <1>9, <2>1, <2>2, SameLines DEF StoreChild, historyVars
  <1>10. ASSUME NEW t \in Task, Kill(t) PROVE LinesInv'
    <2>1. SamePipes
      BY <1>0, <1>10, KilledSame DEF Kill, historyVars
    <2>2. SameWriting
      BY <1>10, EndSame DEF Kill
    <2> QED BY <1>10, <2>1, <2>2, SameLines DEF Kill, historyVars
  <1>11. ASSUME NEW t \in Task, StartJob(t) PROVE LinesInv'
    <2>1. PICK j \in Jobs : Goto(t, Program[j][1])
      BY <1>11 DEF StartJob
    <2>2. Program[j][1] \in Operations
      <3>1. j \in DOMAIN Program
        BY ConstantsAssumption
      <3>2. Len(Program[j]) \in 1 .. 3
        BY <3>1, Programs
      <3>3. 1 \in Nat \ {0} /\ 1 <= Len(Program[j])
        BY <3>2
      <3> QED BY <3>1, <3>3, Programs
    <2>3. SameWriting
      BY <1>0, <1>11, <2>1, <2>2 DEF StartJob, Goto, Operations, SameWriting, WritersInTurn
    <2> QED BY <1>11, <2>3, <1>p, SameLines DEF StartJob, hubVars, childVars, historyVars
  <1>12. ASSUME NEW g \in Child, Read(g) PROVE LinesInv'
    <2>1. UNCHANGED <<writer, garbled, torn, state, pipe, line, pc, left, to, req>>
      BY <1>12
         DEF Read, ReadAnswer, ReadEnds, MarkDisconnected, DrainPending, hubVars, taskVars,
             childVars, historyVars
    <2>2. SameWriting
      BY <1>0, <2>1 DEF SameWriting, WritersInTurn
    <2> QED BY <2>1, <2>2, <1>p, SameLines
  <1>13. ASSUME NEW g \in Child, ChildReads(g) PROVE LinesInv'
    <2> DEFINE p == Head(pipe[g])
               whole == p.end /\ line[g] = <<p.id>>
               plain == ~p.end /\ line[g] = <<>>
    <2>1. /\ line' = [line EXCEPT ![g] = IF p.end THEN <<>> ELSE Append(line[g], p.id)]
          /\ garbled' = IF whole \/ plain THEN garbled ELSE garbled \union {g}
          /\ pipe' = [pipe EXCEPT ![g] = Tail(pipe[g])]
          /\ pipe[g] # <<>> /\ state[g] = "running"
          /\ UNCHANGED <<writer, pc, left, to, req, state, torn>>
      BY <1>13 DEF ChildReads, hubVars, taskVars
    <2>2. pipe[g] \in Seq(Piece) /\ line \in [Child -> Seq(Id \union {Nothing})] /\ pipe \in [Child -> Seq(Piece)]
      BY DEF TypeInv, TypeOK
    <2>3. WritersInTurn'
      BY <1>0, <2>1 DEF WritersInTurn
    <2>4. \A h \in Child, u \in Task : WritesHalf(u, h)' <=> WritesHalf(u, h)
      BY <2>1 DEF WritesHalf
    <2>5. ASSUME NEW h \in Child, h # g, Clean(h)' PROVE LinesOf(h)'
      <3>1. LinesOf(h) /\ pipe'[h] = pipe[h] /\ line'[h] = line[h]
        BY <2>1, <2>2, <2>5 DEF Clean, LinesInv
      <3> QED BY <2>1, <2>4, <3>1 DEF LinesOf
    <2>6. ASSUME Clean(g) PROVE LinesOf(g)' /\ (whole \/ plain)
      <3> DEFINE m == IF p.end THEN <<>> ELSE <<p.id>>
      <3>1. LinesOf(g)
        BY <2>6 DEF LinesInv
      <3>2. /\ line[g] = IF p.end THEN <<p.id>> ELSE <<>>
            /\ Whole(m, Tail(pipe[g]))
            /\ HalfWritten(m, Tail(pipe[g])) <=> HalfWritten(line[g], pipe[g])
            /\ HalfWritten(m, Tail(pipe[g])) => LastId(m, Tail(pipe[g])) = LastId(line[g], pipe[g])
        <4>1. Whole(line[g], pipe[g]) /\ pipe[g] # <<>>
          BY <2>1, <3>1 DEF LinesOf
        <4>2. m = IF Head(pipe[g]).end THEN <<>> ELSE <<Head(pipe[g]).id>>
          OBVIOUS
        <4> HIDE DEF m
        <4> QED BY <2>2, <4>1, <4>2, TakePiece
      <3>3. line'[g] = m /\ pipe'[g] = Tail(pipe[g])
        <4>1. ~p.end => Append(line[g], p.id) = <<p.id>>
          BY <3>2
        <4> QED BY <2>1, <2>2, <4>1
      <3>4. LinesOf(g)'
        <4> HIDE DEF m
        <4>1. \A u \in Task : WritesHalf(u, g) => HalfWritten(line[g], pipe[g])
          BY <3>1 DEF LinesOf
        <4> QED BY <2>1, <2>4, <3>1, <3>2, <3>3, <4>1 DEF LinesOf
      <3> QED BY <3>2, <3>4
    <2>7. Clean(g)' => Clean(g)
      BY <2>1 DEF Clean
    <2>8. garbled' \subseteq torn'
      BY <2>1, <2>6 DEF Clean, LinesInv
    <2> QED BY <2>3, <2>5, <2>6, <2>7, <2>8 DEF LinesInv
  <1>14. ASSUME NEW g \in Child, ChildAnswers(g) \/ ChildExits(g) \/ ChildHangs(g) PROVE LinesInv'
    <2>1. UNCHANGED <<writer, garbled, torn, pc, left, to, req>>
      BY <1>14 DEF ChildAnswers, ChildExits, ChildHangs, hubVars, taskVars, historyVars
    <2>2. SameWriting
      BY <1>0, <2>1 DEF SameWriting, WritersInTurn
    <2>3. SamePipes
      <3>1. CASE ChildExits(g)
        BY <2>1, <3>1, KilledSame DEF ChildExits
      <3>2. CASE ChildAnswers(g) \/ ChildHangs(g)
        BY <1>0, <2>1, <3>2 DEF ChildAnswers, ChildHangs, SamePipes, Clean
      <3> QED BY <1>14, <3>1, <3>2
    <2> QED BY <2>1, <2>2, <2>3, SameLines
  <1>15. CASE UNCHANGED vars
    <2>1. UNCHANGED <<writer, garbled, torn, state, pipe, line, pc, left, to, req>>
      BY <1>15 DEF vars
    <2>2. SameWriting
      BY <1>0, <2>1 DEF SameWriting, WritersInTurn
    <2> QED BY <2>1, <2>2, <1>p, SameLines
  <1> QED BY <1>1, <1>2, <1>3, <1>5, <1>6, <1>7, <1>8, <1>9, <1>10, <1>11, <1>12, <1>13, <1>14,
          <1>15, WriteLines
          DEF Next, Proceed, ChildRuns

LEMMA InitLines == Init => Births /\ LinesInv
  <1> SUFFICES ASSUME Init PROVE Births /\ LinesInv
    OBVIOUS
  <1>1. Births
    BY InitBirths
  <1>2. \A g \in Child : LinesOf(g)
    <2>1. \A g \in Child : pipe[g] = <<>> /\ line[g] = <<>> /\ ~\E t \in Task : WritesHalf(t, g)
      BY DEF Init, WritesHalf
    <2>2. Len(<<>>) = 0 /\ 2 .. 0 = {}
      OBVIOUS
    <2>3. Whole(<<>>, <<>>) /\ ~HalfWritten(<<>>, <<>>)
      BY <2>2 DEF Whole, HalfWritten
    <2> QED BY <2>1, <2>3 DEF LinesOf
  <1>3. WritersInTurn /\ garbled \subseteq torn
    BY DEF Init, WritersInTurn
  <1> QED BY <1>1, <1>2, <1>3 DEF LinesInv

\* A child reads the lines the hub wrote, however small its pipe and however many
\* write; the locks are held until a line is out, so only a client that goes away
\* in the middle spoils one.
THEOREM LinesStayWhole == Spec => []OnlyACancelTearsALine
  <1>1. LinesInv => OnlyACancelTearsALine
    BY DEF LinesInv, OnlyACancelTearsALine
  <1>2. Spec => []TypeInv
    BY InitTypeInv, NextTypeInv, PTL DEF Spec
  <1> QED BY <1>1, <1>2, InitLines, NextBirths, NextLines, PTL DEF Spec

-----------------------------------------------------------------------------
(* Ended readers.                                                          *)

\* The reader of the child in the slot has marked the end, and no connect that
\* could not be stopped was under way.
Marked(g) == child = g /\ reader[g] \in {"marked", "done"} /\ g \notin overtaken

\* Then nobody is about to set the flag.
NobodyEstablishes == \A g \in Child : Marked(g) => ~connected /\ \A t \in Task : ~Establishing(t, g)

\* A child's reader starts when the task that spawned the child gives it away.
\* That task is the only one to have held it.
ReadersAreBorn ==
    /\ \A g \in Child : reader[g] # "none" => state[g] # "unborn" /\ \A t \in Task : mine[t] # g
    /\ \A t, u \in Task : mine[t] = mine[u] /\ mine[t] # Nothing => t = u

LEMMA NextReaders == TypeInv /\ Births /\ ReadersAreBorn /\ [Next]_vars => ReadersAreBorn'
  <1> SUFFICES ASSUME TypeInv, Births, ReadersAreBorn, [Next]_vars PROVE ReadersAreBorn'
    OBVIOUS
  <1>0. /\ mine \in [Task -> Child \union {Nothing}] /\ child \in Child \union {Nothing} /\ Nothing \notin Child
        /\ state \in [Child -> {"unborn", "running", "hung", "dead"}]
        /\ reader \in [Child -> {"none", "reading", "ended", "marked", "done"}]
    BY DEF TypeInv, TypeOK, Child, Nothing
  <1>1. ASSUME \A g \in Child : state[g] # "unborn" => state'[g] # "unborn",
               \A g \in Child : reader'[g] # "none" => reader[g] # "none",
               \A t \in Task : mine'[t] \in {mine[t], Nothing}
        PROVE  ReadersAreBorn'
    BY <1>0, <1>1 DEF ReadersAreBorn
  <1>2. ASSUME NEW g \in Child \union {Nothing}, Killed(g)
        PROVE  \A h \in Child : state[h] # "unborn" => state'[h] # "unborn"
    BY <1>0, <1>2 DEF Killed
  <1>3. ASSUME NEW t \in Task, Succeed(t) \/ Fail(t) \/ Resume(t, Len(Program[job[t]]) + 1)
        PROVE  \A u \in Task : mine'[u] \in {mine[u], Nothing}
    BY <1>0, <1>3 DEF Succeed, Fail, Resume
  <1>4. ASSUME NEW t \in Task, Proceed(t), ~Connect(t), ~StoreChild(t) PROVE ReadersAreBorn'
    <2>1. \A u \in Task : mine'[u] \in {mine[u], Nothing}
      BY <1>0, <1>3, <1>4
         DEF Proceed, Request, Register, Lock, Write, WriteFails, Answered, Refused, TimedOut,
             StoreStdin, Established, Disconnect, DropStdin, Kill, taskVars
    <2>2. \A g \in Child : state[g] # "unborn" => state'[g] # "unborn"
      BY <1>0, <1>2, <1>4
         DEF Proceed, Request, Register, Lock, Write, WriteFails, Answered, Refused, TimedOut,
             StoreStdin, Established, Disconnect, DropStdin, Kill, childVars
    <2>3. UNCHANGED reader
      BY <1>4
         DEF Proceed, Request, Register, Lock, Write, WriteFails, Answered, Refused, TimedOut,
             StoreStdin, Established, Disconnect, DropStdin, Kill
    <2> QED BY <1>1, <2>1, <2>2, <2>3
  <1>5. ASSUME NEW t \in Task, StoreChild(t) PROVE ReadersAreBorn'
    <2>1. /\ mine' = [mine EXCEPT ![t] = Nothing]
          /\ reader' = [reader EXCEPT ![mine[t]] = "reading"] /\ Killed(child)
      BY <1>5 DEF StoreChild
    <2>2. \A g \in Child : state[g] # "unborn" => state'[g] # "unborn"
      BY <1>0, <1>2, <2>1
    <2> QED BY <1>0, <2>1, <2>2 DEF ReadersAreBorn, Births
  <1>6. ASSUME NEW t \in Task, Connect(t) PROVE ReadersAreBorn'
    <2>1. UNCHANGED reader
      BY <1>6 DEF Connect
    <2>2. CASE (Succeed(t) \/ Fail(t)) /\ UNCHANGED state
      BY <1>1, <1>3, <2>1, <2>2
    <2>3. CASE /\ Spawned < MaxChildren
               /\ state' = [state EXCEPT ![Spawned + 1] = "running"]
               /\ mine' = [mine EXCEPT ![t] = Spawned + 1]
      <3>1. Spawned + 1 \in Child /\ Spawned \in Nat
        <4>1. IsFiniteSet(Child)
          BY FS_Interval, ConstantsAssumption DEF Child
        <4>2. Spawned \in Nat
          BY <4>1, FS_Subset, FS_CardinalityType DEF Spawned
        <4> QED BY <2>3, <4>2, SpawnedType
      <3>2. Spawned + 1 \notin {g \in Child : state[g] # "unborn"}
        BY <3>1 DEF Births
      <3>3. state[Spawned + 1] = "unborn"
        BY <3>1, <3>2
      <3> HIDE DEF Spawned
      <3> QED BY <1>0, <2>1, <2>3, <3>1, <3>3 DEF ReadersAreBorn, Births
    <2> QED BY <1>6, <2>2, <2>3 DEF Connect
  <1>7. ASSUME NEW t \in Task, Cancel(t) PROVE ReadersAreBorn'
    BY <1>0, <1>1, <1>2, <1>3, <1>7 DEF Cancel
  <1>8. ASSUME NEW t \in Task, StartJob(t) PROVE ReadersAreBorn'
    BY <1>1, <1>8 DEF StartJob, childVars
  <1>9. ASSUME NEW g \in Child, Read(g) PROVE ReadersAreBorn'
    BY <1>0, <1>1, <1>9
       DEF Read, ReadAnswer, ReadEnds, MarkDisconnected, DrainPending, taskVars, childVars
  <1>10. ASSUME NEW g \in Child, ChildRuns(g) PROVE ReadersAreBorn'
    <2>1. \A h \in Child : state[h] # "unborn" => state'[h] # "unborn"
      BY <1>0, <1>2, <1>10 DEF ChildRuns, ChildReads, ChildAnswers, ChildExits, ChildHangs
    <2> QED BY <1>1, <1>10, <2>1
            DEF ChildRuns, ChildReads, ChildAnswers, ChildExits, ChildHangs, taskVars
  <1>11. CASE UNCHANGED vars
    BY <1>1, <1>11 DEF vars
  <1> QED BY <1>4, <1>5, <1>6, <1>7, <1>8, <1>9, <1>10, <1>11 DEF Next

\* A task whose operation is over has no connect left to establish.
LEMMA EndEstablishes ==
    ASSUME TypeInv, NEW t \in Task, NEW i \in Nat \ {0}, Resume(t, i)
    PROVE  \A g \in Child : ~Establishing(t, g)'
  <1>1. /\ pc'[t] \in Operations \union {"idle"} /\ req'[t] = Nothing
        /\ to'[t] = Nothing /\ reply'[t] = NoReply
    BY ResumeType DEF TypeInv, TypeOK
  <1>2. Nothing \notin Child /\ NoReply.kind = "none"
    BY DEF Nothing, Child, NoReply
  <1> QED BY <1>1, <1>2 DEF Establishing, Operations

\* No answer to a task that is not writing or waiting has come, or is to be read.
LEMMA Unanswered ==
    ASSUME TypeInv, AnswerInv, NEW t \in Task, pc[t] \notin {"write", "wait"}
    PROVE  reply[t].kind # "answer" /\ \A g \in Child : req[t] \notin out[g]
  <1>1. \A g \in Child : req[t] \in out[g] => req[t] # Nothing /\ Holds(g, req[t])
    BY DEF TypeInv, TypeOK, Id, Nothing, Holds
  <1> QED BY <1>1 DEF AnswerInv, HeldWhereWritten, AnsweredWaits

SameTask(u) ==
    /\ pc'[u] = pc[u] /\ job'[u] = job[u] /\ op'[u] = op[u]
    /\ req'[u] = req[u] /\ to'[u] = to[u] /\ reply'[u] = reply[u]

\* A task's step that neither starts nor ends a reader.
LEMMA TaskEstablishes ==
    ASSUME TypeInv, NobodyEstablishes, NEW t \in Task,
           UNCHANGED <<reader, out, overtaken>>, child' \in {child, Nothing}, connected' => connected,
           \A u \in Task \ {t} : SameTask(u),
           \A g \in Child : Establishing(t, g)' => Establishing(t, g)
    PROVE  NobodyEstablishes'
  <1>1. \A g \in Child : Marked(g)' => Marked(g)
    BY DEF Marked, Child, Nothing
  <1>2. \A g \in Child, u \in Task \ {t} : Establishing(u, g)' => Establishing(u, g)
    BY DEF SameTask, Establishing, Operation
  <1> QED BY <1>1, <1>2 DEF NobodyEstablishes

LEMMA TaskEnds ==
    ASSUME TypeInv, NobodyEstablishes, NEW t \in Task, NEW i \in Nat \ {0}, Resume(t, i),
           UNCHANGED <<reader, out, overtaken>>, child' \in {child, Nothing}, connected' => connected
    PROVE  NobodyEstablishes'
  <1>1. \A g \in Child : ~Establishing(t, g)'
    BY EndEstablishes
  <1>2. \A u \in Task \ {t} : SameTask(u)
    BY DEF Resume, Goto, SameTask, TypeInv, TypeOK
  <1> QED BY <1>1, <1>2, TaskEstablishes

EndInv == TypeInv /\ AnswerInv /\ NoStrayChild /\ Births /\ ReadersAreBorn /\ NobodyEstablishes

LEMMA TaskNobodyEstablishes ==
    ASSUME EndInv, NEW t \in Task, StartJob(t) \/ Proceed(t) \/ Cancel(t)
    PROVE  NobodyEstablishes'
  <1>0. TypeInv /\ AnswerInv /\ NobodyEstablishes /\ ReadersAreBorn
    BY DEF EndInv
  <1>t. /\ pc \in [Task -> Location] /\ job \in [Task -> DOMAIN Program] /\ op \in [Task -> 1 .. 3]
        /\ req \in [Task -> Id \union {Nothing}] /\ to \in [Task -> Child \union {Nothing}]
        /\ reply \in [Task -> Reply] /\ out \in [Child -> SUBSET Id]
        /\ reader \in [Child -> {"none", "reading", "ended", "marked", "done"}]
        /\ mine \in [Task -> Child \union {Nothing}]
        /\ Nothing \notin Child /\ Nothing \notin Id
    BY <1>0 DEF TypeInv, TypeOK, Nothing, Child, Id
  <1>e. ASSUME Succeed(t) \/ Fail(t), UNCHANGED <<reader, out, overtaken>>,
               child' \in {child, Nothing}, connected' => connected
        PROVE  NobodyEstablishes'
    BY <1>0, <1>e, EndType, TaskEnds
  <1>s. ASSUME UNCHANGED <<reader, out, overtaken, child>>, connected' => connected,
               pc[t] \notin {"write", "wait"}, reply' = reply, UNCHANGED <<to, req>>,
               pc' = [pc EXCEPT ![t] = pc'[t]], pc'[t] \notin {"lock", "write", "established"},
               \A u \in Task \ {t} : job'[u] = job[u] /\ op'[u] = op[u]
        PROVE  NobodyEstablishes'
    <2>1. \A u \in Task \ {t} : SameTask(u)
      BY <1>t, <1>s DEF SameTask
    <2>2. reply[t].kind # "answer" /\ \A g \in Child : req[t] \notin out[g]
      BY <1>0, <1>s, Unanswered
    <2>3. \A g \in Child : ~Establishing(t, g)'
      BY <1>s, <2>2 DEF Establishing
    <2> QED BY <1>0, <1>s, <2>1, <2>3, TaskEstablishes
  <1>1. CASE StartJob(t)
    <2>1. PICK j \in Jobs : job' = [job EXCEPT ![t] = j] /\ Goto(t, Program[j][1])
      BY <1>1 DEF StartJob
    <2>2. Program[j][1] \in Operations
      BY <2>1, Programs, ConstantsAssumption
    <2>3. pc' = [pc EXCEPT ![t] = pc'[t]] /\ pc'[t] \in Operations
      BY <1>t, <2>1, <2>2 DEF Goto
    <2>4. \A u \in Task \ {t} : job'[u] = job[u] /\ op'[u] = op[u]
      BY <1>1, <1>t, <2>1 DEF StartJob
    <2> QED BY <1>1, <1>s, <2>3, <2>4 DEF StartJob, hubVars, childVars, historyVars, Operations
  <1>2. CASE Request(t) \/ StoreStdin(t) \/ Disconnect(t) \/ DropStdin(t)
    BY <1>2, <1>e, <1>s, <1>t
       DEF Request, StoreStdin, Disconnect, DropStdin, Goto, hubVars, taskVars, childVars,
           historyVars
  <1>3. CASE Register(t)
    <2>1. /\ pc' = [pc EXCEPT ![t] = "lock"] /\ req' = [req EXCEPT ![t] = counter + 1]
          /\ counter + 1 \in Id /\ UNCHANGED <<to, reply, job, op, reader, out, overtaken, child, connected>>
      BY <1>0, <1>3, ConstantsAssumption
         DEF Register, Goto, TypeInv, TypeOK, Id, childVars, historyVars
    <2>2. \A g \in Child : counter + 1 \notin out[g]
      <3>1. \A g \in Child : counter + 1 \in out[g] => counter + 1 <= counter
        BY <1>0, <2>1 DEF AnswerInv, IdsAreOld, Holds
      <3>2. counter \in Nat
        BY <1>0 DEF TypeInv, TypeOK
      <3> QED BY <3>1, <3>2
    <2>3. reply[t].kind # "answer"
      BY <1>0, <1>3, Unanswered DEF Register
    <2>4. \A g \in Child : ~Establishing(t, g)'
      BY <1>t, <2>1, <2>2, <2>3 DEF Establishing
    <2>5. \A u \in Task \ {t} : SameTask(u)
      BY <1>t, <2>1 DEF SameTask
    <2> QED BY <1>0, <2>1, <2>4, <2>5, TaskEstablishes
  <1>4. CASE Lock(t)
    <2>1. CASE stdin = Nothing
      BY <1>4, <1>e, <2>1 DEF Lock, childVars, historyVars
    <2>2. CASE stdin # Nothing
      <3>1. /\ pc[t] = "lock" /\ pc' = [pc EXCEPT ![t] = "write"] /\ to' = [to EXCEPT ![t] = stdin]
            /\ UNCHANGED <<req, reply, job, op, reader, out, overtaken, child, connected>>
        BY <1>4, <2>2 DEF Lock, Goto, childVars, historyVars
      <3>2. reply[t].kind # "answer" /\ \A g \in Child : req[t] \notin out[g]
        BY <1>0, <3>1, Unanswered
      <3>3. \A g \in Child : Establishing(t, g)' => Establishing(t, g)
        BY <1>t, <3>1, <3>2 DEF Establishing
      <3>4. \A u \in Task \ {t} : SameTask(u)
        BY <1>t, <3>1 DEF SameTask
      <3> QED BY <1>0, <3>1, <3>3, <3>4, TaskEstablishes
    <2> QED BY <2>1, <2>2
  <1>5. CASE Write(t)
    <2>1. /\ pc[t] = "write" /\ pc' = [pc EXCEPT ![t] = pc'[t]]
          /\ pc'[t] \in {"write", "established", "wait"} /\ (pc'[t] = "established" => req[t] = Nothing)
          /\ UNCHANGED <<req, to, reply, job, op, reader, out, overtaken, child, connected>>
      BY <1>5, <1>t DEF Write, Goto, historyVars
    <2>2. \A g \in Child : Establishing(t, g)' => Establishing(t, g)
      BY <1>t, <2>1 DEF Establishing, Operation
    <2>3. \A u \in Task \ {t} : SameTask(u)
      BY <1>t, <2>1 DEF SameTask
    <2> QED BY <1>0, <2>1, <2>2, <2>3, TaskEstablishes
  <1>6. CASE WriteFails(t) \/ Refused(t) \/ TimedOut(t)
    BY <1>6, <1>e DEF WriteFails, Refused, TimedOut, hubVars, childVars, historyVars
  <1>7. CASE Answered(t)
    <2>1. CASE Operation(t) = "request"
      BY <1>7, <1>e, <2>1 DEF Answered, hubVars, childVars, historyVars
    <2>2. CASE Operation(t) # "request"
      <3>1. /\ reply[t].kind = "answer" /\ UNCHANGED <<reader, out, overtaken, child, connected>>
            /\ \A u \in Task \ {t} : SameTask(u)
        BY <1>7, <1>t, <2>2 DEF Answered, Goto, SameTask, hubVars, childVars, historyVars
      <3>2. \A g \in Child : Establishing(t, g)
        BY <2>2, <3>1 DEF Establishing
      <3> QED BY <1>0, <3>1, <3>2, TaskEstablishes
    <2> QED BY <2>1, <2>2
  <1>8. CASE Connect(t)
    <2>1. CASE Succeed(t) \/ Fail(t)
      BY <1>8, <1>e, <2>1 DEF Connect, hubVars, historyVars
    <2>2. CASE /\ Goto(t, "store_stdin") /\ UNCHANGED <<job, op, req, to, reply>>
      BY <1>8, <1>s, <1>t, <2>2 DEF Connect, Goto, hubVars, historyVars
    <2> QED BY <1>8, <2>1, <2>2 DEF Connect
  <1>9. CASE StoreChild(t)
    <2>1. mine[t] \in Child \union {Nothing} /\ child' = mine[t] /\ reader' = [reader EXCEPT ![mine[t]] = "reading"]
      BY <1>9, <1>t DEF StoreChild
    <2>2. \A g \in Child : ~Marked(g)'
      BY <1>t, <2>1 DEF Marked
    <2> QED BY <2>2 DEF NobodyEstablishes
  <1>10. CASE Established(t)
    <2>1. /\ \A g \in Child : Establishing(t, g)
          /\ UNCHANGED <<reader, overtaken, child>>
      BY <1>10 DEF Established, Establishing, historyVars
    <2> QED BY <1>0, <2>1 DEF NobodyEstablishes, Marked
  <1>11. CASE Kill(t)
    BY <1>11, <1>e DEF Kill, historyVars
  <1>12. CASE Cancel(t)
    <2>1. Len(Program[job[t]]) \in Nat
      BY <1>t, Programs
    <2>2. Len(Program[job[t]]) + 1 \in Nat \ {0}
      BY <2>1
    <2> QED BY <1>0, <1>12, <2>2, TaskEnds DEF Cancel
  <1> QED BY <1>1, <1>2, <1>3, <1>4, <1>5, <1>6, <1>7, <1>8, <1>9, <1>10, <1>11, <1>12 DEF Proceed

LEMMA NextNobodyEstablishes == EndInv /\ [Next]_vars => NobodyEstablishes'
  <1> SUFFICES ASSUME EndInv, [Next]_vars PROVE NobodyEstablishes'
    OBVIOUS
  <1>0. TypeInv /\ AnswerInv /\ NobodyEstablishes /\ ReadersAreBorn /\ NoStrayChild
    BY DEF EndInv
  <1>t. /\ req \in [Task -> Id \union {Nothing}] /\ to \in [Task -> Child \union {Nothing}]
        /\ reply \in [Task -> Reply] /\ out \in [Child -> SUBSET Id]
        /\ reader \in [Child -> {"none", "reading", "ended", "marked", "done"}]
        /\ Nothing \notin Child /\ Nothing \notin Id
    BY <1>0 DEF TypeInv, TypeOK, Nothing, Child, Id
  <1>1. ASSUME connected' => connected, \A g \in Child : Marked(g)' => Marked(g),
               \A g \in Child, u \in Task : Marked(g)' /\ Establishing(u, g)' => Establishing(u, g)
        PROVE  NobodyEstablishes'
    BY <1>0, <1>1 DEF NobodyEstablishes
  <1>2. ASSUME UNCHANGED <<pc, job, op, req, to>>, NEW g \in Child, NEW u \in Task, Establishing(u, g)',
               reply'[u].kind = "answer" => reply[u].kind = "answer",
               \A h \in Child \ {g} : reader'[h] = "reading" => reader[h] = "reading" /\ out'[h] \subseteq out[h]
        PROVE  Establishing(u, g)
    BY <1>2 DEF Establishing, Operation
  <1>3. ASSUME NEW h \in Child, ReadAnswer(h) PROVE NobodyEstablishes'
    <2>1. /\ reader[h] = "reading"
          /\ UNCHANGED <<connected, child, reader, overtaken, pc, job, op, req, to>>
      BY <1>3 DEF ReadAnswer, historyVars
    <2>2. PICK id \in out[h] :
             /\ out' = [out EXCEPT ![h] = @ \ {id}]
             /\ IF id \in pending THEN Hand(id, [kind |-> "answer", from |-> h]) ELSE UNCHANGED reply
      BY <1>3 DEF ReadAnswer
    <2>3. ASSUME NEW g \in Child, NEW u \in Task, Marked(g)', Establishing(u, g)'
          PROVE  Establishing(u, g)
      <3>1. g # h
        BY <2>1, <2>3 DEF Marked
      <3>2. \A k \in Child : out'[k] \subseteq out[k]
        BY <1>t, <2>2
      <3>3. CASE reply'[u] # reply[u]
        <4>1. req[u] = id /\ id \in Id
          BY <1>t, <2>2, <3>3 DEF Hand, Owners
        <4>2. to[u] = h
          BY <1>0, <1>t, <2>2, <4>1 DEF AnswerInv, HeldWhereWritten, Holds
        <4>3. req[u] \in out[h]
          BY <2>2, <4>1
        <4>4. CASE Operation(u) # "request"
          BY <2>1, <3>1, <4>2, <4>3, <4>4 DEF Establishing
        <4>5. CASE Operation(u) = "request"
          BY <2>1, <2>3, <4>5 DEF Establishing, Operation
        <4> QED BY <4>4, <4>5
      <3>4. CASE reply'[u] = reply[u]
        BY <1>2, <2>1, <2>3, <3>2, <3>4
      <3> QED BY <3>3, <3>4
    <2> QED BY <1>1, <2>1, <2>3 DEF Marked
  <1>4. ASSUME NEW h \in Child, ReadEnds(h) PROVE NobodyEstablishes'
    <2>1. /\ reader' = [reader EXCEPT ![h] = "ended"]
          /\ UNCHANGED <<connected, child, overtaken, pc, job, op, req, to, reply, out>>
      BY <1>4 DEF ReadEnds, hubVars, taskVars, childVars, historyVars
    <2>2. \A g \in Child : reader'[g] = reader[g] \/ reader'[g] = "ended"
      BY <1>t, <2>1
    <2> QED BY <1>1, <1>2, <2>1, <2>2 DEF Marked
  <1>5. ASSUME NEW h \in Child, MarkDisconnected(h) PROVE NobodyEstablishes'
    <2>1. /\ reader' = [reader EXCEPT ![h] = "marked"] /\ connected' = FALSE
          /\ overtaken' = IF \E t \in Task : Establishing(t, h) THEN overtaken \union {h} ELSE overtaken
          /\ UNCHANGED <<child, pc, job, op, req, to, reply, out>>
      BY <1>5 DEF MarkDisconnected, taskVars, childVars
    <2>2. \A g \in Child : reader'[g] = reader[g] \/ reader'[g] = "marked"
      BY <1>t, <2>1
    <2>3. \A g \in Child, u \in Task : Establishing(u, g)' => Establishing(u, g)
      BY <1>2, <2>1, <2>2
    <2>4. ASSUME NEW g \in Child, NEW u \in Task, Marked(g)', Establishing(u, g) PROVE FALSE
      <3>1. CASE g = h
        BY <2>1, <2>4, <3>1 DEF Marked
      <3>2. CASE g # h
        BY <1>0, <1>t, <2>1, <2>4, <3>2 DEF Marked, NobodyEstablishes
      <3> QED BY <3>1, <3>2
    <2> QED BY <2>1, <2>3, <2>4 DEF NobodyEstablishes
  <1>6. ASSUME NEW h \in Child, DrainPending(h) PROVE NobodyEstablishes'
    <2>1. /\ reader[h] = "marked" /\ reader' = [reader EXCEPT ![h] = "done"]
          /\ reply' = [t \in Task |-> IF req[t] \in pending /\ reply[t].kind = "none"
                                      THEN [kind |-> "gone", from |-> h] ELSE reply[t]]
          /\ UNCHANGED <<connected, child, overtaken, pc, job, op, req, to, out>>
      BY <1>6 DEF DrainPending, childVars, historyVars
    <2>2. \A g \in Child : reader'[g] = reader[g] \/ (reader'[g] = "done" /\ reader[g] = "marked")
      BY <1>t, <2>1
    <2>3. \A u \in Task : reply'[u].kind = "answer" => reply[u].kind = "answer"
      BY <2>1
    <2> QED BY <1>1, <1>2, <2>1, <2>2, <2>3 DEF Marked
  <1>7. ASSUME NEW h \in Child, ChildAnswers(h) PROVE NobodyEstablishes'
    <2>1. /\ state[h] = "running" /\ \A g \in Child : g # h => out'[g] = out[g]
          /\ UNCHANGED <<connected, child, reader, overtaken, pc, job, op, req, to, reply>>
      BY <1>7, <1>t DEF ChildAnswers, hubVars, taskVars, historyVars
    <2>2. child # h => reader[h] = "none"
      BY <1>0, <1>t, <2>1 DEF NoStrayChild, ReadersAreBorn
    <2> QED BY <1>1, <1>2, <2>1, <2>2 DEF Marked
  <1>8. ASSUME NEW h \in Child, ChildReads(h) \/ ChildExits(h) \/ ChildHangs(h) PROVE NobodyEstablishes'
    <2>1. UNCHANGED <<connected, child, reader, overtaken, pc, job, op, req, to, reply, out>>
      BY <1>8 DEF ChildReads, ChildExits, ChildHangs, hubVars, taskVars, historyVars
    <2> QED BY <1>1, <1>2, <2>1 DEF Marked
  <1>9. CASE UNCHANGED vars
    <2>1. UNCHANGED <<connected, child, reader, overtaken, pc, job, op, req, to, reply, out>>
      BY <1>9 DEF vars
    <2> QED BY <1>1, <1>2, <2>1 DEF Marked
  <1> QED BY <1>3, <1>4, <1>5, <1>6, <1>7, <1>8, <1>9, TaskNobodyEstablishes
          DEF Next, Read, ChildRuns

\* Once the reader of the backend's child has ended and said so, the backend is
\* not connected, and no connect makes it so: only one whose initialize was
\* answered before the reader ended sets the flag after it.
THEOREM EndedReaderStaysMarked == Spec => []EndedReaderMeansDisconnected
  <1>1. Init => Births /\ AnswerInv /\ NoStrayChild /\ ReadersAreBorn /\ NobodyEstablishes
    <2> SUFFICES ASSUME Init PROVE Births /\ AnswerInv /\ NoStrayChild /\ ReadersAreBorn /\ NobodyEstablishes
      OBVIOUS
    <2>1. Births
      BY InitBirths
    <2>2. AnswerInv
      BY InitAnswer
    <2>3. NoStrayChild /\ ReadersAreBorn /\ NobodyEstablishes
      BY DEF Init, NoStrayChild, ReadersAreBorn, NobodyEstablishes, Marked, Child, Nothing
    <2> QED BY <2>1, <2>2, <2>3
  <1>2. EndInv /\ [Next]_vars => EndInv'
    BY NextTypeInv, NextAnswer, NextNoStray, NextBirths, NextReaders, NextNobodyEstablishes
       DEF EndInv
  <1>3. EndInv => EndedReaderMeansDisconnected
    BY DEF EndInv, NobodyEstablishes, Marked, EndedReaderMeansDisconnected, TypeInv, TypeOK
  <1> QED BY <1>1, <1>2, <1>3, InitTypeInv, PTL DEF Spec, EndInv

-----------------------------------------------------------------------------
(* StdioBackend implements the McpBackend trait.                           *)

\* Where a task can be in each operation of its program.
StageAt(at, asks, operation) ==
    /\ at \in {"connect", "store_stdin", "store_child", "established"} => operation = "connect"
    /\ at \in {"disconnect", "drop_stdin", "kill"} => operation = "disconnect"
    /\ at = "request" => operation = "request"
    /\ at \in {"register", "lock", "write", "wait"} => operation \in {"connect", "request"}
    /\ at \in {"lock", "write"} /\ asks = Nothing => operation = "connect"

Stage(t) ==
    /\ StageAt(pc[t], req[t], Operation(t))
    /\ pc[t] = "idle" => op[t] = 1
    /\ pc[t] # "idle" => op[t] <= Len(Program[job[t]])

Stages == \A t \in Task : Stage(t)

OthersStay(t) == \A u \in Task \ {t} : pc'[u] = pc[u] /\ job'[u] = job[u] /\ op'[u] = op[u] /\ req'[u] = req[u]

Doings == [t \in Task |-> Doing(t)]
CarriedSet == {t \in Task : Carried(t)}
Keeps(t) == Doing(t)' = Doing(t) /\ (Carried(t)' <=> Carried(t))

\* What t's step is, seen from the trait.
TraitStep(t) ==
    \/ Keeps(t) /\ connected' = connected
    \/ /\ Doing(t) = "none" /\ Doing(t)' = "connect" /\ ~connected /\ connected' = connected
       /\ ~Carried(t) /\ ~Carried(t)'
    \/ /\ Doing(t) = "connect" /\ Doing(t)' = "none" /\ connected' = TRUE
       /\ ~Carried(t) /\ ~Carried(t)'
    \/ /\ Doing(t) = "none" /\ Doing(t)' = "request" /\ connected /\ connected' = connected
       /\ ~Carried(t) /\ ~Carried(t)'
    \/ /\ Doing(t) = "request" /\ Doing(t)' = "request" /\ ~Carried(t) /\ Carried(t)'
       /\ connected' = connected
    \/ /\ Doing(t) = "none" /\ Doing(t)' = "disconnect" /\ connected' = FALSE
       /\ ~Carried(t) /\ ~Carried(t)'
    \/ /\ Doing(t) # "none" /\ Doing(t)' = "none" /\ ~Carried(t)' /\ connected' = connected

LEMMA OthersDoings ==
    ASSUME NEW t \in Task, OthersStay(t)
    PROVE  /\ Doings' = [Doings EXCEPT ![t] = Doing(t)']
           /\ CarriedSet' = IF Carried(t)' THEN CarriedSet \union {t} ELSE CarriedSet \ {t}
  <1>1. \A u \in Task \ {t} : Keeps(u)
    BY DEF OthersStay, Keeps, Doing, Carried, Operation
  <1>2. Doings' = [Doings EXCEPT ![t] = Doing(t)']
    BY <1>1 DEF Doings, Keeps
  <1>3. CarriedSet' = IF Carried(t)' THEN CarriedSet \union {t} ELSE CarriedSet \ {t}
    BY <1>1 DEF CarriedSet, Keeps
  <1> QED BY <1>2, <1>3

LEMMA StepIsTraits ==
    ASSUME NEW t \in Task, OthersStay(t), TraitStep(t)
    PROVE  [Contract!Next]_(Contract!vars)
  <1> USE DEF Contract!Next, Contract!vars, Contract!Enter
  <1>a. /\ Doings' = [Doings EXCEPT ![t] = Doing(t)']
        /\ CarriedSet' = IF Carried(t)' THEN CarriedSet \union {t} ELSE CarriedSet \ {t}
    BY OthersDoings
  <1>b. Doings[t] = Doing(t) /\ (t \in CarriedSet <=> Carried(t)) /\ Doings = [Doings EXCEPT ![t] = Doing(t)]
    BY DEF Doings, CarriedSet
  <1>c. ~Carried(t) /\ ~Carried(t)' => CarriedSet' = CarriedSet
    BY <1>a, <1>b
  <1>1. CASE Keeps(t) /\ connected' = connected
    <2>1. Doings' = Doings /\ CarriedSet' = CarriedSet
      BY <1>a, <1>b, <1>1 DEF Keeps
    <2> QED BY <1>1, <2>1 DEF Doings, CarriedSet
  <1>2. CASE /\ Doing(t) = "none" /\ Doing(t)' = "connect" /\ ~connected /\ connected' = connected
             /\ ~Carried(t) /\ ~Carried(t)'
    <2>1. Contract!Connect(t)
      BY <1>a, <1>b, <1>c, <1>2 DEF Contract!Connect, Doings, CarriedSet
    <2> QED BY <2>1
  <1>3. CASE /\ Doing(t) = "connect" /\ Doing(t)' = "none" /\ connected' = TRUE
             /\ ~Carried(t) /\ ~Carried(t)'
    <2>1. Contract!Connected(t)
      BY <1>a, <1>b, <1>c, <1>3 DEF Contract!Connected, Doings, CarriedSet
    <2> QED BY <2>1
  <1>4. CASE /\ Doing(t) = "none" /\ Doing(t)' = "request" /\ connected /\ connected' = connected
             /\ ~Carried(t) /\ ~Carried(t)'
    <2>1. Contract!Request(t)
      BY <1>a, <1>b, <1>c, <1>4 DEF Contract!Request, Doings, CarriedSet
    <2> QED BY <2>1
  <1>5. CASE /\ Doing(t) = "request" /\ Doing(t)' = "request" /\ ~Carried(t) /\ Carried(t)'
             /\ connected' = connected
    <2>1. Contract!Carry(t)
      BY <1>a, <1>b, <1>5 DEF Contract!Carry, Doings, CarriedSet
    <2> QED BY <2>1
  <1>6. CASE /\ Doing(t) = "none" /\ Doing(t)' = "disconnect" /\ connected' = FALSE
             /\ ~Carried(t) /\ ~Carried(t)'
    <2>1. Contract!Disconnect(t)
      BY <1>a, <1>b, <1>c, <1>6 DEF Contract!Disconnect, Doings, CarriedSet
    <2> QED BY <2>1
  <1>7. CASE /\ Doing(t) # "none" /\ Doing(t)' = "none" /\ ~Carried(t)' /\ connected' = connected
    <2>1. Contract!Return(t)
      BY <1>a, <1>b, <1>7 DEF Contract!Return, Doings, CarriedSet
    <2> QED BY <2>1
  <1> QED BY <1>1, <1>2, <1>3, <1>4, <1>5, <1>6, <1>7 DEF TraitStep

\* A task that has ended an operation stands before the next, or is idle.
LEMMA EndStage ==
    ASSUME TypeInv, NEW t \in Task, NEW i \in Nat \ {0}, Resume(t, i)
    PROVE  /\ OthersStay(t) /\ Stage(t)' /\ Doing(t)' = "none" /\ ~Carried(t)'
  <1>1. /\ pc' = [pc EXCEPT ![t] = pc'[t]] /\ pc'[t] \in Operations \union {"idle"}
        /\ req' = [req EXCEPT ![t] = Nothing]
    BY ResumeType
  <1>2. job' = [job EXCEPT ![t] = job'[t]] /\ op' = [op EXCEPT ![t] = op'[t]]
    BY DEF Resume, TypeInv, TypeOK
  <1>3. CASE i <= Len(Program[job[t]])
    <2>1. pc'[t] = Program[job[t]][i] /\ op'[t] = i /\ job'[t] = job[t]
      BY <1>3 DEF Resume, Goto, TypeInv, TypeOK
    <2>2. pc'[t] \in Operations
      BY <1>3, <2>1, Programs DEF TypeInv, TypeOK
    <2>3. Operation(t)' = pc'[t]
      BY <2>1 DEF Operation
    <2>4. OthersStay(t)
      BY <1>1, <1>2 DEF OthersStay, TypeInv, TypeOK
    <2>5. Stage(t)'
      BY <1>3, <2>1, <2>2, <2>3 DEF Stage, StageAt, Operations
    <2> QED BY <2>2, <2>4, <2>5 DEF Doing, Carried, Operations
  <1>4. CASE ~(i <= Len(Program[job[t]]))
    <2>1. pc'[t] = "idle" /\ op'[t] = 1
      BY <1>4 DEF Resume, Goto, TypeInv, TypeOK
    <2> QED BY <1>1, <1>2, <2>1
            DEF OthersStay, Stage, StageAt, Doing, Carried, Operations, TypeInv, TypeOK
  <1> QED BY <1>3, <1>4

\* A task that moves on within its operation.
LEMMA MoveStage ==
    ASSUME TypeInv, NEW t \in Task, NEW l \in Location, Goto(t, l), UNCHANGED <<job, op>>,
           \A u \in Task \ {t} : req'[u] = req[u]
    PROVE  OthersStay(t) /\ pc'[t] = l /\ Operation(t)' = Operation(t)
  BY DEF TypeInv, TypeOK, Goto, OthersStay, Operation

LEMMA TaskStage ==
    ASSUME TypeInv, Stages, NEW t \in Task, StartJob(t) \/ Proceed(t) \/ Cancel(t)
    PROVE  OthersStay(t) /\ Stage(t)' /\ TraitStep(t)
  <1> USE DEF Location, Operations
  <1>a. Stage(t) /\ pc[t] \in Location /\ req[t] \in Id \union {Nothing}
    BY DEF Stages, TypeInv, TypeOK
  <1>b. Nothing \notin Id
    BY DEF Id, Nothing
  <1>e. ASSUME Succeed(t) \/ Fail(t)
        PROVE  OthersStay(t) /\ Stage(t)' /\ Doing(t)' = "none" /\ ~Carried(t)'
    BY <1>e, EndType, EndStage
  <1>f. ASSUME Succeed(t) \/ Fail(t), connected' = connected
        PROVE  OthersStay(t) /\ Stage(t)' /\ TraitStep(t)
    <2>1. CASE Doing(t) = "none"
      <3>1. ~Carried(t)
        BY <2>1 DEF Doing, Carried
      <3> QED BY <1>e, <1>f, <2>1, <3>1 DEF TraitStep, Keeps
    <2>2. CASE Doing(t) # "none"
      BY <1>e, <1>f, <2>2 DEF TraitStep
    <2> QED BY <2>1, <2>2
  <1>1. CASE StartJob(t)
    <2>1. PICK j \in Jobs : job' = [job EXCEPT ![t] = j] /\ Goto(t, Program[j][1])
      BY <1>1 DEF StartJob
    <2>2. j \in DOMAIN Program /\ Program[j][1] \in Operations /\ 1 <= Len(Program[j])
      <3>1. j \in DOMAIN Program
        BY ConstantsAssumption
      <3>2. 1 <= Len(Program[j])
        BY <3>1, Programs
      <3>3. Program[j][1] \in Operations
        BY <3>1, <3>2, Programs
      <3> QED BY <3>1, <3>2, <3>3
    <2>3. /\ pc[t] = "idle" /\ op' = op /\ req' = req /\ connected' = connected /\ op[t] = 1
          /\ pc' = [pc EXCEPT ![t] = Program[j][1]] /\ pc'[t] \in Operations
      BY <1>1, <1>a, <2>1, <2>2 DEF StartJob, Goto, Stage, hubVars, TypeInv, TypeOK
    <2>4. OthersStay(t) /\ Operation(t)' = pc'[t]
      BY <2>1, <2>3 DEF OthersStay, Operation, TypeInv, TypeOK
    <2>5. Stage(t)'
      <3>1. op'[t] = 1 /\ 1 <= Len(Program[job'[t]])
        BY <2>1, <2>2, <2>3 DEF TypeInv, TypeOK
      <3> QED BY <2>3, <2>4, <3>1 DEF Stage, StageAt
    <2> QED BY <2>3, <2>4, <2>5 DEF TraitStep, Keeps, Doing, Carried
  <1>2. CASE Request(t)
    <2>1. connected' = connected
      BY <1>2 DEF Request, hubVars
    <2>2. CASE ~connected
      BY <1>2, <1>f, <2>1, <2>2 DEF Request
    <2>3. CASE connected
      <3>1. pc[t] = "request" /\ Goto(t, "register") /\ UNCHANGED <<job, op, req>>
        BY <1>2, <2>3 DEF Request, taskVars
      <3>2. OthersStay(t) /\ pc'[t] = "register" /\ Operation(t)' = Operation(t)
        BY <3>1, MoveStage
      <3> QED BY <1>a, <2>1, <2>3, <3>1, <3>2 DEF Stage, StageAt, TraitStep, Doing, Carried
    <2> QED BY <2>2, <2>3
  <1>3. CASE Register(t)
    <2>1. /\ pc[t] = "register" /\ Goto(t, "lock") /\ UNCHANGED <<job, op, connected>>
          /\ req'[t] = counter + 1 /\ \A u \in Task \ {t} : req'[u] = req[u]
      BY <1>3 DEF Register, TypeInv, TypeOK
    <2>2. OthersStay(t) /\ pc'[t] = "lock" /\ Operation(t)' = Operation(t)
      BY <2>1, MoveStage
    <2>3. req'[t] # Nothing
      BY <2>1, ConstantsAssumption DEF TypeInv, TypeOK, Nothing
    <2> QED BY <1>a, <2>1, <2>2, <2>3 DEF Stage, StageAt, TraitStep, Keeps, Doing, Carried
  <1>4. CASE Lock(t)
    <2>1. connected' = connected
      BY <1>4 DEF Lock
    <2>2. CASE stdin = Nothing
      BY <1>4, <1>f, <2>1, <2>2 DEF Lock
    <2>3. CASE stdin # Nothing
      <3>1. pc[t] = "lock" /\ Goto(t, "write") /\ UNCHANGED <<job, op, req>>
        BY <1>4, <2>3 DEF Lock
      <3>2. OthersStay(t) /\ pc'[t] = "write" /\ Operation(t)' = Operation(t)
        BY <3>1, MoveStage
      <3> QED BY <1>a, <2>1, <3>1, <3>2 DEF Stage, StageAt, TraitStep, Keeps, Doing, Carried
    <2> QED BY <2>2, <2>3
  <1>5. CASE Write(t)
    <2>1. PICK l \in {"write", IF req[t] = Nothing THEN "established" ELSE "wait"} : Goto(t, l)
      BY <1>5 DEF Write
    <2>2. pc[t] = "write" /\ UNCHANGED <<job, op, req, connected>>
      BY <1>5 DEF Write
    <2>3. OthersStay(t) /\ pc'[t] = l /\ Operation(t)' = Operation(t)
      BY <2>1, <2>2, MoveStage
    <2>4. Stage(t)'
      BY <1>a, <2>1, <2>2, <2>3 DEF Stage, StageAt
    <2>5. TraitStep(t)
      <3>1. CASE l = "wait" /\ Operation(t) = "request"
        BY <2>2, <2>3, <3>1 DEF TraitStep, Doing, Carried
      <3>2. CASE ~(l = "wait" /\ Operation(t) = "request")
        BY <2>1, <2>2, <2>3, <3>2 DEF TraitStep, Keeps, Doing, Carried
      <3> QED BY <3>1, <3>2
    <2> QED BY <2>3, <2>4, <2>5
  <1>6. CASE WriteFails(t) \/ Refused(t) \/ TimedOut(t)
    BY <1>6, <1>f DEF WriteFails, Refused, TimedOut, hubVars
  <1>7. CASE Answered(t)
    <2>1. connected' = connected
      BY <1>7 DEF Answered, hubVars
    <2>2. CASE Operation(t) = "request"
      BY <1>7, <1>f, <2>1, <2>2 DEF Answered
    <2>3. CASE Operation(t) # "request"
      <3>1. /\ pc[t] = "wait" /\ Goto(t, "lock") /\ UNCHANGED <<job, op>>
            /\ \A u \in Task \ {t} : req'[u] = req[u]
        BY <1>7, <2>3 DEF Answered, TypeInv, TypeOK
      <3>2. OthersStay(t) /\ pc'[t] = "lock" /\ Operation(t)' = Operation(t)
        BY <3>1, MoveStage
      <3> QED BY <1>a, <2>1, <2>3, <3>1, <3>2 DEF Stage, StageAt, TraitStep, Keeps, Doing, Carried
    <2> QED BY <2>2, <2>3
  <1>8. CASE Connect(t)
    <2>1. connected' = connected /\ pc[t] = "connect"
      BY <1>8 DEF Connect, hubVars
    <2>2. CASE Succeed(t) \/ Fail(t)
      BY <1>f, <2>1, <2>2
    <2>3. CASE ~connected /\ Goto(t, "store_stdin") /\ UNCHANGED <<job, op, req>>
      <3>1. OthersStay(t) /\ pc'[t] = "store_stdin" /\ Operation(t)' = Operation(t)
        BY <2>3, MoveStage
      <3> QED BY <1>a, <2>1, <2>3, <3>1 DEF Stage, StageAt, TraitStep, Doing, Carried
    <2> QED BY <1>8, <2>2, <2>3 DEF Connect
  <1>9. CASE StoreStdin(t) \/ StoreChild(t) \/ DropStdin(t)
    <2>1. PICK l \in {"store_child", "register", "kill"} :
            /\ Goto(t, l) /\ UNCHANGED <<job, op, req, connected>>
            /\ pc[t] = CASE l = "store_child" -> "store_stdin" [] l = "register" -> "store_child"
                         [] OTHER -> "drop_stdin"
      BY <1>9 DEF StoreStdin, StoreChild, DropStdin, taskVars
    <2>2. OthersStay(t) /\ pc'[t] = l /\ Operation(t)' = Operation(t)
      BY <2>1, MoveStage
    <2> QED BY <1>a, <2>1, <2>2 DEF Stage, StageAt, TraitStep, Keeps, Doing, Carried
  <1>10. CASE Established(t)
    <2>1. pc[t] = "established" /\ connected' = TRUE /\ Succeed(t)
      BY <1>10 DEF Established
    <2>2. Doing(t) = "connect" /\ ~Carried(t)
      BY <1>a, <2>1 DEF Stage, StageAt, Doing, Carried
    <2> QED BY <1>e, <2>1, <2>2 DEF TraitStep
  <1>11. CASE Disconnect(t)
    <2>1. pc[t] = "disconnect" /\ connected' = FALSE /\ Goto(t, "drop_stdin") /\ UNCHANGED <<job, op, req>>
      BY <1>11 DEF Disconnect, taskVars
    <2>2. OthersStay(t) /\ pc'[t] = "drop_stdin" /\ Operation(t)' = Operation(t)
      BY <2>1, MoveStage
    <2> QED BY <1>a, <2>1, <2>2 DEF Stage, StageAt, TraitStep, Doing, Carried
  <1>12. CASE Kill(t)
    BY <1>12, <1>f DEF Kill
  <1>13. CASE Cancel(t)
    <2>1. connected' = connected /\ Resume(t, Len(Program[job[t]]) + 1)
      BY <1>13 DEF Cancel
    <2>2. Len(Program[job[t]]) + 1 \in Nat \ {0}
      BY Programs DEF TypeInv, TypeOK
    <2>3. OthersStay(t) /\ Stage(t)' /\ Doing(t)' = "none" /\ ~Carried(t)'
      BY <2>1, <2>2, EndStage
    <2>4. CASE Doing(t) = "none"
      BY <2>1, <2>3, <2>4 DEF TraitStep, Keeps, Doing, Carried
    <2>5. CASE Doing(t) # "none"
      BY <2>1, <2>3, <2>5 DEF TraitStep
    <2> QED BY <2>3, <2>4, <2>5
  <1> QED BY <1>1, <1>2, <1>3, <1>4, <1>5, <1>6, <1>7, <1>8, <1>9, <1>10, <1>11, <1>12, <1>13 DEF Proceed

LEMMA InitStages == Init => Stages
  BY DEF Init, Stages, Stage, StageAt

\* The reader tasks and the children leave every task where it is.
LEMMA ElsewhereStays ==
    ASSUME NEW g \in Child, Read(g) \/ ChildRuns(g)
    PROVE  /\ UNCHANGED <<pc, job, op, req>>
           /\ connected' = connected \/ connected' = FALSE
  BY DEF Read, ChildRuns, ReadAnswer, ReadEnds, MarkDisconnected, DrainPending, ChildReads, ChildAnswers,
         ChildExits, ChildHangs, hubVars, taskVars

LEMMA NextStages == TypeInv /\ Stages /\ [Next]_vars => Stages'
  <1> SUFFICES ASSUME TypeInv, Stages, [Next]_vars PROVE Stages'
    OBVIOUS
  <1>1. ASSUME NEW t \in Task, StartJob(t) \/ Proceed(t) \/ Cancel(t) PROVE Stages'
    <2>1. OthersStay(t) /\ Stage(t)'
      BY <1>1, TaskStage
    <2> QED BY <2>1 DEF OthersStay, Stages, Stage, Operation
  <1>2. ASSUME UNCHANGED <<pc, job, op, req>> PROVE Stages'
    BY <1>2 DEF Stages, Stage, Operation
  <1> QED BY <1>1, <1>2, ElsewhereStays DEF Next, vars

(* Whatever the interleaving of the tasks, the readers and the children, and *)
(* whichever calls are cancelled, StdioBackend keeps the trait's word: no     *)
(* request starts on a backend that is not connected, none is written twice,  *)
(* and only a connect whose handshake is done sets the flag.                  *)
THEOREM Implements == Spec => ImplementsBackend
  <1>1. Init => Contract!Init
    <2> SUFFICES ASSUME Init PROVE Contract!Init
      OBVIOUS
    <2>1. \A t \in Task : Doing(t) = "none" /\ ~Carried(t)
      BY DEF Init, Doing, Carried
    <2> QED BY <2>1 DEF Init, Contract!Init
  <1>2. TypeInv /\ Stages /\ [Next]_vars => [Contract!Next]_(Contract!vars)
    <2> SUFFICES ASSUME TypeInv, Stages, [Next]_vars PROVE [Contract!Next]_(Contract!vars)
      OBVIOUS
    <2>1. ASSUME NEW t \in Task, StartJob(t) \/ Proceed(t) \/ Cancel(t)
          PROVE  [Contract!Next]_(Contract!vars)
      BY <2>1, TaskStage, StepIsTraits
    <2>2. ASSUME UNCHANGED <<pc, job, op, req>>, connected' = connected \/ connected' = FALSE
          PROVE  [Contract!Next]_(Contract!vars)
      BY <2>2 DEF Contract!Next, Contract!Lose, Contract!vars, Doing, Carried, Operation
    <2> QED BY <2>1, <2>2, ElsewhereStays DEF Next, vars
  <1>3. Init => TypeInv /\ Stages
    BY InitTypeInv, InitStages
  <1>4. TypeInv /\ Stages /\ [Next]_vars => TypeInv' /\ Stages'
    BY NextTypeInv, NextStages
  <1> QED BY <1>1, <1>2, <1>3, <1>4, PTL DEF Spec, ImplementsBackend, Contract!Spec

-----------------------------------------------------------------------------
(* A job takes a bounded number of steps, and no lock is held for ever but   *)
(* by a task whose child hangs.                                              *)

\* Steps left of the operation a task is in, at most: connect sends a request and
\* a notification, a request one line, of two pieces each.
OperationLeft(t) ==
    CASE pc[t] = "connect" -> 12
      [] pc[t] = "store_stdin" -> 11
      [] pc[t] = "store_child" -> 10
      [] pc[t] = "request" -> 10
      [] pc[t] = "register" -> 9
      [] pc[t] = "lock" -> IF req[t] = Nothing THEN 4 ELSE 8
      [] pc[t] = "write" -> left[t] + (IF req[t] = Nothing THEN 1 ELSE 5)
      [] pc[t] = "wait" -> 5
      [] pc[t] = "disconnect" -> 3
      [] pc[t] = "drop_stdin" -> 2
      [] OTHER -> 1

StepsLeft(t) ==
    IF pc[t] = "idle" THEN 0
    ELSE OperationLeft(t) + 13 * (Len(Program[job[t]]) - op[t])

\* Every step of a job uses up some of what is left of it, and nobody else's
\* adds to it.
WorkShrinks ==
    [][\A t \in Task :
          /\ Proceed(t) \/ Cancel(t) => StepsLeft(t)' < StepsLeft(t)
          /\ pc[t] # "idle" => StepsLeft(t)' <= StepsLeft(t)]_vars

\* Whoever waits for the locks waits for a task that writes, and that writes on,
\* gives up, or writes to a child that still reads, but for a child that hangs.
LocksComeFree ==
    \A t \in Task : pc[t] \in {"lock", "store_stdin", "drop_stdin"} /\ writer # NoTask =>
        /\ writer \in Task \ {t}
        /\ pc[writer] = "write" /\ left[writer] \in 1 .. 2
        /\ LET g == to[writer] IN
           \/ state[g] = "dead"
           \/ Len(pipe[g]) < Room
           \/ state[g] = "running" /\ pipe[g] # <<>>
           \/ Stuck

LEMMA Measure ==
    ASSUME NEW n \in 1 .. 3, NEW o \in 1 .. 3, NEW w \in 1 .. 12, o <= n
    PROVE  /\ w + 13 * (n - o) \in 1 .. 38
           /\ \A p \in o + 1 .. n, v \in 1 .. 12 : v + 13 * (n - p) < w + 13 * (n - o)
           /\ \A v \in 1 .. 12 : v < w => v + 13 * (n - o) < w + 13 * (n - o)
  OBVIOUS

\* Program[job[t]] is at most three operations long, and t is in one of them.
LEMMA Counted ==
    ASSUME TypeInv, Stages, NEW t \in Task
    PROVE  /\ Len(Program[job[t]]) \in 1 .. 3 /\ op[t] \in 1 .. 3
           /\ pc[t] # "idle" => op[t] <= Len(Program[job[t]])
           /\ OperationLeft(t) \in 1 .. 12 /\ StepsLeft(t) \in 0 .. 38
  <1>1. Len(Program[job[t]]) \in 1 .. 3 /\ op[t] \in 1 .. 3 /\ left[t] \in 0 .. 2
    BY Programs DEF TypeInv, TypeOK, LineLength
  <1>2. pc[t] # "idle" => op[t] <= Len(Program[job[t]])
    BY DEF Stages, Stage
  <1>3. OperationLeft(t) \in 1 .. 12
    BY <1>1 DEF OperationLeft
  <1>4. pc[t] # "idle" => OperationLeft(t) + 13 * (Len(Program[job[t]]) - op[t]) \in 1 .. 38
    BY <1>1, <1>2, <1>3, Measure
  <1>5. StepsLeft(t) \in 0 .. 38
    <2>1. CASE pc[t] = "idle"
      BY <2>1 DEF StepsLeft
    <2>2. CASE pc[t] # "idle"
      <3>1. StepsLeft(t) = OperationLeft(t) + 13 * (Len(Program[job[t]]) - op[t])
        BY <2>2 DEF StepsLeft
      <3>2. StepsLeft(t) \in 1 .. 38
        BY <1>4, <2>2, <3>1
      <3> QED BY <3>2
    <2> QED BY <2>1, <2>2
  <1> QED BY <1>1, <1>2, <1>3, <1>5

LEMMA EndWork ==
    ASSUME TypeInv, Stages, NEW t \in Task, pc[t] # "idle", NEW i \in Nat \ {0}, Resume(t, i), op[t] < i
    PROVE  StepsLeft(t)' < StepsLeft(t)
  <1>1. /\ Len(Program[job[t]]) \in 1 .. 3 /\ op[t] \in 1 .. 3
        /\ op[t] <= Len(Program[job[t]]) /\ OperationLeft(t) \in 1 .. 12
    BY Counted
  <1>2. CASE i <= Len(Program[job[t]])
    <2>1. pc'[t] = Program[job[t]][i] /\ op'[t] = i /\ job'[t] = job[t]
      BY <1>2 DEF Resume, Goto, TypeInv, TypeOK
    <2>2. pc'[t] \in Operations
      BY <1>2, <2>1, Programs DEF TypeInv, TypeOK
    <2>3. OperationLeft(t)' \in 1 .. 12
      BY <2>2 DEF OperationLeft, Operations
    <2>4. i \in op[t] + 1 .. Len(Program[job[t]])
      BY <1>1, <1>2
    <2>5. /\ StepsLeft(t) = OperationLeft(t) + 13 * (Len(Program[job[t]]) - op[t])
          /\ StepsLeft(t)' = OperationLeft(t)' + 13 * (Len(Program[job[t]]) - i)
      BY <2>1, <2>2 DEF StepsLeft, Operations
    <2> QED BY <1>1, <2>3, <2>4, <2>5, Measure
  <1>3. CASE ~(i <= Len(Program[job[t]]))
    <2>1. pc'[t] = "idle"
      BY <1>3 DEF Resume, Goto, TypeInv, TypeOK
    <2>2. OperationLeft(t) + 13 * (Len(Program[job[t]]) - op[t]) \in 1 .. 38
      BY <1>1, Measure
    <2>3. StepsLeft(t) = OperationLeft(t) + 13 * (Len(Program[job[t]]) - op[t])
      BY DEF StepsLeft
    <2>4. StepsLeft(t)' = 0
      BY <2>1 DEF StepsLeft
    <2>5. StepsLeft(t) \in 1 .. 38
      BY <2>2, <2>3
    <2> QED BY <2>4, <2>5
  <1> QED BY <1>2, <1>3

LEMMA Below ==
    ASSUME NEW v \in Nat \ {0}, NEW w \in 1 .. 12, v < w
    PROVE  v \in 1 .. 12
  OBVIOUS

LEMMA MoveWork ==
    ASSUME TypeInv, Stages, NEW t \in Task, pc[t] # "idle", pc'[t] # "idle",
           job'[t] = job[t], op'[t] = op[t],
           OperationLeft(t)' \in Nat \ {0}, OperationLeft(t)' < OperationLeft(t)
    PROVE  StepsLeft(t)' < StepsLeft(t)
  <1>1. /\ Len(Program[job[t]]) \in 1 .. 3 /\ op[t] \in 1 .. 3 /\ OperationLeft(t) \in 1 .. 12
        /\ op[t] <= Len(Program[job[t]])
    BY Counted
  <1>2. OperationLeft(t)' \in 1 .. 12
    BY <1>1, Below
  <1>3. /\ StepsLeft(t) = OperationLeft(t) + 13 * (Len(Program[job[t]]) - op[t])
        /\ StepsLeft(t)' = OperationLeft(t)' + 13 * (Len(Program[job[t]]) - op[t])
    BY DEF StepsLeft
  <1> QED BY <1>1, <1>2, <1>3, Measure

LEMMA WorkIsDone ==
    ASSUME TypeInv, Stages, NEW t \in Task, Proceed(t) \/ Cancel(t)
    PROVE  StepsLeft(t)' < StepsLeft(t)
  <1> USE DEF OperationLeft
  <1>a. /\ Len(Program[job[t]]) \in 1 .. 3 /\ op[t] \in 1 .. 3
        /\ pc[t] # "idle" => op[t] <= Len(Program[job[t]])
        /\ left[t] \in 0 .. 2 /\ req[t] \in Id \union {Nothing}
    BY Counted DEF TypeInv, TypeOK, LineLength
  <1>t. TypeInv /\ TypeOK
    BY DEF TypeInv
  <1>e. ASSUME Succeed(t) \/ Fail(t), pc[t] # "idle" PROVE StepsLeft(t)' < StepsLeft(t)
    <2>1. PICK i \in Nat \ {0} : Resume(t, i) /\ op[t] < i
      <3>1. op[t] + 1 \in Nat \ {0} /\ Len(Program[job[t]]) + 1 \in Nat \ {0} /\ op[t] < op[t] + 1
            /\ op[t] < Len(Program[job[t]]) + 1
        BY <1>a, <1>e
      <3>2. Resume(t, op[t] + 1) \/ Resume(t, Len(Program[job[t]]) + 1)
        BY <1>e DEF Succeed, Fail
      <3> QED BY <3>1, <3>2
    <2> QED BY <1>e, <2>1, EndWork
  <1>m. ASSUME NEW l \in Location \ {"idle"}, Goto(t, l), UNCHANGED <<job, op>>, pc[t] # "idle",
               OperationLeft(t)' \in Nat \ {0}, OperationLeft(t)' < OperationLeft(t)
        PROVE  StepsLeft(t)' < StepsLeft(t)
    <2>1. pc'[t] = l
      BY <1>m, <1>t DEF Goto, TypeOK
    <2> QED BY <1>m, <2>1, MoveWork
  <1>1. CASE Request(t)
    <2>1. CASE connected
      <3>1. pc[t] = "request" /\ Goto(t, "register") /\ UNCHANGED <<job, op>>
        BY <1>1, <2>1 DEF Request, taskVars
      <3>2. OperationLeft(t)' = 9 /\ OperationLeft(t) = 10
        BY <3>1, <1>t DEF Goto, TypeOK
      <3> QED BY <3>1, <3>2, <1>m DEF Location
    <2>2. CASE ~connected
      BY <1>1, <2>2, <1>e DEF Request
    <2> QED BY <2>1, <2>2
  <1>2. CASE Register(t)
    <2>1. pc[t] = "register" /\ Goto(t, "lock") /\ UNCHANGED <<job, op>>
      BY <1>2 DEF Register
    <2>2. OperationLeft(t)' \in {4, 8} /\ OperationLeft(t) = 9
      BY <2>1, <1>t DEF Goto, TypeOK
    <2> QED BY <2>1, <2>2, <1>m DEF Location
  <1>3. CASE Lock(t)
    <2>1. CASE stdin = Nothing
      BY <1>3, <2>1, <1>e DEF Lock
    <2>2. CASE stdin # Nothing
      <3>1. pc[t] = "lock" /\ Goto(t, "write") /\ UNCHANGED <<job, op, req, left>>
        BY <1>3, <2>2 DEF Lock
      <3>2. pc'[t] = "write" /\ req'[t] = req[t] /\ left'[t] = left[t]
        BY <3>1, <1>t DEF Goto, TypeOK
      <3>3. OperationLeft(t)' = left[t] + (IF req[t] = Nothing THEN 1 ELSE 5)
        BY <3>2
      <3>4. OperationLeft(t) = IF req[t] = Nothing THEN 4 ELSE 8
        BY <3>1
      <3> QED BY <3>1, <3>3, <3>4, <1>a, <1>m DEF Location
    <2> QED BY <2>1, <2>2
  <1>4. CASE Write(t)
    <2> DEFINE room == Room - Len(pipe[to[t]])
               n == IF room < left[t] THEN room ELSE left[t]
               l == IF n # left[t] THEN "write" ELSE IF req[t] = Nothing THEN "established" ELSE "wait"
    <2>1. /\ pc[t] = "write" /\ n > 0 /\ left' = [left EXCEPT ![t] = left[t] - n] /\ Goto(t, l)
          /\ UNCHANGED <<job, op, req>>
      BY <1>4 DEF Write
    <2>2. to[t] \in Child /\ room \in Int
      <3>1. to[t] \in Child
        BY <2>1 DEF TypeInv, Writers
      <3>2. Len(pipe[to[t]]) \in Nat
        BY <3>1, <1>t, LenProperties DEF TypeOK
      <3> QED BY <3>1, <3>2, ConstantsAssumption
    <2>3. n \in 1 .. left[t]
      BY <2>1, <2>2, <1>a
    <2> HIDE DEF n
    <2>4. pc'[t] = l /\ req'[t] = req[t] /\ left'[t] = left[t] - n
      BY <2>1, <1>t DEF Goto, TypeOK
    <2>5. OperationLeft(t) = left[t] + (IF req[t] = Nothing THEN 1 ELSE 5)
      BY <2>1
    <2>6. OperationLeft(t)' \in Nat \ {0} /\ OperationLeft(t)' < OperationLeft(t)
      <3>1. CASE n # left[t]
        <4>1. OperationLeft(t)' = (left[t] - n) + (IF req[t] = Nothing THEN 1 ELSE 5)
          BY <2>4, <3>1
        <4>2. left[t] - n \in 1 .. 2 /\ left[t] - n < left[t]
          BY <1>a, <2>3, <3>1
        <4> HIDE DEF OperationLeft
        <4>3. CASE req[t] = Nothing
          BY <1>a, <2>5, <4>1, <4>2, <4>3
        <4>4. CASE req[t] # Nothing
          BY <1>a, <2>5, <4>1, <4>2, <4>4
        <4> QED BY <4>3, <4>4
      <3>2. CASE n = left[t]
        <4>1. OperationLeft(t)' = IF req[t] = Nothing THEN 1 ELSE 5
          BY <2>4, <3>2
        <4> QED BY <1>a, <2>3, <2>5, <4>1
      <3> QED BY <3>1, <3>2
    <2> QED BY <2>1, <2>6, <1>m DEF Location
  <1>5. CASE WriteFails(t) \/ Refused(t) \/ TimedOut(t) \/ Established(t) \/ Kill(t)
    BY <1>5, <1>e DEF WriteFails, Refused, TimedOut, Established, Kill
  <1>6. CASE Answered(t)
    <2>1. CASE Operation(t) = "request"
      BY <1>6, <1>e, <2>1 DEF Answered
    <2>2. CASE Operation(t) # "request"
      <3>1. /\ pc[t] = "wait" /\ Goto(t, "lock") /\ UNCHANGED <<job, op>>
            /\ req'[t] = Nothing
        BY <1>6, <2>2, <1>t DEF Answered, TypeOK
      <3>2. OperationLeft(t)' = 4 /\ OperationLeft(t) = 5
        BY <3>1, <1>t DEF Goto, TypeOK
      <3> QED BY <3>1, <3>2, <1>m DEF Location
    <2> QED BY <2>1, <2>2
  <1>7. CASE Connect(t)
    <2>1. pc[t] = "connect"
      BY <1>7 DEF Connect
    <2>2. CASE Succeed(t) \/ Fail(t)
      BY <1>e, <2>1, <2>2
    <2>3. CASE Goto(t, "store_stdin") /\ UNCHANGED <<job, op>>
      <3>1. OperationLeft(t)' = 11 /\ OperationLeft(t) = 12
        BY <2>1, <2>3, <1>t DEF Goto, TypeOK
      <3> QED BY <2>1, <2>3, <3>1, <1>m DEF Location
    <2> QED BY <1>7, <2>2, <2>3 DEF Connect
  <1>8. CASE StoreStdin(t) \/ StoreChild(t) \/ Disconnect(t) \/ DropStdin(t)
    <2>1. PICK l \in {"store_child", "register", "drop_stdin", "kill"} :
            /\ Goto(t, l) /\ UNCHANGED <<job, op>>
            /\ pc[t] = CASE l = "store_child" -> "store_stdin" [] l = "register" -> "store_child"
                         [] l = "drop_stdin" -> "disconnect" [] OTHER -> "drop_stdin"
      BY <1>8 DEF StoreStdin, StoreChild, Disconnect, DropStdin, taskVars
    <2>2. pc'[t] = l
      BY <2>1, <1>t DEF Goto, TypeOK
    <2>3. OperationLeft(t)' \in Nat \ {0} /\ OperationLeft(t)' < OperationLeft(t)
      BY <2>1, <2>2
    <2> QED BY <2>1, <2>3, <1>m DEF Location
  <1>9. CASE Cancel(t)
    <2>1. pc[t] # "idle" /\ Resume(t, Len(Program[job[t]]) + 1)
      BY <1>9 DEF Cancel
    <2>2. Len(Program[job[t]]) + 1 \in Nat \ {0} /\ op[t] < Len(Program[job[t]]) + 1
      BY <1>a, <2>1
    <2> QED BY <2>1, <2>2, EndWork
  <1> QED BY <1>1, <1>2, <1>3, <1>4, <1>5, <1>6, <1>7, <1>8, <1>9 DEF Proceed

\* Nobody else touches what t has left to do.
LEMMA OthersWork ==
    ASSUME TypeInv, Stages, NEW u \in Task, NEW t \in Task \ {u}, StartJob(u) \/ Proceed(u) \/ Cancel(u)
    PROVE  StepsLeft(t)' = StepsLeft(t)
  <1>1. pc'[t] = pc[t] /\ job'[t] = job[t] /\ op'[t] = op[t] /\ req'[t] = req[t]
    BY TaskStage DEF OthersStay
  <1>2. left'[t] = left[t]
    <2>1. ASSUME NEW i \in Nat \ {0}, Resume(u, i) PROVE left'[t] = left[t]
      BY <2>1 DEF Resume, TypeInv, TypeOK
    <2>2. CASE StartJob(u) \/ Connect(u) \/ StoreStdin(u) \/ StoreChild(u) \/ Disconnect(u) \/ DropStdin(u)
               \/ Established(u) \/ Kill(u)
      BY <2>1, <2>2, EndType DEF StartJob, Connect, StoreStdin, StoreChild, Disconnect, DropStdin, Established,
            Kill, taskVars
    <2>3. CASE Request(u) \/ Register(u) \/ Lock(u) \/ Write(u)
      BY <2>1, <2>3, EndType DEF Request, Register, Lock, Write, taskVars, TypeInv, TypeOK
    <2>4. CASE WriteFails(u) \/ Answered(u) \/ Refused(u) \/ TimedOut(u)
      BY <2>1, <2>4, EndType DEF WriteFails, Answered, Refused, TimedOut, TypeInv, TypeOK
    <2>5. CASE Cancel(u)
      <3>1. Len(Program[job[u]]) + 1 \in Nat \ {0}
        BY Counted
      <3> QED BY <2>1, <2>5, <3>1 DEF Cancel
    <2> QED BY <2>2, <2>3, <2>4, <2>5 DEF Proceed
  <1> QED BY <1>1, <1>2 DEF StepsLeft, OperationLeft

(* However the children behave and however the tasks, readers and             *)
(* cancellations interleave, every step of a job shrinks what is left of it,  *)
(* from 38 steps at most (Counted), and nobody adds to it: no write is tried  *)
(* again, no answer is waited for twice, no connect starts over.              *)
THEOREM JobsAreBounded == Spec => WorkShrinks
  <1>1. TypeInv /\ Stages /\ [Next]_vars =>
          [\A t \in Task :
              /\ Proceed(t) \/ Cancel(t) => StepsLeft(t)' < StepsLeft(t)
              /\ pc[t] # "idle" => StepsLeft(t)' <= StepsLeft(t)]_vars
    <2> SUFFICES ASSUME TypeInv, Stages, Next, NEW t \in Task
                 PROVE  /\ Proceed(t) \/ Cancel(t) => StepsLeft(t)' < StepsLeft(t)
                        /\ pc[t] # "idle" => StepsLeft(t)' <= StepsLeft(t)
      OBVIOUS
    <2>1. Proceed(t) \/ Cancel(t) => StepsLeft(t)' < StepsLeft(t)
      BY WorkIsDone
    <2>2. ASSUME pc[t] # "idle" PROVE StepsLeft(t)' <= StepsLeft(t)
      <3>1. StepsLeft(t) \in Nat
        <4>1. StepsLeft(t) \in 0 .. 38
          BY Counted
        <4> QED BY <4>1
      <3>2. StepsLeft(t)' \in Nat
        <4>1. TypeInv' /\ Stages'
          BY NextTypeInv, NextStages
        <4>2. Len(Program[job'[t]]) \in 1 .. 3 /\ op'[t] \in 1 .. 3 /\ left'[t] \in 0 .. 2
          BY <4>1, Programs DEF TypeInv, TypeOK, LineLength
        <4>3. pc'[t] # "idle" => op'[t] <= Len(Program[job'[t]])
          BY <4>1 DEF Stages, Stage
        <4>4. OperationLeft(t)' \in 1 .. 12
          BY <4>2 DEF OperationLeft
        <4>5. pc'[t] # "idle" => OperationLeft(t)' + 13 * (Len(Program[job'[t]]) - op'[t]) \in 1 .. 38
          BY <4>2, <4>3, <4>4, Measure
        <4>6. CASE pc'[t] = "idle"
          <5>1. StepsLeft(t)' = 0
            BY <4>6 DEF StepsLeft
          <5> QED BY <5>1
        <4>7. CASE pc'[t] # "idle"
          <5>1. StepsLeft(t)' = OperationLeft(t)' + 13 * (Len(Program[job'[t]]) - op'[t])
            BY <4>7 DEF StepsLeft
          <5>2. StepsLeft(t)' \in 1 .. 38
            BY <4>5, <4>7, <5>1
          <5> QED BY <5>2
        <4> QED BY <4>6, <4>7
      <3>3. CASE Proceed(t) \/ Cancel(t)
        BY <2>1, <3>1, <3>2, <3>3
      <3>4. CASE \E u \in Task \ {t} : StartJob(u) \/ Proceed(u) \/ Cancel(u)
        BY <3>1, <3>4, OthersWork
      <3>5. CASE \E g \in Child : Read(g) \/ ChildRuns(g)
        <4>1. UNCHANGED <<pc, job, op, req, left>>
          BY <3>5 DEF Read, ChildRuns, ReadAnswer, ReadEnds, MarkDisconnected, DrainPending, ChildReads,
                ChildAnswers, ChildExits, ChildHangs, hubVars, taskVars
        <4>2. StepsLeft(t)' = StepsLeft(t)
          BY <4>1 DEF StepsLeft, OperationLeft
        <4> QED BY <3>1, <4>2
      <3>6. ~StartJob(t)
        BY <2>2 DEF StartJob
      <3> QED BY <3>3, <3>4, <3>5, <3>6 DEF Next
    <2> QED BY <2>1, <2>2
  <1>2. Init => TypeInv /\ Stages
    BY InitTypeInv, InitStages
  <1>3. TypeInv /\ Stages /\ [Next]_vars => TypeInv' /\ Stages'
    BY NextTypeInv, NextStages
  <1> QED BY <1>1, <1>2, <1>3, PTL DEF Spec, WorkShrinks

-----------------------------------------------------------------------------
(* Whoever waits for the locks waits for somebody who gets rid of them.       *)

\* A pipe that somebody can write to is that of a child that has been spawned.
PipesAreBorn ==
    /\ stdin # Nothing => state[stdin] # "unborn"
    /\ \A t \in Task : to[t] # Nothing => state[to[t]] # "unborn"

LEMMA InitPipes == Init => PipesAreBorn
  BY DEF Init, PipesAreBorn

\* A child is spawned once and for all.
LEMMA BornStay ==
    ASSUME TypeInv, Births, [Next]_vars, NEW g \in Child, state[g] # "unborn"
    PROVE  state'[g] # "unborn"
  <1>0. /\ state \in [Child -> {"unborn", "running", "hung", "dead"}]
        /\ child \in Child \union {Nothing} /\ mine \in [Task -> Child \union {Nothing}]
    BY DEF TypeInv, TypeOK
  <1>1. ASSUME NEW h, Killed(h) PROVE state'[g] # "unborn"
    BY <1>0, <1>1 DEF Killed
  <1>2. ASSUME NEW t \in Task, StartJob(t) \/ Proceed(t) \/ Cancel(t) PROVE state'[g] # "unborn"
    <2>1. CASE Connect(t)
      BY <1>0, <2>1 DEF Connect
    <2>2. CASE StoreChild(t) \/ Kill(t) \/ Cancel(t)
      BY <1>1, <2>2 DEF StoreChild, Kill, Cancel
    <2>3. CASE StartJob(t) \/ Request(t) \/ Register(t) \/ Lock(t) \/ Write(t) \/ WriteFails(t)
               \/ Answered(t) \/ Refused(t) \/ TimedOut(t) \/ StoreStdin(t) \/ Established(t)
               \/ Disconnect(t) \/ DropStdin(t)
      BY <2>3 DEF StartJob, Request, Register, Lock, Write, WriteFails, Answered, Refused, TimedOut,
            StoreStdin, Established, Disconnect, DropStdin, childVars
    <2> QED BY <1>2, <2>1, <2>2, <2>3 DEF Proceed
  <1>3. ASSUME NEW h \in Child, Read(h) \/ ChildRuns(h) PROVE state'[g] # "unborn"
    <2>1. CASE ChildExits(h)
      BY <1>1, <2>1 DEF ChildExits
    <2>2. CASE Read(h) \/ ChildReads(h) \/ ChildAnswers(h) \/ ChildHangs(h)
      BY <1>0, <2>2 DEF Read, ReadAnswer, ReadEnds, MarkDisconnected, DrainPending, ChildReads,
            ChildAnswers, ChildHangs, childVars
    <2> QED BY <1>3, <2>1, <2>2 DEF ChildRuns
  <1>4. CASE UNCHANGED vars
    BY <1>4 DEF vars, childVars
  <1> QED BY <1>2, <1>3, <1>4 DEF Next

\* The slot gets a child that connect holds, a writer the child of the slot.
LEMMA NextPipes == TypeInv /\ Births /\ PipesAreBorn /\ [Next]_vars => PipesAreBorn'
  <1> SUFFICES ASSUME TypeInv, Births, PipesAreBorn, [Next]_vars PROVE PipesAreBorn'
    OBVIOUS
  <1>0. /\ to \in [Task -> Child \union {Nothing}] /\ stdin \in Child \union {Nothing}
        /\ mine \in [Task -> Child \union {Nothing}]
    BY DEF TypeInv, TypeOK
  <1>1. ASSUME stdin' \in {stdin, Nothing} \union {mine[t] : t \in Task},
               \A t \in Task : to'[t] \in {to[t], Nothing, stdin}
        PROVE  PipesAreBorn'
    <2>1. \A g \in Child : state[g] # "unborn" => state'[g] # "unborn"
      BY BornStay
    <2>2. \A t \in Task : mine[t] # Nothing => mine[t] \in Child /\ state[mine[t]] # "unborn"
      BY <1>0 DEF Births
    <2>3. stdin' # Nothing => state'[stdin'] # "unborn"
      BY <1>0, <1>1, <2>1, <2>2 DEF PipesAreBorn
    <2>4. ASSUME NEW t \in Task, to'[t] # Nothing PROVE state'[to'[t]] # "unborn"
      BY <1>0, <1>1, <2>1, <2>4 DEF PipesAreBorn
    <2> QED BY <2>3, <2>4 DEF PipesAreBorn
  <1>2. ASSUME NEW t \in Task, NEW i, Resume(t, i)
        PROVE  \A u \in Task : to'[u] \in {to[u], Nothing, stdin}
    BY <1>0, <1>2 DEF Resume
  <1>3. ASSUME NEW t \in Task, StartJob(t) \/ Proceed(t) \/ Cancel(t)
        PROVE  /\ stdin' \in {stdin, Nothing} \union {mine[u] : u \in Task}
               /\ \A u \in Task : to'[u] \in {to[u], Nothing, stdin}
    <2>1. stdin' \in {stdin, Nothing} \union {mine[u] : u \in Task}
      <3>1. CASE StoreStdin(t) \/ DropStdin(t)
        BY <3>1 DEF StoreStdin, DropStdin
      <3>2. CASE ~(StoreStdin(t) \/ DropStdin(t))
        BY <1>3, <3>2 DEF StartJob, Proceed, Cancel, Request, Register, Lock, Write, WriteFails, Answered,
              Refused, TimedOut, Connect, StoreChild, Established, Disconnect, Kill, hubVars
      <3> QED BY <3>1, <3>2
    <2>2. ASSUME NEW u \in Task PROVE to'[u] \in {to[u], Nothing, stdin}
      <3>1. CASE Succeed(t) \/ Fail(t)
        BY <1>2, <3>1 DEF Succeed, Fail
      <3>2. CASE Cancel(t)
        BY <1>2, <3>2 DEF Cancel
      <3>3. CASE UNCHANGED to
        BY <3>3
      <3>4. CASE Lock(t)
        BY <1>0, <3>1, <3>4 DEF Lock
      <3>5. Succeed(t) \/ Fail(t) \/ Cancel(t) \/ UNCHANGED to \/ Lock(t)
        <4>1. CASE StartJob(t) \/ Connect(t) \/ StoreStdin(t) \/ StoreChild(t) \/ Established(t)
                   \/ Disconnect(t) \/ DropStdin(t) \/ Kill(t)
          BY <4>1 DEF StartJob, Connect, StoreStdin, StoreChild, Established, Disconnect, DropStdin, Kill,
                taskVars, Succeed, Fail
        <4>2. CASE Request(t) \/ Register(t) \/ Write(t) \/ WriteFails(t) \/ Answered(t) \/ Refused(t)
                   \/ TimedOut(t)
          BY <4>2 DEF Request, Register, Write, WriteFails, Answered, Refused, TimedOut, taskVars
        <4> QED BY <1>3, <4>1, <4>2 DEF Proceed
      <3> QED BY <3>1, <3>2, <3>3, <3>4, <3>5
    <2> QED BY <2>1, <2>2
  <1>4. ASSUME NEW g \in Child, Read(g) \/ ChildRuns(g)
        PROVE  UNCHANGED <<stdin, to>>
    BY <1>4 DEF Read, ReadAnswer, ReadEnds, MarkDisconnected, DrainPending, ChildRuns, ChildReads,
          ChildAnswers, ChildExits, ChildHangs, hubVars, taskVars
  <1>5. CASE UNCHANGED vars
    BY <1>1, <1>5 DEF vars
  <1>6. CASE \E t \in Task : StartJob(t) \/ Proceed(t) \/ Cancel(t)
    BY <1>1, <1>3, <1>6
  <1>7. CASE \E g \in Child : Read(g) \/ ChildRuns(g)
    BY <1>1, <1>4, <1>7
  <1> QED BY <1>5, <1>6, <1>7 DEF Next

(* No task waits for the locks in vain: whoever has them is another one,      *)
(* which still has a piece of its line to write, and the child either makes   *)
(* room for it or is gone, so that it can give up.  Only a child that hangs   *)
(* with a full pipe holds everybody up.                                       *)
THEOREM LocksAreReleased == Spec => []LocksComeFree
  <1>1. TypeInv /\ LinesInv /\ PipesAreBorn => LocksComeFree
    <2> SUFFICES ASSUME TypeInv, LinesInv, PipesAreBorn,
                        NEW t \in Task, pc[t] \in {"lock", "store_stdin", "drop_stdin"}, writer # NoTask
                 PROVE  /\ writer \in Task \ {t}
                        /\ pc[writer] = "write" /\ left[writer] \in 1 .. 2
                        /\ \/ state[to[writer]] = "dead"
                           \/ Len(pipe[to[writer]]) < Room
                           \/ state[to[writer]] = "running" /\ pipe[to[writer]] # <<>>
                           \/ Stuck
      BY DEF LocksComeFree
    <2>1. writer \in Task
      BY DEF TypeInv, TypeOK
    <2>2. pc[writer] = "write" /\ to[writer] \in Child
      BY <2>1 DEF TypeInv, Writers
    <2>3. left[writer] \in 1 .. 2
      BY <2>1, <2>2 DEF LinesInv, WritersInTurn
    <2> DEFINE g == to[writer]
    <2>4. state[g] \in {"running", "hung", "dead"}
      <3>1. g # Nothing
        BY <2>2 DEF Child, Nothing
      <3> QED BY <2>1, <2>2, <3>1 DEF PipesAreBorn, TypeInv, TypeOK
    <2>5. Len(pipe[g]) <= Room /\ Len(pipe[g]) \in Nat /\ Room \in Nat \ {0}
      <3>1. pipe[g] \in Seq(Piece) /\ Len(pipe[g]) <= Room
        BY <2>2 DEF TypeInv, TypeOK
      <3> QED BY <3>1, LenProperties, ConstantsAssumption
    <2>6. CASE Len(pipe[g]) = Room
      <3>1. pipe[g] # <<>>
        BY <2>5, <2>6, EmptySeq
      <3>2. CASE state[g] = "hung"
        <4>1. Stuck
          BY <2>1, <2>2, <2>6, <3>2 DEF Stuck
        <4> QED BY <2>1, <2>2, <2>3, <4>1
      <3> QED BY <2>1, <2>2, <2>3, <2>4, <3>1, <3>2
    <2>7. CASE Len(pipe[g]) < Room
      BY <2>1, <2>2, <2>3, <2>7
    <2> QED BY <2>5, <2>6, <2>7
  <1>2. Init => TypeInv /\ Births /\ LinesInv /\ PipesAreBorn
    BY InitTypeInv, InitBirths, InitLines, InitPipes
  <1>3. TypeInv /\ Births /\ LinesInv /\ PipesAreBorn /\ [Next]_vars
          => (TypeInv /\ Births /\ LinesInv /\ PipesAreBorn)'
    BY NextTypeInv, NextBirths, NextLines, NextPipes
  <1> QED BY <1>1, <1>2, <1>3, PTL DEF Spec

==============================================================================
