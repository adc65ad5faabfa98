---------------------------- MODULE StreamsProofs ----------------------------
(***************************************************************************)
(* Proofs about Streams, for every number of ids, streams and changes and  *)
(* every capacity of the broadcast channel.                                *)
(***************************************************************************)
EXTENDS Streams, SequenceTheorems, TLAPS

USE DEF hubVars, streamVars, historyVars

-----------------------------------------------------------------------------
(* Messages and the sequences they travel in.                              *)

AMessage == [kind : Kind, stream : Stream, fresh : BOOLEAN]

LEMMA AppendFacts ==
  ASSUME NEW S, NEW s \in Seq(S), NEW e \in S
  PROVE  /\ Append(s, e) \in Seq(S) /\ Append(s, e) # <<>>
         /\ Len(s) \in Nat /\ DOMAIN s = 1 .. Len(s)
         /\ Len(Append(s, e)) = Len(s) + 1
         /\ DOMAIN Append(s, e) = 1 .. Len(s) + 1
         /\ \A n \in 1 .. Len(s) : Append(s, e)[n] = s[n]
         /\ Append(s, e)[Len(s) + 1] = e
  OBVIOUS

LEMMA TailFacts ==
  ASSUME NEW S, NEW s \in Seq(S), s # <<>>
  PROVE  /\ Head(s) \in S /\ Head(s) = s[1]
         /\ Len(s) \in Nat \ {0} /\ DOMAIN s = 1 .. Len(s)
         /\ Tail(s) \in Seq(S)
         /\ Len(Tail(s)) = Len(s) - 1
         /\ DOMAIN Tail(s) = 1 .. Len(s) - 1
         /\ \A n \in 1 .. Len(s) - 1 : Tail(s)[n] = s[n + 1]
<1>1. Len(s) \in Nat \ {0} /\ DOMAIN s = 1 .. Len(s)
  BY EmptySeq, LenProperties
<1>2. /\ Head(s) \in S /\ Tail(s) \in Seq(S) /\ Len(Tail(s)) = Len(s) - 1
      /\ \A n \in 1 .. Len(Tail(s)) : Tail(s)[n] = s[n + 1]
  BY HeadTailProperties
<1>3. Head(s) = s[1]
  OBVIOUS
<1>4. DOMAIN Tail(s) = 1 .. Len(Tail(s))
  BY <1>2, LenProperties
<1> QED
  BY <1>1, <1>2, <1>3, <1>4

\* A tool change makes what is on its way out of date, and changes nothing else.
LEMMA OldFacts ==
  ASSUME NEW q \in Seq(AMessage)
  PROVE  /\ Old(q) \in Seq(AMessage)
         /\ Len(Old(q)) = Len(q) /\ DOMAIN Old(q) = DOMAIN q
         /\ \A n \in DOMAIN q : /\ Old(q)[n].kind = q[n].kind
                                /\ Old(q)[n].stream = q[n].stream
         /\ Old(q) = <<>> <=> q = <<>>
<1>1. Len(q) \in Nat /\ DOMAIN q = 1 .. Len(q) /\ \A n \in 1 .. Len(q) : q[n] \in AMessage
  BY LenProperties, ElementOfSeq
<1>2. \A n \in 1 .. Len(q) : /\ [q[n] EXCEPT !.fresh = FALSE] \in AMessage
                             /\ [q[n] EXCEPT !.fresh = FALSE].kind = q[n].kind
                             /\ [q[n] EXCEPT !.fresh = FALSE].stream = q[n].stream
  BY <1>1 DEF AMessage
<1>3. Old(q) \in [1 .. Len(q) -> AMessage]
  BY <1>1, <1>2 DEF Old
<1>4. Old(q) \in Seq(AMessage)
  BY <1>1, <1>3, SeqDef
<1>5. Len(Old(q)) = Len(q)
  BY <1>1, <1>3, <1>4, LenProperties
<1>6. Old(q) = <<>> <=> q = <<>>
  BY <1>4, <1>5, EmptySeq
<1> QED
  BY <1>1, <1>2, <1>4, <1>5, <1>6 DEF Old

LEMMA MessageTypes ==
  ASSUME NEW kind \in Kind, NEW l \in Stream
  PROVE  /\ Message(kind, l) \in AMessage
         /\ Message(kind, l).kind = kind /\ Message(kind, l).stream = l
  BY DEF Message, AMessage

LEMMA Streams1 == Stream \subseteq Nat \ {0} /\ NoStream \notin Stream /\ MaxStreams \in Nat
  BY ConstantsAssumption DEF Stream

-----------------------------------------------------------------------------
(* Types.                                                                  *)

LEMMA InitTypeOK == Init => TypeOK
<1> SUFFICES ASSUME Init PROVE TypeOK
  OBVIOUS
<1>1. <<>> \in Seq(AMessage) /\ DOMAIN <<>> = 1 .. 0
  BY EmptySeq, LenProperties
<1> QED
  BY <1>1, ConstantsAssumption DEF Init, TypeOK, AMessage

LEMMA NextTypeOK == TypeOK /\ [Next]_vars => TypeOK'
<1> SUFFICES ASSUME TypeOK, [Next]_vars PROVE TypeOK'
  OBVIOUS
<1> USE Streams1
<1>0. /\ out \in Seq(AMessage) /\ queue \in [Stream -> Seq(AMessage)]
      /\ Capacity \in Nat \ {0} /\ MaxChanges \in Nat
  BY ConstantsAssumption DEF TypeOK, AMessage
<1>a. \A S : Aborted(S) \in [Stream -> {"none", "running", "aborted", "ended"}]
  BY DEF Aborted, TypeOK
<1>b. Broadcast \in [Stream -> 0 .. Capacity + 1]
  BY <1>0 DEF Broadcast, TypeOK
<1>1. ASSUME NEW i \in Id, NEW wanted \in BOOLEAN, Listen(i, wanted) PROVE TypeOK'
  <2> DEFINE l == opened + 1
  <2>1. l \in Stream /\ l \in 0 .. MaxStreams
    BY <1>1 DEF Listen, TypeOK, Stream
  <2>2. Message("ack", l) \in AMessage /\ Message("ack", l).stream = l
    BY <2>1, MessageTypes DEF Kind
  <2> DEFINE q == <<Message("ack", l)>>
  <2>3. q \in Seq(AMessage) /\ DOMAIN q = {1} /\ q[1].stream = l
    BY <2>2
  <2>4. queue' = [queue EXCEPT ![l] = q]
    BY <1>1 DEF Listen
  <2> HIDE DEF q
  <2>5. queue' \in [Stream -> Seq(AMessage)]
        /\ \A k \in Stream : \A n \in DOMAIN queue'[k] : queue'[k][n].stream = k
    BY <1>0, <2>1, <2>3, <2>4 DEF TypeOK
  <2>6. overwritten' \subseteq Stream
    BY <1>1 DEF Listen, TypeOK
  <2> HIDE DEF l
  <2> QED
    BY <1>1, <2>1, <2>5, <2>6 DEF Listen, TypeOK, AMessage, l
<1>2. ASSUME NEW i \in Id, Cancelled(i) PROVE TypeOK'
  BY <1>2, <1>a DEF Cancelled, TypeOK
<1>3. ASSUME Request PROVE TypeOK'
  <2>1. out' \in Seq(AMessage)
    BY <1>0, <1>3, OldFacts DEF Request
  <2>2. queue' \in [Stream -> Seq(AMessage)]
        /\ \A k \in Stream : \A n \in DOMAIN queue'[k] : queue'[k][n].stream = k
    <3>1. CASE UNCHANGED queue
      BY <3>1, <1>0 DEF TypeOK
    <3>2. CASE queue' = [l \in Stream |-> Old(queue[l])]
      <4>1. ASSUME NEW k \in Stream
            PROVE  /\ queue'[k] \in Seq(AMessage)
                   /\ \A n \in DOMAIN queue'[k] : queue'[k][n].stream = k
        <5>1. queue'[k] = Old(queue[k]) /\ queue[k] \in Seq(AMessage)
          BY <1>0, <3>2
        <5>2. \A n \in DOMAIN queue[k] : queue[k][n].stream = k
          BY <1>0 DEF TypeOK
        <5> QED
          BY <5>1, <5>2, OldFacts
      <4> QED
        BY <3>2, <4>1
    <3> QED
      BY <1>3, <3>1, <3>2 DEF Request
  <2> QED
    <3>1. unread' \in [Stream -> 0 .. Capacity + 1]
      BY <1>3, <1>b DEF Request, TypeOK
    <3>2. shown' \in [Stream -> {"nothing", "current", "stale"}]
      BY <1>3 DEF Request, TypeOK
    <3>3. changes' \in 0 .. MaxChanges
      BY <1>0, <1>3 DEF Request, TypeOK
    <3> QED
      BY <1>3, <2>1, <2>2, <3>1, <3>2, <3>3 DEF Request, TypeOK, AMessage
<1>4. ASSUME Eof PROVE TypeOK'
  BY <1>4, <1>a DEF Eof, TypeOK
<1>5. ASSUME Loop PROVE TypeOK'
  BY <1>5 DEF Loop, Replied, Joined, Done, TypeOK
<1>6. ASSUME NEW l \in Stream, Lagged(l) PROVE TypeOK'
  <2>1. Capacity \in 0 .. Capacity + 1
    BY <1>0
  <2>2. unread' \in [Stream -> 0 .. Capacity + 1]
    BY <1>6, <2>1 DEF Lagged, TypeOK
  <2> QED
    BY <1>6, <2>2 DEF Lagged, TypeOK
<1>7. ASSUME NEW l \in Stream, Hear(l) PROVE TypeOK'
  <2>1. Message("changed", l) \in AMessage /\ Message("changed", l).stream = l
    BY MessageTypes DEF Kind
  <2>2. queue' \in [Stream -> Seq(AMessage)]
        /\ \A k \in Stream : \A n \in DOMAIN queue'[k] : queue'[k][n].stream = k
    <3>1. CASE UNCHANGED queue
      BY <3>1, <1>0 DEF TypeOK
    <3>2. CASE queue' = [queue EXCEPT ![l] = Append(@, Message("changed", l))]
      <4> DEFINE s == queue[l]
                 m == Message("changed", l)
                 q == Append(s, m)
      <4>1. s \in Seq(AMessage) /\ (\A n \in DOMAIN s : s[n].stream = l)
            /\ m \in AMessage /\ m.stream = l
        BY <1>0, <2>1 DEF TypeOK
      <4> HIDE DEF s, m
      <4>2. /\ q \in Seq(AMessage) /\ DOMAIN s = 1 .. Len(s) /\ Len(s) \in Nat
            /\ DOMAIN q = 1 .. Len(s) + 1
            /\ (\A n \in 1 .. Len(s) : q[n] = s[n]) /\ q[Len(s) + 1] = m
        BY <4>1, AppendFacts
      <4>3. \A n \in DOMAIN q : q[n].stream = l
        BY <4>1, <4>2
      <4>4. queue' = [queue EXCEPT ![l] = q]
        BY <3>2 DEF s, m
      <4> HIDE DEF q
      <4> QED
        BY <1>0, <4>2, <4>3, <4>4 DEF TypeOK
    <3> QED
      BY <1>7, <3>1, <3>2 DEF Hear
  <2> QED
    <3>1. unread[l] - 1 \in 0 .. Capacity + 1
      BY <1>0, <1>7 DEF Hear
    <3>2. unread' \in [Stream -> 0 .. Capacity + 1]
      BY <1>7, <3>1 DEF Hear, TypeOK
    <3>3. listener' \in [Stream -> {"none", "on", "ended"}]
      BY <1>7 DEF Hear, TypeOK
    <3> QED
      BY <1>7, <2>2, <3>2, <3>3 DEF Hear, TypeOK, AMessage
<1>8. ASSUME NEW l \in Stream, Forward(l) PROVE TypeOK'
  <2>1. Head(queue[l]) \in AMessage /\ Tail(queue[l]) \in Seq(AMessage)
        /\ \A n \in DOMAIN Tail(queue[l]) : Tail(queue[l])[n].stream = l
    BY <1>0, <1>8, TailFacts DEF Forward, TypeOK
  <2>2. out' \in Seq(AMessage)
    BY <1>0, <1>8, <2>1, AppendFacts DEF Forward, Sent
  <2>3. queue' \in [Stream -> Seq(AMessage)]
        /\ \A k \in Stream : \A n \in DOMAIN queue'[k] : queue'[k][n].stream = k
    BY <1>0, <1>8, <2>1 DEF Forward, TypeOK
  <2> QED
    BY <1>8, <2>2, <2>3 DEF Forward, TypeOK, AMessage
<1>9. ASSUME NEW l \in Stream, Stop(l) PROVE TypeOK'
  <2>1. queue' = [queue EXCEPT ![l] = <<>>] /\ <<>> \in Seq(AMessage) /\ DOMAIN <<>> = {}
    BY <1>9, EmptySeq DEF Stop
  <2>2. queue' \in [Stream -> Seq(AMessage)]
        /\ \A k \in Stream : \A n \in DOMAIN queue'[k] : queue'[k][n].stream = k
    BY <1>0, <2>1 DEF TypeOK
  <2> QED
    BY <1>9, <2>2 DEF Stop, TypeOK, AMessage
<1>10. ASSUME Write PROVE TypeOK'
  <2>1. out' \in Seq(AMessage)
    BY <1>0, <1>10, TailFacts DEF Write
  <2> QED
    BY <1>10, <2>1 DEF Write, TypeOK, AMessage
<1>11. ASSUME WriteFails \/ WriterEnds PROVE TypeOK'
  <2>1. out' \in Seq(AMessage)
    BY <1>0, <1>11, EmptySeq DEF WriteFails, WriterEnds
  <2> QED
    BY <1>11, <2>1 DEF WriteFails, WriterEnds, TypeOK, AMessage
<1>12. CASE UNCHANGED vars
  BY <1>12 DEF vars, TypeOK
<1> QED
  BY <1>1, <1>2, <1>3, <1>4, <1>5, <1>6, <1>7, <1>8, <1>9, <1>10, <1>11, <1>12
  DEF Next, Client

(* Every variable keeps its type: a receiver is never more than one change   *)
(* further behind than the channel keeps, and no message strays into the     *)
(* queue of another stream.                                                  *)
THEOREM TypeCorrect == Spec => []TypeOK
<1> QED
  BY InitTypeOK, NextTypeOK, PTL DEF Spec

-----------------------------------------------------------------------------
(* StreamKeepsItsWord.                                                     *)

\* A stream that is not open yet has no task and no message anywhere.
NothingUnopened ==
    /\ \A l \in Stream : l > opened =>
         /\ listener[l] = "none" /\ forwarder[l] = "none"
         /\ queue[l] = <<>> /\ shown[l] = "nothing"
    /\ \A n \in DOMAIN out : out[n].stream <= opened

\* The acknowledgement of a stream that is being served is somewhere: before
\* the forwarder, on its way to the writer task, or read by the client.
AckSomewhere ==
    writer = "running" => \A l \in Stream :
        Running(l) => \/ queue[l] # <<>>
                      \/ shown[l] # "nothing"
                      \/ \E n \in DOMAIN out : out[n].stream = l

WordInv == TypeOK /\ NothingUnopened /\ AckSomewhere /\ StreamKeepsItsWord

LEMMA Typed ==
  ASSUME TypeOK
  PROVE  /\ out \in Seq(AMessage) /\ queue \in [Stream -> Seq(AMessage)]
         /\ Len(out) \in Nat /\ DOMAIN out = 1 .. Len(out)
         /\ \A n \in DOMAIN out : out[n].stream \in Stream
         /\ \A l \in Stream : /\ Len(queue[l]) \in Nat
                              /\ DOMAIN queue[l] = 1 .. Len(queue[l])
                              /\ queue[l] = <<>> <=> Len(queue[l]) = 0
                              /\ \A n \in DOMAIN queue[l] : queue[l][n].stream = l
         /\ opened \in Nat /\ Stream \subseteq Nat
<1>1. out \in Seq(AMessage) /\ queue \in [Stream -> Seq(AMessage)]
  BY DEF TypeOK, AMessage
<1>2. Len(out) \in Nat /\ DOMAIN out = 1 .. Len(out) /\ \A n \in DOMAIN out : out[n] \in AMessage
  BY <1>1, LenProperties, ElementOfSeq
<1>3. \A n \in DOMAIN out : out[n].stream \in Stream
  BY <1>2 DEF AMessage
<1>4. ASSUME NEW l \in Stream
      PROVE  /\ Len(queue[l]) \in Nat
             /\ DOMAIN queue[l] = 1 .. Len(queue[l])
             /\ queue[l] = <<>> <=> Len(queue[l]) = 0
  BY <1>1, LenProperties, EmptySeq
<1>5. opened \in Nat /\ Stream \subseteq Nat
  BY Streams1 DEF TypeOK
<1> QED
  BY <1>1, <1>2, <1>3, <1>4, <1>5 DEF TypeOK

\* A step that adds and takes no message and shows the client nothing.
NoMessageMoves ==
    /\ UNCHANGED <<opened, tools>>
    /\ writer' = "running" => writer = "running"
    /\ Len(out') = Len(out) /\ DOMAIN out' = DOMAIN out
    /\ \A n \in DOMAIN out : out'[n].kind = out[n].kind /\ out'[n].stream = out[n].stream
    /\ \A l \in Stream :
         /\ shown'[l] = "nothing" <=> shown[l] = "nothing"
         /\ queue'[l] = <<>> <=> queue[l] = <<>>
         /\ DOMAIN queue'[l] = DOMAIN queue[l]
         /\ \A n \in DOMAIN queue[l] : /\ queue'[l][n].kind = queue[l][n].kind
                                      /\ queue'[l][n].stream = queue[l][n].stream
         /\ forwarder'[l] \in {"running", "aborted"} => Running(l)
         /\ forwarder[l] = "none" => forwarder'[l] = "none"
         /\ listener[l] = "none" => listener'[l] = "none"

LEMMA NoMessageMovesKeeps ==
  ASSUME WordInv, NoMessageMoves
  PROVE  NothingUnopened' /\ AckSomewhere' /\ StreamKeepsItsWord'
<1> USE Typed DEF WordInv
<1>1. NothingUnopened'
  BY DEF NothingUnopened, NoMessageMoves
<1>2. AckSomewhere'
  <2> SUFFICES ASSUME writer' = "running", NEW l \in Stream, Running(l)',
                      queue'[l] = <<>>, shown'[l] = "nothing"
               PROVE  \E n \in DOMAIN out' : out'[n].stream = l
    BY DEF AckSomewhere
  <2>1. writer = "running" /\ Running(l) /\ queue[l] = <<>> /\ shown[l] = "nothing"
    BY DEF NoMessageMoves, Running
  <2>2. PICK n \in DOMAIN out : out[n].stream = l
    BY <2>1 DEF AckSomewhere
  <2> QED
    BY <2>2 DEF NoMessageMoves
<1>3. StreamKeepsItsWord'
  <2> SUFFICES ASSUME writer' = "running"
               PROVE  (/\ \A n \in DOMAIN out : KeepsWord(out[n], StartsStream(out[n].stream, n))
                       /\ \A l \in Stream : \A n \in DOMAIN queue[l] :
                             KeepsWord(queue[l][n], n = 1 /\ StartsStream(l, Len(out) + 1)))'
    BY DEF StreamKeepsItsWord
  <2>0. writer = "running"
    BY DEF NoMessageMoves
  <2>1. /\ \A l \in Stream : shown'[l] = "nothing" <=> shown[l] = "nothing"
        /\ \A k \in DOMAIN out : out'[k].stream = out[k].stream
        /\ Len(out') = Len(out)
    BY DEF NoMessageMoves
  <2>2. ASSUME NEW n \in DOMAIN out' PROVE KeepsWord(out[n], StartsStream(out[n].stream, n))'
    <3>1. n \in DOMAIN out /\ n \in 1 .. Len(out) + 1
      BY DEF NoMessageMoves
    <3>2. /\ out'[n].kind = out[n].kind /\ out'[n].stream = out[n].stream /\ tools' = tools
          /\ out[n].stream \in Stream
      BY <3>1 DEF NoMessageMoves
    <3>3. KeepsWord(out[n], StartsStream(out[n].stream, n))
      BY <2>0, <3>1 DEF StreamKeepsItsWord
    <3>4. StartsStream(out[n].stream, n)' <=> StartsStream(out[n].stream, n)
      <4>1. \A k \in 1 .. n - 1 : out'[k].stream = out[k].stream
        BY <2>1, <3>1
      <4> QED
        BY <2>1, <3>2, <4>1 DEF StartsStream
    <3> QED
      BY <3>2, <3>3, <3>4 DEF KeepsWord
  <2>3. ASSUME NEW l \in Stream, NEW n \in DOMAIN queue'[l]
        PROVE  KeepsWord(queue[l][n], n = 1 /\ StartsStream(l, Len(out) + 1))'
    <3>1. /\ n \in DOMAIN queue[l] /\ tools' = tools /\ Len(out') = Len(out)
          /\ queue'[l][n].kind = queue[l][n].kind /\ queue'[l][n].stream = queue[l][n].stream
      BY <2>3 DEF NoMessageMoves
    <3>2. KeepsWord(queue[l][n], n = 1 /\ StartsStream(l, Len(out) + 1))
      BY <2>0, <3>1 DEF StreamKeepsItsWord
    <3>3. StartsStream(l, Len(out) + 1)' <=> StartsStream(l, Len(out) + 1)
      <4>1. \A k \in 1 .. Len(out) + 1 - 1 : out'[k].stream = out[k].stream
        BY <2>1
      <4>2. Len(out') + 1 - 1 = Len(out) + 1 - 1
        BY <2>1
      <4>3. shown'[l] = "nothing" <=> shown[l] = "nothing"
        BY <2>1
      <4> HIDE DEF WordInv
      <4> QED
        BY <4>1, <4>2, <4>3 DEF StartsStream
    <3> QED
      BY <3>1, <3>2, <3>3 DEF KeepsWord
  <2> QED
    BY <2>2, <2>3
<1> QED
  BY <1>1, <1>2, <1>3

\* Whether a message starts its stream is told from the writer's channel alone.
LEMMA StartsStays ==
  ASSUME UNCHANGED <<out, shown>>
  PROVE  /\ \A l, n : StartsStream(l, n)' <=> StartsStream(l, n)
         /\ \A l : StartsStream(l, Len(out) + 1)' <=> StartsStream(l, Len(out) + 1)
  BY DEF StartsStream

LEMMA StillActions ==
  ASSUME WordInv,
         \/ \E i \in Id : Cancelled(i)
         \/ Request \/ Eof \/ Loop \/ WriterEnds \/ UNCHANGED vars
         \/ \E l \in Stream : Lagged(l) \/ (Hear(l) /\ UNCHANGED queue)
  PROVE  NoMessageMoves
<1> USE Typed DEF WordInv
<1>1. ASSUME UNCHANGED <<out, queue, shown, opened, tools>>,
             writer' = "running" => writer = "running",
             \A l \in Stream : /\ forwarder'[l] \in {"running", "aborted"} => Running(l)
                               /\ forwarder[l] = "none" => forwarder'[l] = "none"
                               /\ listener[l] = "none" => listener'[l] = "none"
      PROVE  NoMessageMoves
  BY <1>1 DEF NoMessageMoves
<1>2. CASE (\E i \in Id : Cancelled(i)) \/ Eof
  <2>1. \A S : \A l \in Stream : /\ Aborted(S)[l] \in {"running", "aborted"} => Running(l)
                                 /\ forwarder[l] = "none" => Aborted(S)[l] = "none"
    BY DEF Aborted, Running
  <2>2. PICK S : forwarder' = Aborted(S)
    BY <1>2 DEF Cancelled, Eof
  <2>3. UNCHANGED <<out, queue, shown, opened, tools, writer, listener>>
    BY <1>2 DEF Cancelled, Eof
  <2> QED
    BY <1>1, <2>1, <2>2, <2>3
<1>3. CASE Request
  <2>1. UNCHANGED <<writer, opened, tools, listener, forwarder>>
    BY <1>3 DEF Request
  <2>2. CASE UNCHANGED <<out, queue, shown>>
    BY <1>1, <2>1, <2>2 DEF Running
  <2>3. CASE /\ out' = Old(out) /\ queue' = [l \in Stream |-> Old(queue[l])]
             /\ shown' = [l \in Stream |-> IF shown[l] = "current" THEN "stale" ELSE shown[l]]
    <3>1. /\ Len(out') = Len(out) /\ DOMAIN out' = DOMAIN out
          /\ \A n \in DOMAIN out : out'[n].kind = out[n].kind /\ out'[n].stream = out[n].stream
      BY <2>3, OldFacts
    <3>2. ASSUME NEW l \in Stream
          PROVE  /\ queue'[l] = <<>> <=> queue[l] = <<>>
                 /\ DOMAIN queue'[l] = DOMAIN queue[l]
                 /\ \A n \in DOMAIN queue[l] : /\ queue'[l][n].kind = queue[l][n].kind
                                               /\ queue'[l][n].stream = queue[l][n].stream
      <4>1. queue'[l] = Old(queue[l]) /\ queue[l] \in Seq(AMessage)
        BY <2>3
      <4> QED
        BY <4>1, OldFacts
    <3>3. \A l \in Stream : shown'[l] = "nothing" <=> shown[l] = "nothing"
      BY <2>3
    <3> QED
      BY <2>1, <3>1, <3>2, <3>3 DEF NoMessageMoves, Running
  <2> QED
    BY <1>3, <2>2, <2>3 DEF Request
<1>4. CASE Loop \/ WriterEnds \/ UNCHANGED vars
  BY <1>1, <1>4 DEF Loop, Replied, Joined, Done, WriterEnds, vars, Running
<1>5. ASSUME NEW l \in Stream, Lagged(l) \/ (Hear(l) /\ UNCHANGED queue)
      PROVE  NoMessageMoves
  <2>1. forwarder \in [Stream -> {"none", "running", "aborted", "ended"}]
        /\ listener \in [Stream -> {"none", "on", "ended"}]
    BY DEF TypeOK
  <2>2. CASE Lagged(l)
    BY <1>1, <2>2 DEF Lagged, Running
  <2>3. CASE Hear(l) /\ UNCHANGED queue
    BY <1>1, <2>1, <2>3 DEF Hear, Running
  <2> QED
    BY <1>5, <2>2, <2>3
<1> QED
  BY <1>2, <1>3, <1>4, <1>5

LEMMA ListenKeeps ==
  ASSUME WordInv, NEW i \in Id, NEW wanted \in BOOLEAN, Listen(i, wanted)
  PROVE  NothingUnopened' /\ AckSomewhere' /\ StreamKeepsItsWord'
<1> USE Typed DEF WordInv
<1>0. PICK l \in Stream : l = opened + 1 /\ opened' = l /\ l > opened
  BY Streams1 DEF Listen, Stream
<1>1. UNCHANGED <<out, writer, shown>>
  BY DEF Listen
<1>2. /\ \A k \in Stream \ {l} : /\ queue'[k] = queue[k] /\ tools'[k] = tools[k]
                                 /\ forwarder'[k] = forwarder[k] /\ listener'[k] = listener[k]
      /\ queue'[l] = <<Message("ack", l)>>
  BY <1>0 DEF Listen, TypeOK
<1>3. shown[l] = "nothing" /\ \A n \in DOMAIN out : out[n].stream # l
  BY <1>0 DEF NothingUnopened
<1>4. /\ DOMAIN queue'[l] = {1} /\ queue'[l][1].kind = "ack" /\ queue'[l][1].stream = l
      /\ queue'[l] # <<>>
  BY <1>0, <1>2, MessageTypes DEF Kind
<1>5. NothingUnopened'
  <2>1. \A k \in Stream : k > opened' => k > opened /\ k # l
    BY <1>0
  <2>2. \A n \in DOMAIN out : out[n].stream <= opened'
    BY <1>0 DEF NothingUnopened
  <2> QED
    BY <1>1, <1>2, <2>1, <2>2 DEF NothingUnopened
<1>6. AckSomewhere'
  BY <1>1, <1>2, <1>4 DEF AckSomewhere, Running
<1>7. StreamKeepsItsWord'
  <2>1. ASSUME writer = "running", NEW n \in DOMAIN out
        PROVE  KeepsWord(out[n], StartsStream(out[n].stream, n))'
    <3>1. KeepsWord(out[n], StartsStream(out[n].stream, n))
      BY <2>1 DEF StreamKeepsItsWord
    <3>2. tools'[out[n].stream] = tools[out[n].stream]
      BY <1>2, <1>3
    <3> QED
      BY <1>1, <3>1, <3>2 DEF KeepsWord, StartsStream
  <2>2. ASSUME writer = "running", NEW k \in Stream, NEW n \in DOMAIN queue'[k]
        PROVE  KeepsWord(queue[k][n], n = 1 /\ StartsStream(k, Len(out) + 1))'
    <3>1. CASE k = l
      <4>1. StartsStream(l, Len(out) + 1)
        BY <1>3 DEF StartsStream
      <4>2. StartsStream(l, Len(out) + 1)'
        BY <1>1, <4>1, StartsStays
      <4>3. n = 1 /\ queue'[k][n].kind = "ack"
        BY <1>4, <2>2, <3>1
      <4> QED
        BY <3>1, <4>2, <4>3 DEF KeepsWord
    <3>2. CASE k # l
      <4>1. KeepsWord(queue[k][n], n = 1 /\ StartsStream(k, Len(out) + 1)) /\ queue'[k] = queue[k]
        BY <1>2, <2>2, <3>2 DEF StreamKeepsItsWord
      <4>2. tools'[queue[k][n].stream] = tools[queue[k][n].stream]
        BY <1>2, <2>2, <3>2
      <4> QED
        BY <1>1, <4>1, <4>2 DEF KeepsWord, StartsStream
    <3> QED
      BY <3>1, <3>2
  <2> QED
    BY <1>1, <2>1, <2>2 DEF StreamKeepsItsWord
<1> QED
  BY <1>5, <1>6, <1>7

LEMMA HearKeeps ==
  ASSUME WordInv, NEW l \in Stream, Hear(l)
  PROVE  NothingUnopened' /\ AckSomewhere' /\ StreamKeepsItsWord'
<1> USE Typed DEF WordInv
<1>a. CASE UNCHANGED queue
  BY <1>a, StillActions, NoMessageMovesKeeps
<1>b. CASE /\ queue' = [queue EXCEPT ![l] = Append(@, Message("changed", l))]
           /\ Wanted(l) /\ Running(l)
  <2> DEFINE m == Message("changed", l)
  <2>0. m \in AMessage /\ m.kind = "changed" /\ m.stream = l
    BY MessageTypes DEF Kind
  <2>1. UNCHANGED <<out, writer, shown, tools, forwarder, opened>>
    BY DEF Hear
  <2>2. /\ \A k \in Stream \ {l} : queue'[k] = queue[k] /\ listener'[k] = listener[k]
        /\ queue'[l] = Append(queue[l], m)
        /\ listener[l] = "on"
    BY <1>b DEF Hear, TypeOK
  <2> HIDE DEF m
  <2>3. /\ queue'[l] # <<>> /\ DOMAIN queue'[l] = 1 .. Len(queue[l]) + 1
        /\ \A n \in DOMAIN queue[l] : queue'[l][n] = queue[l][n]
        /\ queue'[l][Len(queue[l]) + 1] = m
    BY <2>0, <2>2, AppendFacts
  <2>4. NothingUnopened'
    BY <2>1, <2>2 DEF NothingUnopened
  <2>5. AckSomewhere'
    BY <2>1, <2>2, <2>3 DEF AckSomewhere, Running
  <2>6. StreamKeepsItsWord'
    <3>1. ASSUME writer = "running", NEW k \in Stream, NEW n \in DOMAIN queue'[k]
          PROVE  KeepsWord(queue[k][n], n = 1 /\ StartsStream(k, Len(out) + 1))'
      <4>1. CASE k # l \/ n \in DOMAIN queue[l]
        <5>1. queue'[k][n] = queue[k][n] /\ n \in DOMAIN queue[k]
          BY <2>2, <2>3, <3>1, <4>1
        <5> QED
          <6>1. KeepsWord(queue[k][n], n = 1 /\ StartsStream(k, Len(out) + 1))
            BY <3>1, <5>1 DEF StreamKeepsItsWord
          <6>2. StartsStream(k, Len(out) + 1)' <=> StartsStream(k, Len(out) + 1)
            BY <2>1, StartsStays
          <6> QED
            BY <2>1, <5>1, <6>1, <6>2 DEF KeepsWord
      <4>2. CASE k = l /\ n \notin DOMAIN queue[l]
        <5>1. n = Len(queue[l]) + 1 /\ queue'[k][n] = m
          BY <2>3, <3>1, <4>2
        <5>2. n = 1 => ~StartsStream(l, Len(out) + 1)
          <6>1. n = 1 => queue[l] = <<>>
            BY <5>1
          <6>2. n = 1 => shown[l] # "nothing" \/ \E j \in 1 .. Len(out) : out[j].stream = l
            BY <1>b, <3>1, <6>1 DEF AckSomewhere
          <6> QED
            BY <6>2 DEF StartsStream
        <5>3. tools[l]
          BY <1>b DEF Wanted
        <5> QED
          BY <2>0, <2>1, <4>2, <5>1, <5>2, <5>3 DEF KeepsWord, StartsStream
      <4> QED
        BY <4>1, <4>2
    <3> QED
      BY <2>1, <3>1 DEF StreamKeepsItsWord, KeepsWord, StartsStream
  <2> QED
    BY <2>4, <2>5, <2>6
<1> QED
  BY <1>a, <1>b DEF Hear

LEMMA StopKeeps ==
  ASSUME WordInv, NEW l \in Stream, Stop(l)
  PROVE  NothingUnopened' /\ AckSomewhere' /\ StreamKeepsItsWord'
<1> USE Typed DEF WordInv
<1>1. UNCHANGED <<out, writer, shown, tools, opened, listener>>
  BY DEF Stop
<1>2. /\ \A k \in Stream \ {l} : queue'[k] = queue[k] /\ forwarder'[k] = forwarder[k]
      /\ queue'[l] = <<>> /\ DOMAIN queue'[l] = {}
      /\ forwarder'[l] = "ended" /\ forwarder[l] # "none"
  BY DEF Stop, TypeOK
<1>3. NothingUnopened'
  BY <1>1, <1>2 DEF NothingUnopened
<1>4. AckSomewhere'
  BY <1>1, <1>2 DEF AckSomewhere, Running
<1>5. StreamKeepsItsWord'
  <2>1. ASSUME writer = "running", NEW n \in DOMAIN out
        PROVE  KeepsWord(out[n], StartsStream(out[n].stream, n))'
    BY <1>1, <2>1 DEF StreamKeepsItsWord, KeepsWord, StartsStream
  <2>2. ASSUME writer = "running", NEW k \in Stream, NEW n \in DOMAIN queue'[k]
        PROVE  KeepsWord(queue[k][n], n = 1 /\ StartsStream(k, Len(out) + 1))'
    <3>1. KeepsWord(queue[k][n], n = 1 /\ StartsStream(k, Len(out) + 1)) /\ queue'[k] = queue[k]
      BY <1>2, <2>2 DEF StreamKeepsItsWord
    <3>2. StartsStream(k, Len(out) + 1)' <=> StartsStream(k, Len(out) + 1)
      BY <1>1, StartsStays
    <3> QED
      BY <1>1, <3>1, <3>2 DEF KeepsWord
  <2> QED
    BY <1>1, <2>1, <2>2 DEF StreamKeepsItsWord
<1> QED
  BY <1>3, <1>4, <1>5

LEMMA ForwardKeeps ==
  ASSUME WordInv, NEW l \in Stream, Forward(l)
  PROVE  NothingUnopened' /\ AckSomewhere' /\ StreamKeepsItsWord'
<1> USE Typed DEF WordInv
<1>1. UNCHANGED <<writer, shown, tools, opened, listener>>
  BY DEF Forward
<1>2. /\ \A k \in Stream \ {l} : queue'[k] = queue[k] /\ forwarder'[k] = forwarder[k]
      /\ queue[l] # <<>> /\ forwarder[l] # "none" /\ l <= opened
      /\ forwarder'[l] \in {"running", "aborted"} => forwarder[l] \in {"running", "aborted"}
  <2>1. queue[l] # <<>> /\ forwarder[l] \in {"running", "aborted"}
    BY DEF Forward, Running
  <2>2. l <= opened
    BY <2>1 DEF NothingUnopened
  <2>3. forwarder'[l] \in {"running", "aborted"} => forwarder[l] \in {"running", "aborted"}
    BY <2>1
  <2>4. \A k \in Stream \ {l} : queue'[k] = queue[k] /\ forwarder'[k] = forwarder[k]
    BY DEF Forward, TypeOK
  <2> QED
    BY <2>1, <2>2, <2>3, <2>4
<1>3. CASE writer = "running"
  <2>1. PICK m \in AMessage : /\ m = queue[l][1] /\ m.stream = l /\ out' = Append(out, m)
                              /\ queue'[l] = Tail(queue[l])
    BY <1>2, <1>3, TailFacts DEF Forward, Sent
  <2>2. /\ Len(out') = Len(out) + 1 /\ DOMAIN out' = 1 .. Len(out) + 1
        /\ \A n \in DOMAIN out : out'[n] = out[n]
        /\ out'[Len(out) + 1] = m
    BY <2>1, AppendFacts
  <2>3. /\ DOMAIN queue'[l] = 1 .. Len(queue[l]) - 1
        /\ \A n \in DOMAIN queue'[l] : n + 1 \in DOMAIN queue[l] /\ queue'[l][n] = queue[l][n + 1]
    BY <1>2, <2>1, TailFacts
  <2>4. NothingUnopened'
    <3>1. \A n \in DOMAIN out' : out'[n].stream <= opened
      <4>1. \A n \in DOMAIN out' : n \in DOMAIN out \/ n = Len(out) + 1
        BY <2>2
      <4> QED
        BY <1>2, <2>1, <2>2, <4>1 DEF NothingUnopened
    <3>2. \A k \in Stream : k > opened => k # l
      BY <1>2
    <3> QED
      BY <1>1, <1>2, <3>1, <3>2 DEF NothingUnopened
  <2>5. AckSomewhere'
    <3> SUFFICES ASSUME NEW k \in Stream, Running(k)', queue'[k] = <<>>, shown'[k] = "nothing"
                 PROVE  \E n \in DOMAIN out' : out'[n].stream = k
      BY DEF AckSomewhere
    <3>1. CASE k = l
      <4>1. Len(out) + 1 \in DOMAIN out' /\ out'[Len(out) + 1].stream = l
        BY <2>1, <2>2
      <4> QED
        BY <3>1, <4>1
    <3>2. CASE k # l
      <4>1. PICK n \in DOMAIN out : out[n].stream = k
        BY <1>1, <1>2, <1>3, <3>2 DEF AckSomewhere, Running
      <4> QED
        BY <2>2, <4>1
    <3> QED
      BY <3>1, <3>2
  <2>6. StreamKeepsItsWord'
    <3>1. ASSUME NEW k \in Stream, NEW n \in 1 .. Len(out) + 1
          PROVE  StartsStream(k, n)' <=> StartsStream(k, n)
      <4>1. \A j \in 1 .. n - 1 : out'[j] = out[j]
        BY <2>2
      <4> QED
        BY <1>1, <4>1 DEF StartsStream
    <3>2. ASSUME NEW n \in DOMAIN out' PROVE KeepsWord(out[n], StartsStream(out[n].stream, n))'
      <4>1. CASE n \in DOMAIN out
        <5>1. KeepsWord(out[n], StartsStream(out[n].stream, n)) /\ out'[n] = out[n]
          BY <1>3, <2>2, <4>1 DEF StreamKeepsItsWord
        <5>2. StartsStream(out[n].stream, n)' <=> StartsStream(out[n].stream, n)
          <6>1. \A j \in 1 .. n - 1 : out'[j] = out[j]
            BY <2>2, <4>1
          <6> QED
            BY <1>1, <5>1, <6>1 DEF StartsStream
        <5> QED
          BY <1>1, <5>1, <5>2 DEF KeepsWord
      <4>2. CASE n = Len(out) + 1
        <5>1. KeepsWord(m, 1 = 1 /\ StartsStream(l, Len(out) + 1))
          BY <1>2, <1>3, <2>1 DEF StreamKeepsItsWord
        <5>2. StartsStream(out[n].stream, n)' <=> StartsStream(l, Len(out) + 1)
          <6>1. \A j \in 1 .. n - 1 : out'[j] = out[j]
            BY <2>2, <4>2
          <6> QED
            BY <1>1, <2>1, <2>2, <4>2, <6>1 DEF StartsStream
        <5> QED
          BY <1>1, <2>2, <4>2, <5>1, <5>2 DEF KeepsWord
      <4> QED
        BY <2>2, <3>2, <4>1, <4>2
    <3>3. ASSUME NEW k \in Stream, NEW n \in DOMAIN queue'[k]
          PROVE  KeepsWord(queue[k][n], n = 1 /\ StartsStream(k, Len(out) + 1))'
      <4>1. CASE k = l
        <5>1. KeepsWord(queue[l][n + 1], n + 1 = 1 /\ StartsStream(l, Len(out) + 1))
              /\ queue'[l][n] = queue[l][n + 1] /\ n \in Nat \ {0}
          <6>1. n + 1 \in DOMAIN queue[l] /\ queue'[l][n] = queue[l][n + 1]
            BY <2>3, <3>3, <4>1
          <6>2. n \in Nat \ {0}
            BY <2>3, <3>3, <4>1
          <6> QED
            BY <1>3, <6>1, <6>2 DEF StreamKeepsItsWord
        <5>2. ~StartsStream(l, Len(out) + 1)'
          <6>1. Len(out) + 1 \in 1 .. Len(out') + 1 - 1 /\ out'[Len(out) + 1].stream = l
            BY <2>1, <2>2
          <6> QED
            BY <6>1 DEF StartsStream
        <5> QED
          BY <1>1, <4>1, <5>1, <5>2 DEF KeepsWord
      <4>2. CASE k # l
        <5>1. KeepsWord(queue[k][n], n = 1 /\ StartsStream(k, Len(out) + 1)) /\ queue'[k] = queue[k]
          BY <1>2, <1>3, <3>3, <4>2 DEF StreamKeepsItsWord
        <5>2. StartsStream(k, Len(out) + 1)' <=> StartsStream(k, Len(out) + 1)
          <6>1. \A j \in 1 .. Len(out) : out'[j] = out[j]
            BY <2>2
          <6>2. 1 .. Len(out') + 1 - 1 = 1 .. Len(out) \union {Len(out) + 1}
                /\ 1 .. Len(out) + 1 - 1 = 1 .. Len(out)
            BY <2>2
          <6>3. out'[Len(out) + 1].stream # k
            BY <2>1, <2>2, <4>2
          <6> QED
            <7>1. (\A j \in 1 .. Len(out') + 1 - 1 : out'[j].stream # k)
                  <=> (\A j \in 1 .. Len(out) + 1 - 1 : out[j].stream # k)
              BY <6>1, <6>2, <6>3
            <7>2. shown'[k] = "nothing" <=> shown[k] = "nothing"
              BY <1>1
            <7> QED
              BY <7>1, <7>2 DEF StartsStream
        <5> QED
          BY <1>1, <5>1, <5>2 DEF KeepsWord
      <4> QED
        BY <4>1, <4>2
    <3> QED
      BY <3>2, <3>3 DEF StreamKeepsItsWord
  <2> QED
    BY <2>4, <2>5, <2>6
<1>4. CASE writer # "running"
  <2>1. out' = out /\ queue'[l] = <<>>
    BY <1>4 DEF Forward, Sent, TypeOK
  <2>2. NothingUnopened'
    BY <1>1, <1>2, <2>1 DEF NothingUnopened
  <2> QED
    BY <1>1, <1>4, <2>2 DEF AckSomewhere, StreamKeepsItsWord
<1> QED
  BY <1>3, <1>4

LEMMA WriteKeeps ==
  ASSUME WordInv, Write
  PROVE  NothingUnopened' /\ AckSomewhere' /\ StreamKeepsItsWord'
<1> USE Typed DEF WordInv
<1>0. /\ writer = "running" /\ out # <<>>
      /\ UNCHANGED <<queue, writer, tools, opened, listener, forwarder>>
  BY DEF Write
<1>1. /\ Len(out) \in Nat \ {0} /\ Len(out') = Len(out) - 1 /\ DOMAIN out' = 1 .. Len(out) - 1
      /\ \A n \in DOMAIN out' : n + 1 \in DOMAIN out /\ out'[n] = out[n + 1]
  BY <1>0, TailFacts DEF Write
<1>2. PICK h \in Stream : /\ h = out[1].stream /\ h <= opened /\ shown'[h] # "nothing"
                         /\ \A k \in Stream \ {h} : shown'[k] = shown[k]
  <2>1. Head(out) = out[1] /\ 1 \in DOMAIN out
    BY <1>0, <1>1, TailFacts
  <2> QED
    <3>1. out[1].stream \in Stream /\ out[1].stream <= opened
      BY <2>1 DEF NothingUnopened
    <3>2. shown' = [k \in Stream |-> IF out[1].stream # k THEN shown[k]
                                    ELSE IF out[1].fresh THEN "current" ELSE "stale"]
      BY <2>1 DEF Write
    <3> QED
      BY <3>1, <3>2
<1>3. NothingUnopened'
  <2>1. ASSUME NEW k \in Stream, k > opened
        PROVE  /\ listener'[k] = "none" /\ forwarder'[k] = "none"
               /\ queue'[k] = <<>> /\ shown'[k] = "nothing"
    <3>1. h # k
      BY <1>2, <2>1 DEF Stream, TypeOK
    <3> QED
      BY <1>0, <1>2, <2>1, <3>1 DEF NothingUnopened
  <2>2. ASSUME NEW n \in DOMAIN out' PROVE out'[n].stream <= opened
    BY <1>1, <2>2 DEF NothingUnopened
  <2> QED
    BY <1>0, <2>1, <2>2 DEF NothingUnopened
<1>4. AckSomewhere'
  <2> SUFFICES ASSUME NEW k \in Stream, Running(k)', queue'[k] = <<>>, shown'[k] = "nothing"
               PROVE  \E n \in DOMAIN out' : out'[n].stream = k
    BY DEF AckSomewhere
  <2>1. k # h
    BY <1>2
  <2>2. PICK n \in DOMAIN out : out[n].stream = k
    BY <1>0, <1>2, <2>1 DEF AckSomewhere, Running
  <2>3. n # 1 /\ n - 1 \in DOMAIN out' /\ out'[n - 1] = out[n]
    <3>1. n # 1 /\ n \in 1 .. Len(out)
      BY <1>2, <2>1, <2>2
    <3>2. n - 1 \in 1 .. Len(out) - 1 /\ n - 1 + 1 = n
      BY <1>1, <3>1
    <3> QED
      BY <1>1, <3>1, <3>2
  <2> QED
    BY <2>2, <2>3
<1>5. StreamKeepsItsWord'
  <2>1. ASSUME NEW k \in Stream, NEW n \in 1 .. Len(out)
        PROVE  StartsStream(k, n)' <=> StartsStream(k, n + 1)
    <3>1. \A j \in 1 .. n - 1 : out'[j] = out[j + 1]
      <4>1. \A j \in 1 .. n - 1 : j \in 1 .. Len(out) - 1
        BY <1>1
      <4> QED
        BY <1>1, <4>1
    <3>2. \A j \in 1 .. n + 1 - 1 : j = 1 \/ j - 1 \in 1 .. n - 1
      BY <1>1
    <3>3. StartsStream(k, n)' => StartsStream(k, n + 1)
      <4> SUFFICES ASSUME StartsStream(k, n)', NEW j \in 1 .. n + 1 - 1
                   PROVE  shown[k] = "nothing" /\ out[j].stream # k
        BY <1>1 DEF StartsStream
      <4>1. k # h /\ shown[k] = "nothing"
        BY <1>2 DEF StartsStream
      <4>2. CASE j = 1
        BY <1>2, <4>1, <4>2
      <4>3. CASE j - 1 \in 1 .. n - 1
        <5>1. out'[j - 1].stream # k /\ out'[j - 1] = out[j]
          BY <3>1, <4>3 DEF StartsStream
        <5> QED
          BY <4>1, <5>1
      <4> QED
        BY <3>2, <4>2, <4>3
    <3>4. StartsStream(k, n + 1) => StartsStream(k, n)'
      <4> SUFFICES ASSUME StartsStream(k, n + 1)
                   PROVE  shown'[k] = "nothing" /\ \A j \in 1 .. n - 1 : out'[j].stream # k
        BY DEF StartsStream
      <4>1. 1 \in 1 .. n + 1 - 1 /\ \A j \in 1 .. n - 1 : j + 1 \in 1 .. n + 1 - 1
        BY <1>1
      <4>2. k # h
        BY <1>2, <4>1 DEF StartsStream
      <4> QED
        BY <1>2, <3>1, <4>1, <4>2 DEF StartsStream
    <3> QED
      BY <3>3, <3>4
  <2>2. ASSUME NEW n \in DOMAIN out' PROVE KeepsWord(out[n], StartsStream(out[n].stream, n))'
    <3>1. PICK m \in AMessage : m = out'[n] /\ m = out[n + 1]
      <4>1. out[n + 1] \in AMessage
        BY <1>1, <2>2, ElementOfSeq
      <4> QED
        BY <1>1, <2>2, <4>1
    <3>2. n \in 1 .. Len(out) /\ m.stream \in Stream
      BY <1>1, <2>2, <3>1 DEF AMessage
    <3>3. KeepsWord(m, StartsStream(m.stream, n + 1))
      BY <1>0, <1>1, <2>2, <3>1 DEF StreamKeepsItsWord
    <3>4. StartsStream(m.stream, n)' <=> StartsStream(m.stream, n + 1)
      BY <2>1, <3>2
    <3>5. StartsStream(out[n].stream, n)' <=> StartsStream(m.stream, n)'
      BY <3>1 DEF StartsStream
    <3> QED
      BY <1>0, <3>1, <3>3, <3>4, <3>5 DEF KeepsWord
  <2>3. ASSUME NEW k \in Stream, NEW n \in DOMAIN queue'[k]
        PROVE  KeepsWord(queue[k][n], n = 1 /\ StartsStream(k, Len(out) + 1))'
    <3>1. KeepsWord(queue[k][n], n = 1 /\ StartsStream(k, Len(out) + 1))
      BY <1>0, <2>3 DEF StreamKeepsItsWord
    <3>2. StartsStream(k, Len(out) + 1)' <=> StartsStream(k, Len(out) + 1)
      <4>0. Len(out) \in 1 .. Len(out) /\ Len(out) = Len(out') + 1
        BY <1>1
      <4>1. PICK len \in 1 .. Len(out) : len = Len(out) /\ len = Len(out') + 1
        BY <4>0
      <4>2. StartsStream(k, len)' <=> StartsStream(k, len + 1)
        BY <2>1
      <4>3. StartsStream(k, len)' <=> StartsStream(k, Len(out) + 1)'
        BY <4>1 DEF StartsStream
      <4> QED
        BY <4>1, <4>2, <4>3
    <3> QED
      BY <1>0, <3>1, <3>2 DEF KeepsWord
  <2> QED
    BY <2>2, <2>3 DEF StreamKeepsItsWord
<1> QED
  BY <1>3, <1>4, <1>5

LEMMA WordNext ==
  ASSUME WordInv, [Next]_vars
  PROVE  NothingUnopened' /\ AckSomewhere' /\ StreamKeepsItsWord'
<1> DEFINE Goal == NothingUnopened' /\ AckSomewhere' /\ StreamKeepsItsWord'
<1>1. ASSUME NEW i \in Id, NEW wanted \in BOOLEAN, Listen(i, wanted) PROVE Goal
  BY <1>1, ListenKeeps
<1>2. CASE \/ \E i \in Id : Cancelled(i)
           \/ Request \/ Eof \/ Loop \/ WriterEnds \/ UNCHANGED vars
           \/ \E l \in Stream : Lagged(l)
  BY <1>2, StillActions, NoMessageMovesKeeps
<1>3. ASSUME NEW l \in Stream, Hear(l) PROVE Goal
  BY <1>3, HearKeeps
<1>4. ASSUME NEW l \in Stream, Forward(l) PROVE Goal
  BY <1>4, ForwardKeeps
<1>5. ASSUME NEW l \in Stream, Stop(l) PROVE Goal
  BY <1>5, StopKeeps
<1>6. CASE Write
  BY <1>6, WriteKeeps
<1>7. CASE WriteFails
  <2>1. /\ UNCHANGED <<opened, listener, forwarder, queue, shown>>
        /\ out' = <<>> /\ DOMAIN out' = {} /\ writer' = "failed"
    BY <1>7 DEF WriteFails
  <2> QED
    BY <2>1 DEF WordInv, NothingUnopened, AckSomewhere, StreamKeepsItsWord
<1> QED
  BY <1>1, <1>2, <1>3, <1>4, <1>5, <1>6, <1>7 DEF Next, Client

(* What a client reads of a stream is its acknowledgement, once and first,   *)
(* and then only changes it asked for, however many streams share stdout,    *)
(* ids are used again, listeners lag and forwarders are aborted half-way.    *)
THEOREM AckComesFirst == Spec => []StreamKeepsItsWord
<1>1. Init => WordInv
  <2> SUFFICES ASSUME Init PROVE WordInv
    OBVIOUS
  <2>1. /\ out = <<>> /\ DOMAIN out = {} /\ opened = 0
        /\ \A l \in Stream : /\ listener[l] = "none" /\ forwarder[l] = "none"
                             /\ queue[l] = <<>> /\ DOMAIN queue[l] = {} /\ shown[l] = "nothing"
    BY DEF Init
  <2> QED
    BY <2>1, InitTypeOK
    DEF WordInv, NothingUnopened, AckSomewhere, Running, StreamKeepsItsWord
<1>2. WordInv /\ [Next]_vars => WordInv'
  BY WordNext, NextTypeOK DEF WordInv
<1>3. WordInv => StreamKeepsItsWord
  BY DEF WordInv
<1> QED
  BY <1>1, <1>2, <1>3, PTL DEF Spec

==============================================================================
