---------------------------- MODULE SessionProofs ----------------------------
(* What the session, the rules about names and arguments and the decoder of  *)
(* server-sent events guarantee, for any number of backends, resources,      *)
(* requests and changes, for any namespaces, tools and arguments, and for    *)
(* texts of any length however they are cut.                                 *)
EXTENDS Session, SequenceTheorems, FiniteSetTheorems, NaturalsInduction,
        WellFoundedInduction, TLAPS

\* A set of backends that is not empty has a first member.
LEMMA FirstIsFirst ==
    ASSUME NEW S \in SUBSET Backend, S # {}
    PROVE  FirstOf(S) \in S /\ \A b \in S : FirstOf(S) <= b
  <1>1. S \subseteq Nat
    BY DEF Backend
  <1>2. PICK m \in S : \A b \in S : <<b, m>> \notin OpToRel(<, Nat)
    BY <1>1, WFMin, NatLessThanWellFounded, Zenon
  <1>3. \A b \in S : ~(b < m)
    BY <1>1, <1>2, Zenon DEF OpToRel
  <1>4. \E x \in S : \A b \in S : x <= b
    BY <1>1, <1>3
  <1> QED BY <1>4 DEF FirstOf, Min

-----------------------------------------------------------------------------
(* Types.                                                                  *)

TaskTypes ==
    /\ pc \in [Task -> {"idle", "list", "lookup", "forward"}]
    /\ want \in [Task -> Uri \union {NoUri}]
    /\ \A t \in Task : pc[t] \in {"lookup", "forward"} => want[t] # NoUri
    /\ todo \in [Task -> SUBSET Backend]
    /\ found \in [Task -> [Uri -> Backend \union {NoBackend}]]
    /\ \A t \in Task, u \in Uri : \A b \in todo[t] : found[t][u] < b
    /\ lost \in [Task -> SUBSET Everything]

OtherTypes ==
    /\ initialized \in BOOLEAN
    /\ owners \in [Uri -> Backend \union {NoBackend}]
    /\ healthy \subseteq Backend /\ offers \in [Backend -> SUBSET Uri]
    /\ exchange.answer.status \in {0, 200, 202, 400, 404}
    /\ requests \in 0 .. MaxRequests /\ changes \in 0 .. MaxChanges

LEMMA TypeParts == (TypeOK <=> TaskTypes /\ OtherTypes) /\ (TypeOK' <=> TaskTypes' /\ OtherTypes')
  BY DEF TypeOK, TaskTypes, OtherTypes

LEMMA NoOwnersType == NoOwners \in [Uri -> Backend \union {NoBackend}] /\ \A u \in Uri : NoOwners[u] = 0
  BY DEF NoOwners, NoBackend

LEMMA InitTypes == Init => TypeOK
  <1> SUFFICES ASSUME Init PROVE TypeOK
    OBVIOUS
  <1>1. TaskTypes
    BY NoOwnersType DEF Init, TaskTypes
  <1>2. NoExchange.answer.status = 0
    BY DEF NoExchange, Answer
  <1>3. initialized \in BOOLEAN /\ exchange.answer.status = 0
    BY <1>2 DEF Init
  <1>4. requests \in 0 .. MaxRequests /\ changes \in 0 .. MaxChanges
    BY SessionAssumption DEF Init
  <1>5. OtherTypes
    BY <1>3, <1>4, NoOwnersType DEF Init, OtherTypes
  <1> QED BY <1>1, <1>5, TypeParts

\* The answer to one backend: it is passed over, or becomes the owner of what
\* it offers and nobody before it does.
Asked(f, b) == [u \in Uri |-> IF f[u] = NoBackend /\ u \in offers[b] THEN b ELSE f[u]]

LEMMA AskStep ==
    ASSUME TypeOK, NEW t \in Task, Ask(t)
    PROVE  \E b \in todo[t] :
             /\ \A c \in todo[t] : b <= c
             /\ todo' = [todo EXCEPT ![t] = todo[t] \ {b}]
             /\ \/ found' = [found EXCEPT ![t] = Asked(found[t], b)] /\ UNCHANGED lost
                \/ /\ lost' = [lost EXCEPT ![t] = lost[t] \union {x \in Everything : x[1] = b}]
                   /\ UNCHANGED found
  <1>1. todo[t] \in SUBSET Backend /\ todo[t] # {}
    BY DEF Ask, TypeOK
  <1>2. FirstOf(todo[t]) \in todo[t] /\ \A c \in todo[t] : FirstOf(todo[t]) <= c
    BY <1>1, FirstIsFirst
  <1>3. todo' = [todo EXCEPT ![t] = todo[t] \ {FirstOf(todo[t])}]
    BY DEF Ask, TypeOK
  <1>4. \/ found' = [found EXCEPT ![t] = Asked(found[t], FirstOf(todo[t]))] /\ UNCHANGED lost
        \/ /\ lost' = [lost EXCEPT ![t] = lost[t] \union {x \in Everything : x[1] = FirstOf(todo[t])}]
           /\ UNCHANGED found
    BY DEF Ask, Asked, TypeOK
  <1> QED BY <1>2, <1>3, <1>4

LEMMA TaskStepTypes ==
    ASSUME TypeOK, NEW t \in Task, HandleTask(t) \/ \E u \in Uri \union {NoUri} : Begin(t, u)
    PROVE  TypeOK'
  <1>0. TaskTypes /\ OtherTypes
    BY TypeParts
  <1>s. ASSUME UNCHANGED <<initialized, owners, healthy, offers, changes, requests, exchange>> PROVE OtherTypes'
    BY <1>0, <1>s DEF OtherTypes
  <1>1. CASE \E u \in Uri \union {NoUri} : Begin(t, u)
    <2>1. PICK u \in Uri \union {NoUri} : Begin(t, u)
      BY <1>1
    <2>2. OtherTypes'
      <3>1. NoExchange.answer.status = 0
        BY DEF NoExchange, Answer
      <3> QED BY <1>0, <2>1, <3>1, SessionAssumption DEF Begin, OtherTypes, envVars
    <2>3. CASE u # NoUri /\ owners[u] # NoBackend
      BY <1>0, <2>1, <2>2, <2>3, TypeParts DEF Begin, TaskTypes
    <2>4. CASE ~(u # NoUri /\ owners[u] # NoBackend)
      <3>1. /\ pc' = [pc EXCEPT ![t] = "list"] /\ want' = [want EXCEPT ![t] = u]
            /\ todo' = [todo EXCEPT ![t] = BackendsWith] /\ found' = [found EXCEPT ![t] = NoOwners]
            /\ lost' = [lost EXCEPT ![t] = Everything \ OnOffer]
        BY <2>1, <2>4 DEF Begin
      <3>2. \A b \in BackendsWith, v \in Uri : NoOwners[v] < b
        <4>1. \A b \in BackendsWith : b \in Nat /\ 0 < b
          <5>1. BackendsWith \subseteq Backend
            BY <1>0 DEF OtherTypes, BackendsWith
          <5>2. \A b \in Backend : b \in Nat /\ 0 < b
            BY SessionAssumption DEF Backend
          <5> QED BY <5>1, <5>2
        <4> QED BY <4>1, NoOwnersType
      <3>3. BackendsWith \in SUBSET Backend
        BY <1>0 DEF OtherTypes, BackendsWith
      <3>4. TaskTypes'
        BY <1>0, <3>1, <3>2, <3>3, NoOwnersType DEF TaskTypes
      <3> QED BY <2>2, <3>4, TypeParts
    <2> QED BY <2>3, <2>4
  <1>2. CASE Ask(t)
    <2>1. PICK b \in todo[t] :
             /\ \A c \in todo[t] : b <= c
             /\ todo' = [todo EXCEPT ![t] = todo[t] \ {b}]
             /\ \/ found' = [found EXCEPT ![t] = Asked(found[t], b)] /\ UNCHANGED lost
                \/ /\ lost' = [lost EXCEPT ![t] = lost[t] \union {x \in Everything : x[1] = b}]
                   /\ UNCHANGED found
      BY <1>2, AskStep
    <2>2. OtherTypes' /\ UNCHANGED <<pc, want>>
      BY <1>2, <1>s DEF Ask, envVars
    <2>3. todo[t] \subseteq Backend /\ b \in Backend /\ Backend \subseteq Nat /\ found[t] \in [Uri -> Backend \union {NoBackend}]
      BY <1>0 DEF TaskTypes, Backend
    <2>4. ASSUME NEW c \in todo[t] \ {b} PROVE b < c
      <3>1. b <= c /\ b \in Nat /\ c \in Nat /\ b # c
        BY <2>1, <2>3
      <3> QED BY <3>1
    <2>5. \A u \in Uri : \A c \in todo[t] \ {b} : Asked(found[t], b)[u] < c
      BY <1>0, <2>4 DEF TaskTypes, Asked
    <2>6. Asked(found[t], b) \in [Uri -> Backend \union {NoBackend}]
      BY <2>3 DEF Asked
    <2>7. found' \in [Task -> [Uri -> Backend \union {NoBackend}]] /\ todo' \in [Task -> SUBSET Backend]
      BY <1>0, <2>1, <2>6 DEF TaskTypes
    <2>8. \A s \in Task, u \in Uri : \A c \in todo'[s] : found'[s][u] < c
      BY <1>0, <2>1, <2>5 DEF TaskTypes
    <2>9. lost' \in [Task -> SUBSET Everything]
      <3>1. lost \in [Task -> SUBSET Everything]
        BY <1>0 DEF TaskTypes
      <3>2. lost[t] \union {x \in Everything : x[1] = b} \in SUBSET Everything
        BY <3>1
      <3> QED BY <2>1, <3>1, <3>2
    <2> QED BY <1>0, <2>2, <2>7, <2>8, <2>9, TypeParts DEF TaskTypes
  <1>3. CASE Publish(t)
    <2>1. OtherTypes'
      BY <1>0, <1>3 DEF Publish, OtherTypes, TaskTypes, envVars
    <2>2. lost' \in [Task -> SUBSET Everything]
      BY <1>0, <1>3 DEF Publish, TaskTypes
    <2>3. TaskTypes'
      BY <1>0, <1>3, <2>2 DEF Publish, End, TaskTypes
    <2> QED BY <2>1, <2>3, TypeParts
  <1>4. CASE Lookup(t) \/ NotFound(t) \/ Return(t)
    <2>1. OtherTypes'
      BY <1>4, <1>s DEF Lookup, NotFound, Return, envVars
    <2>2. TaskTypes'
      BY <1>0, <1>4 DEF Lookup, NotFound, Return, End, Forget, TaskTypes
    <2> QED BY <2>1, <2>2, TypeParts
  <1>5. CASE Cancel(t)
    <2>1. OtherTypes'
      BY <1>5, <1>s DEF Cancel, envVars
    <2>2. TaskTypes'
      BY <1>0, <1>5 DEF Cancel, End, Forget, TaskTypes
    <2> QED BY <2>1, <2>2, TypeParts
  <1> QED BY <1>1, <1>2, <1>3, <1>4, <1>5 DEF HandleTask

LEMMA NextTypes == TypeOK /\ [Next]_vars => TypeOK'
  <1> SUFFICES ASSUME TypeOK, [Next]_vars PROVE TypeOK'
    OBVIOUS
  <1>0. TaskTypes /\ OtherTypes
    BY TypeParts
  <1>1. ASSUME Exchange PROVE TypeOK'
    <2>1. PICK body, method, version, header, result : Post(body, method, version, header, result)
      BY <1>1, Zenon DEF Exchange
    <2>2. UNCHANGED <<owners, envVars, taskVars, lost>> /\ initialized' \in BOOLEAN
      BY <1>0, <2>1 DEF Post, OtherTypes
    <2>3. exchange'.answer = HandleMcp(body, method, version, header, result)
      BY <2>1 DEF Post
    <2>4. HandleMcp(body, method, version, header, result).status \in {200, 202, 400, 404}
      BY DEF HandleMcp, Answer, ModernStatus
    <2>5. TaskTypes'
      BY <1>0, <2>2 DEF TaskTypes, taskVars
    <2>6. OtherTypes'
      BY <1>0, <2>2, <2>3, <2>4 DEF OtherTypes, envVars, taskVars
    <2> QED BY <2>5, <2>6, TypeParts
  <1>2. ASSUME Change PROVE TypeOK'
    <2>1. lost' \in [Task -> SUBSET Everything] /\ UNCHANGED <<initialized, owners, taskVars, exchange>>
      BY <1>0, <1>2 DEF Change, TaskTypes
    <2>2. healthy' \subseteq Backend /\ offers' \in [Backend -> SUBSET Uri] /\ changes' \in 0 .. MaxChanges
      BY <1>0, <1>2, SessionAssumption DEF Change, OtherTypes
    <2>3. TaskTypes'
      BY <1>0, <2>1 DEF TaskTypes, taskVars
    <2>4. OtherTypes'
      BY <1>0, <2>1, <2>2 DEF OtherTypes, taskVars
    <2> QED BY <2>3, <2>4, TypeParts
  <1>3. ASSUME UNCHANGED vars PROVE TypeOK'
    <2>1. TaskTypes' /\ OtherTypes'
      BY <1>0, <1>3 DEF TaskTypes, OtherTypes, vars, envVars, taskVars
    <2> QED BY <2>1, TypeParts
  <1> QED BY <1>1, <1>2, <1>3, TaskStepTypes DEF Next

\* The session's state has its types, whoever lists, reads and posts at a time;
\* a resource belongs to the first of the backends that list it.
THEOREM TypeCorrect == Spec => []TypeOK
  BY InitTypes, NextTypes, PTL DEF Spec

-----------------------------------------------------------------------------
(* Resources that are not found.                                           *)

\* What a listing has not found was not on offer all the time since it began.
ListingMisses(t) ==
    \A b \in Backend, u \in Uri : found[t][u] = NoBackend /\ b \notin todo[t] => <<b, u>> \in lost[t]

\* A task that lists, or has listed and has yet to look its URI up, has reason to
\* miss what is not on offer, what its listing has not found, or what the owners
\* it will look into have not.
LossesInv ==
    \A t \in Task :
        /\ pc[t] \in {"list", "lookup"} => Everything \ OnOffer \subseteq lost[t]
        /\ pc[t] = "list" => ListingMisses(t)
        /\ pc[t] = "lookup" => \A b \in Backend, u \in Uri : owners[u] = NoBackend => <<b, u>> \in lost[t]

LEMMA TaskLosses ==
    ASSUME TypeOK, LossesInv, NEW t \in Task, HandleTask(t) \/ \E u \in Uri \union {NoUri} : Begin(t, u)
    PROVE  LossesInv'
  <1>0. TaskTypes /\ OtherTypes
    BY TypeParts
  <1>e. UNCHANGED OnOffer
    BY DEF HandleTask, Begin, Ask, Publish, Lookup, NotFound, Return, Cancel, OnOffer, envVars
  <1>o. ASSUME NEW s \in Task, UNCHANGED <<owners, pc[s], todo[s], found[s], lost[s]>>
        PROVE  /\ pc'[s] \in {"list", "lookup"} => Everything \ OnOffer' \subseteq lost'[s]
               /\ pc'[s] = "list" => ListingMisses(s)'
               /\ pc'[s] = "lookup" => \A b \in Backend, u \in Uri : owners'[u] = NoBackend => <<b, u>> \in lost'[s]
    BY <1>e, <1>o DEF LossesInv, ListingMisses
  <1>1. CASE \E u \in Uri \union {NoUri} : Begin(t, u)
    <2>1. PICK u \in Uri \union {NoUri} : Begin(t, u)
      BY <1>1
    <2>2. ASSUME NEW s \in Task \ {t} PROVE UNCHANGED <<owners, pc[s], todo[s], found[s], lost[s]>>
      BY <1>0, <2>1 DEF Begin, TaskTypes
    <2>3. CASE u # NoUri /\ owners[u] # NoBackend
      <3>1. pc'[t] = "forward"
        BY <1>0, <2>1, <2>3 DEF Begin, TaskTypes
      <3> QED BY <1>o, <2>2, <3>1 DEF LossesInv
    <2>4. CASE ~(u # NoUri /\ owners[u] # NoBackend)
      <3>1. pc'[t] = "list" /\ todo'[t] = healthy /\ lost'[t] = Everything \ OnOffer
        BY <1>0, <2>1, <2>4 DEF Begin, TaskTypes, BackendsWith
      <3>2. \A b \in Backend, v \in Uri : b \notin healthy => <<b, v>> \in Everything \ OnOffer
        BY DEF Everything, OnOffer
      <3> QED BY <1>e, <1>o, <2>2, <3>1, <3>2 DEF LossesInv, ListingMisses
    <2> QED BY <2>3, <2>4
  <1>2. CASE Ask(t)
    <2>1. PICK b \in todo[t] :
             /\ todo' = [todo EXCEPT ![t] = todo[t] \ {b}]
             /\ \/ found' = [found EXCEPT ![t] = Asked(found[t], b)] /\ UNCHANGED lost
                \/ /\ lost' = [lost EXCEPT ![t] = lost[t] \union {x \in Everything : x[1] = b}]
                   /\ UNCHANGED found
      BY <1>2, AskStep
    <2>2. UNCHANGED <<owners, pc>> /\ pc[t] = "list" /\ b \in Backend /\ 0 \notin Backend
      BY <1>0, <1>2, <2>1 DEF Ask, TaskTypes, Backend
    <2>3. ASSUME NEW s \in Task \ {t} PROVE UNCHANGED <<owners, pc[s], todo[s], found[s], lost[s]>>
      BY <1>0, <2>1, <2>2 DEF TaskTypes
    <2>4. lost[t] \subseteq lost'[t] /\ todo'[t] = todo[t] \ {b}
      BY <1>0, <2>1 DEF TaskTypes
    <2>5. ASSUME NEW c \in Backend, NEW u \in Uri, found'[t][u] = NoBackend, c \notin todo'[t]
          PROVE  <<c, u>> \in lost'[t]
      <3>1. <<c, u>> \in Everything
        BY DEF Everything
      <3>2. CASE found' = [found EXCEPT ![t] = Asked(found[t], b)] /\ UNCHANGED lost
        <4>1. found'[t] = Asked(found[t], b)
          BY <1>0, <3>2 DEF TaskTypes
        <4>2. found[t][u] = NoBackend /\ u \notin offers[b]
          BY <2>2, <2>5, <4>1 DEF Asked, NoBackend
        <4>3. c = b => <<c, u>> \in Everything \ OnOffer
          BY <3>1, <4>2 DEF OnOffer
        <4> QED BY <2>2, <2>4, <2>5, <4>2, <4>3 DEF LossesInv, ListingMisses
      <3>3. CASE lost' = [lost EXCEPT ![t] = lost[t] \union {x \in Everything : x[1] = b}] /\ UNCHANGED found
        <4>1. c = b => <<c, u>> \in lost'[t]
          BY <1>0, <3>1, <3>3 DEF TaskTypes
        <4> QED BY <2>2, <2>4, <2>5, <3>3, <4>1 DEF LossesInv, ListingMisses
      <3> QED BY <2>1, <3>2, <3>3
    <2>6. Everything \ OnOffer' \subseteq lost'[t]
      BY <1>e, <2>2, <2>4 DEF LossesInv
    <2> QED BY <1>o, <2>2, <2>3, <2>5, <2>6 DEF LossesInv, ListingMisses
  <1>3. CASE Publish(t)
    <2>1. /\ pc[t] = "list" /\ todo[t] = {} /\ owners' = found[t] /\ UNCHANGED <<todo, found>>
          /\ pc' = [pc EXCEPT ![t] = IF want[t] = NoUri THEN "idle" ELSE "lookup"]
          /\ lost' = [s \in Task |-> IF s = t THEN (IF want[t] = NoUri THEN {} ELSE lost[t])
                                     ELSE IF pc[s] = "lookup" THEN lost[s] \union lost[t] ELSE lost[s]]
      BY <1>3 DEF Publish, End
    <2>2. \A c \in Backend, u \in Uri : owners'[u] = NoBackend => <<c, u>> \in lost[t]
      BY <2>1 DEF LossesInv, ListingMisses
    <2>3. \A s \in Task \ {t} :
             pc'[s] = pc[s] /\ lost[s] \subseteq lost'[s] /\ (pc[s] = "lookup" => lost[t] \subseteq lost'[s])
      BY <1>0, <2>1 DEF TaskTypes
    <2>4. pc'[t] # "idle" => pc'[t] = "lookup" /\ lost'[t] = lost[t]
      BY <1>0, <2>1 DEF TaskTypes
    <2>5. pc'[t] \in {"idle", "lookup"}
      BY <1>0, <2>1 DEF TaskTypes
    <2>6. Everything \ OnOffer \subseteq lost[t]
      BY <2>1 DEF LossesInv
    <2> QED BY <1>e, <2>1, <2>2, <2>3, <2>4, <2>5, <2>6 DEF LossesInv, ListingMisses
  <1>4. CASE Lookup(t) \/ NotFound(t) \/ Return(t) \/ Cancel(t)
    <2>1. pc'[t] \in {"forward", "idle"}
      BY <1>0, <1>4 DEF Lookup, NotFound, Return, Cancel, End, TaskTypes
    <2>2. ASSUME NEW s \in Task \ {t} PROVE UNCHANGED <<owners, pc[s], todo[s], found[s], lost[s]>>
      BY <1>0, <1>4 DEF Lookup, NotFound, Return, Cancel, End, Forget, TaskTypes
    <2> QED BY <1>o, <2>1, <2>2 DEF LossesInv
  <1> QED BY <1>1, <1>2, <1>3, <1>4 DEF HandleTask

LEMMA NextLosses == TypeOK /\ LossesInv /\ [Next]_vars => LossesInv'
  <1> SUFFICES ASSUME TypeOK, LossesInv, [Next]_vars PROVE LossesInv'
    OBVIOUS
  <1>1. ASSUME UNCHANGED <<owners, healthy, offers, pc, todo, found, lost>> PROVE LossesInv'
    BY <1>1 DEF LossesInv, ListingMisses, OnOffer
  <1>2. CASE Exchange
    BY <1>1, <1>2 DEF Exchange, Post, envVars, taskVars
  <1>3. CASE Change
    <2>1. /\ UNCHANGED <<owners, pc, todo, found>>
          /\ lost' = [t \in Task |-> IF pc[t] \in {"list", "lookup"} THEN lost[t] \union (Everything \ OnOffer')
                                     ELSE lost[t]]
      BY <1>3 DEF Change, taskVars
    <2>2. \A t \in Task : pc[t] \in {"list", "lookup"} =>
             lost[t] \subseteq lost'[t] /\ Everything \ OnOffer' \subseteq lost'[t]
      BY <2>1
    <2> QED BY <2>1, <2>2 DEF LossesInv, ListingMisses
  <1>4. CASE UNCHANGED vars
    BY <1>1, <1>4 DEF vars, envVars, taskVars
  <1> QED BY <1>2, <1>3, <1>4, TaskLosses DEF Next

\* However many clients list and read at a time, and however the backends and
\* their offers change meanwhile, a read that ends "not found" had reason to.
THEOREM NotFoundHadReason == Spec => NotFoundIsTrue
  <1>1. Init => LossesInv
    BY DEF Init, LossesInv
  <1>2. TypeOK /\ LossesInv /\ [Next]_vars =>
           [\A t \in Task : pc[t] = "lookup" /\ pc'[t] = "idle" => \A b \in Backend : <<b, want[t]>> \in lost[t]]_vars
    <2> SUFFICES ASSUME TypeOK, LossesInv, Next,
                        NEW t \in Task, pc[t] = "lookup", pc'[t] = "idle", NEW b \in Backend
                 PROVE  <<b, want[t]>> \in lost[t]
      BY Zenon
    <2>1. pc \in [Task -> {"idle", "list", "lookup", "forward"}] /\ want[t] \in Uri
      BY DEF TypeOK
    <2>2. NotFound(t)
      BY <2>1
         DEF Next, HandleTask, Begin, Ask, Publish, Lookup, NotFound, Return, Cancel, End, Exchange,
             Post, Change, taskVars
    <2> QED BY <2>1, <2>2 DEF NotFound, LossesInv
  <1> QED BY <1>1, <1>2, InitTypes, NextTypes, NextLosses, PTL DEF Spec, NotFoundIsTrue

-----------------------------------------------------------------------------
(* Answers.                                                                *)

Body == Messages \union {Request}

\* The fields of a message, with what they may be.
LEMMA BodyFields ==
    ASSUME NEW o \in Body
    PROVE  /\ \A f \in {"jsonrpc", "method", "id", "result", "error"} :
                 (f \in DOMAIN o <=> Field(o, f) # "absent") /\ (f \in DOMAIN o => o[f] = Field(o, f))
           /\ Field(o, "method") \in {"absent", "string", "null"}
           /\ Field(o, "id") \in {"absent", "int", "string", "number", "null"}
           /\ Field(o, "result") \in {"absent", "object"}
           /\ Field(o, "error") \in {"absent", "object", "string"}
  <1>1. CASE o \in Messages
    <2>1. PICK r \in [jsonrpc : {"absent", "2.0", "string"}, method : {"absent", "string", "null"},
                      id : {"absent", "int", "string", "number", "null"},
                      result : {"absent", "object"}, error : {"absent", "object", "string"}] :
             o = [f \in {g \in DOMAIN r : r[g] # "absent"} |-> r[f]]
      BY <1>1 DEF Messages
    <2>2. DOMAIN r = {"jsonrpc", "method", "id", "result", "error"}
      BY <2>1
    <2>3. \A f \in DOMAIN r : (f \in DOMAIN o <=> r[f] # "absent") /\ (f \in DOMAIN o => o[f] = r[f])
      BY <2>1
    <2>4. \A f \in DOMAIN r : Field(o, f) = r[f]
      BY <2>3 DEF Field
    <2> QED BY <2>1, <2>2, <2>3, <2>4
  <1>2. CASE o = Request
    <2>1. /\ DOMAIN o = {"jsonrpc", "method", "id"}
          /\ o.jsonrpc = "2.0" /\ o.method = "string" /\ o.id = "int"
      BY <1>2 DEF Request
    <2> QED BY <2>1 DEF Field
  <1> QED BY <1>1, <1>2 DEF Body

\* What a message is taken for is what its shape says.
LEMMA BodyDecoded ==
    ASSUME NEW o \in Body
    PROVE  /\ DecodeValue(o).kind \in {"request", "notification", "success", "error", "invalid"}
           /\ IsRequest(o) <=> DecodeValue(o).kind = "request"
           /\ IsOneWay(o) <=> DecodeValue(o).kind \in {"notification", "success", "error"}
           /\ IsRequest(o) => DecodeValue(o).id = o.id /\ o.id \in {"int", "string"}
  <1> DEFINE has(f) == Field(o, f) # "absent"
  <1>0. /\ \A f \in {"jsonrpc", "method", "id", "result", "error"} :
              (f \in DOMAIN o <=> has(f)) /\ (has(f) => o[f] = Field(o, f))
        /\ Field(o, "method") \in {"absent", "string", "null"}
        /\ Field(o, "id") \in {"absent", "int", "string", "number", "null"}
        /\ Field(o, "error") \in {"absent", "object", "string"}
    BY BodyFields
  <1>1. CASE Field(o, "jsonrpc") # "2.0"
    BY <1>1 DEF DecodeValue, Invalid, IsRequest, IsOneWay
  <1>2. CASE Field(o, "jsonrpc") = "2.0" /\ has("method")
    <2>1. DecodeValue(o) = DecodeRequestOrNotification(o) /\ o.method = Field(o, "method") /\ "method" \in DOMAIN o
      BY <1>0, <1>2 DEF DecodeValue
    <2>2. ("id" \in DOMAIN o <=> has("id")) /\ (has("id") => o.id = Field(o, "id"))
      BY <1>0
    <2> QED BY <1>0, <1>2, <2>1, <2>2
            DEF DecodeRequestOrNotification, ParseId, Invalid, IsRequest, IsOneWay
  <1>3. CASE Field(o, "jsonrpc") = "2.0" /\ ~has("method")
    <2>1. DecodeValue(o) = DecodeResponse(o) /\ Field(o, "method") = "absent" /\ "method" \notin DOMAIN o
      BY <1>0, <1>3 DEF DecodeValue
    <2>2. /\ ("result" \in DOMAIN o <=> has("result")) /\ ("error" \in DOMAIN o <=> has("error"))
          /\ has("error") => o.error = Field(o, "error")
      BY <1>0
    <2> QED BY <1>0, <1>3, <2>1, <2>2 DEF DecodeResponse, ParseId, Invalid, IsRequest, IsOneWay
  <1> QED BY <1>1, <1>2, <1>3

\* What the hub sends is decoded as what it is, and its replies can be told apart.
LEMMA RepliesDecoded ==
    /\ \A id \in {"int", "string"} : DecodeValue(Success(id)) = [kind |-> "success", id |-> id]
    /\ \A id \in {"int", "string", "null"} : DecodeValue(Error(id)) = [kind |-> "error", id |-> id]
    /\ \A id : Success(id) # NoReply /\ Error(id) # NoReply /\ Error(id).jsonrpc = "2.0"
    /\ \A i, j : Error(i) # Success(j)
    /\ DecodeValue(NoReply).kind = "invalid"
  <1>1. ASSUME NEW id \in {"int", "string"} PROVE DecodeValue(Success(id)) = [kind |-> "success", id |-> id]
    BY <1>1 DEF DecodeValue, DecodeResponse, Field, ParseId, Success
  <1>2. ASSUME NEW id \in {"int", "string", "null"} PROVE DecodeValue(Error(id)) = [kind |-> "error", id |-> id]
    BY <1>2 DEF DecodeValue, DecodeResponse, Field, ParseId, Error
  <1>3. ASSUME NEW id PROVE Success(id) # NoReply /\ Error(id) # NoReply /\ Error(id).jsonrpc = "2.0"
    <2>1. Success(id).jsonrpc = "2.0" /\ Error(id).jsonrpc = "2.0" /\ NoReply.jsonrpc = "none"
      BY DEF Success, Error, NoReply
    <2> QED BY <2>1
  <1>4. ASSUME NEW i, NEW j PROVE Error(i) # Success(j)
    <2>1. "error" \in DOMAIN Error(i) /\ "error" \notin DOMAIN Success(j)
      BY DEF Success, Error
    <2> QED BY <2>1
  <1>5. DecodeValue(NoReply).kind = "invalid"
    BY DEF DecodeValue, Field, NoReply, Invalid
  <1> QED BY <1>1, <1>2, <1>3, <1>4, <1>5

\* Marking a result for caching.
LEMMA MarkedResult ==
    ASSUME NEW result \in Mark, NEW method, NEW sent, sent = MarkCacheable(method, MarkComplete(result))
    PROVE  /\ sent.resultType # "absent"
           /\ IF method \in Cacheable /\ sent.resultType = "complete"
                THEN sent.cacheScope = "private" /\ sent.ttlMs # "absent"
                ELSE [sent EXCEPT !.resultType = result.resultType] = result
  <1> DEFINE m == MarkComplete(result)
  <1>1. /\ m \in Mark /\ m.resultType # "absent"
        /\ [m EXCEPT !.resultType = result.resultType] = result
    BY DEF MarkComplete, Mark
  <1>2. sent = MarkCacheable(method, m)
    OBVIOUS
  <1> HIDE DEF m
  <1> QED BY <1>1, <1>2 DEF MarkCacheable, Mark

\* The ways a message is answered.
LEMMA Handled ==
    ASSUME NEW body \in Body, NEW method, NEW version \in Version, NEW header, NEW result
    PROVE  LET m == DecodeValue(body)
               answer == HandleMcp(body, method, version, header, result)
           IN \/ m.kind = "invalid" /\ answer = Answer(200, Error("null"), Unmarked)
              \/ m.kind \in {"notification", "success", "error"} /\ answer = Answer(202, NoReply, Unmarked)
              \/ /\ m.kind = "request" /\ answer.reply = Error(m.id)
                 /\ answer.status = 200 \/ (answer.status \in {400, 404} /\ version # Legacy)
              \/ /\ m.kind = "request" /\ answer = Answer(200, NoReply, Unmarked)
                 /\ method = "subscriptions/listen" /\ version = header
              \/ /\ m.kind = "request" /\ answer.status = 200 /\ answer.reply = Success(m.id)
                 /\ version \in {Legacy, header}
                 /\ version # Legacy => answer.result = MarkCacheable(method, MarkComplete(result))
  <1> DEFINE m == DecodeValue(body)
             answer == HandleMcp(body, method, version, header, result)
  <1>0. m.kind \in {"request", "notification", "success", "error", "invalid"}
    BY BodyDecoded
  <1>1. CASE m.kind # "request"
    BY <1>0, <1>1 DEF HandleMcp
  <1>2. CASE m.kind = "request" /\ ~HeaderAgrees(version, header)
    <2>1. answer = Answer(400, Error(m.id), Unmarked) /\ version # Legacy
      BY <1>2 DEF HandleMcp, HeaderAgrees
    <2> QED BY <1>2, <2>1 DEF Answer
  <1>3. CASE m.kind = "request" /\ HeaderAgrees(version, header) /\ Refusal(method, version) # "none"
    <2>1. answer = Answer(ModernStatus(version, Refusal(method, version)), Error(m.id), Unmarked)
      BY <1>3 DEF HandleMcp
    <2>2. ASSUME NEW refusal
          PROVE  \/ ModernStatus(version, refusal) = 200
                 \/ ModernStatus(version, refusal) \in {400, 404} /\ version # Legacy
      <3>1. CASE version = Legacy
        BY <3>1, Zenon DEF ModernStatus
      <3>2. CASE version # Legacy /\ refusal = "unsupported version"
        BY <3>2, Zenon DEF ModernStatus
      <3>3. CASE version # Legacy /\ refusal # "unsupported version" /\ refusal = "method not found"
        <4>1. ModernStatus(version, refusal) = 404
          BY <3>3, Zenon DEF ModernStatus
        <4> QED BY <3>3, <4>1
      <3>4. CASE version # Legacy /\ refusal # "unsupported version" /\ refusal # "method not found"
        <4>1. ModernStatus(version, refusal) = 200
          BY <3>4 DEF ModernStatus
        <4> QED BY <4>1
      <3> QED BY <3>1, <3>2, <3>3, <3>4, Zenon
    <2> QED BY <1>3, <2>1, <2>2 DEF Answer
  <1>4. CASE /\ m.kind = "request" /\ HeaderAgrees(version, header) /\ Refusal(method, version) = "none"
             /\ method = "subscriptions/listen"
    <2>1. answer = Answer(200, NoReply, Unmarked)
      BY <1>4 DEF HandleMcp
    <2>2. version # Legacy
      BY <1>4 DEF Refusal
    <2> QED BY <1>4, <2>1, <2>2 DEF HeaderAgrees
  <1>5. CASE /\ m.kind = "request" /\ HeaderAgrees(version, header) /\ Refusal(method, version) = "none"
             /\ method # "subscriptions/listen"
    <2>1. answer = Answer(200, Success(m.id), IF version = Legacy THEN result
                                              ELSE MarkCacheable(method, MarkComplete(result)))
      BY <1>5 DEF HandleMcp
    <2> QED BY <1>5, <2>1 DEF Answer, HeaderAgrees
  <1> QED BY <1>1, <1>2, <1>3, <1>4, <1>5

LEMMA PostIsFit ==
    ASSUME NEW body \in Body, NEW method, NEW version \in Version, NEW header, NEW result \in Mark,
           Post(body, method, version, header, result)
    PROVE  AnswersAreFit'
  <1> DEFINE m == DecodeValue(body)
             answer == HandleMcp(body, method, version, header, result)
  <1>1. /\ exchange'.body = body /\ exchange'.method = method /\ exchange'.version = version
        /\ exchange'.header = header /\ exchange'.result = result /\ exchange'.answer = answer
    BY DEF Post
  <1>2. /\ m.kind \in {"request", "notification", "success", "error", "invalid"}
        /\ IsRequest(body) <=> m.kind = "request"
        /\ IsOneWay(body) <=> m.kind \in {"notification", "success", "error"}
        /\ IsRequest(body) => m.id = body.id /\ body.id \in {"int", "string"}
    BY BodyDecoded
  <1>3. \A s, r, u : Answer(s, r, u).status = s /\ Answer(s, r, u).reply = r
    BY DEF Answer
  <1>4. \/ m.kind = "invalid" /\ answer.status = 200 /\ answer.reply = Error("null")
        \/ m.kind \in {"notification", "success", "error"} /\ answer.status = 202 /\ answer.reply = NoReply
        \/ /\ m.kind = "request" /\ answer.reply = Error(m.id)
           /\ answer.status = 200 \/ (answer.status \in {400, 404} /\ version # Legacy)
        \/ /\ m.kind = "request" /\ answer.status = 200 /\ answer.reply = NoReply
           /\ method = "subscriptions/listen" /\ version = header
        \/ /\ m.kind = "request" /\ answer.status = 200 /\ answer.reply = Success(m.id)
           /\ version \in {Legacy, header}
           /\ version # Legacy => answer.result = MarkCacheable(method, MarkComplete(result))
    BY <1>3, Handled
  <1> HIDE DEF m, answer
  <1>5. ReplyFitsItsMessage'
    <2> DEFINE decoded == DecodeValue(answer.reply)
               stream == answer.status = 200 /\ answer.reply = NoReply
    <2>1. /\ stream => IsRequest(body) /\ method = "subscriptions/listen" /\ version = header
          /\ IsRequest(body) /\ ~stream => decoded.id = body.id /\ decoded.kind \in {"success", "error"}
          /\ IsOneWay(body) <=> answer.status = 202 /\ answer.reply = NoReply
          /\ ~IsRequest(body) /\ ~IsOneWay(body) => decoded = [kind |-> "error", id |-> "null"]
          /\ answer.status \in {400, 404} => version # Legacy /\ decoded.kind = "error"
          /\ decoded.kind = "success" => version \in {Legacy, header}
      BY <1>2, <1>4, RepliesDecoded
    <2> HIDE DEF decoded, stream
    <2>2. /\ decoded = DecodeValue(exchange'.answer.reply)
          /\ stream <=> exchange'.answer.status = 200 /\ exchange'.answer.reply = NoReply
      BY <1>1 DEF decoded, stream
    <2> QED BY <1>1, <2>1, <2>2 DEF ReplyFitsItsMessage
  <1>6. CacheIsPrivate'
    <2>1. SUFFICES ASSUME version # Legacy, answer.status = 200, answer.reply = Success("int")
                   PROVE  LET sent == answer.result IN
                          /\ sent.resultType # "absent"
                          /\ IF method \in Cacheable /\ sent.resultType = "complete"
                               THEN sent.cacheScope = "private" /\ sent.ttlMs # "absent"
                               ELSE [sent EXCEPT !.resultType = result.resultType] = result
      BY <1>1 DEF CacheIsPrivate
    <2>2. answer.result = MarkCacheable(method, MarkComplete(result))
      BY <1>4, <2>1, RepliesDecoded
    <2> QED BY <2>2, MarkedResult
  <1> QED BY <1>5, <1>6 DEF AnswersAreFit

\* Whatever is posted, of whatever revision and with whatever header, the answer
\* fits it, and no result is marked so that it may be kept for others.
THEOREM AnswersFit == Spec => []AnswersAreFit
  <1>1. exchange = NoExchange => AnswersAreFit
    BY DEF AnswersAreFit, ReplyFitsItsMessage, CacheIsPrivate, NoExchange
  <1>2. ASSUME AnswersAreFit, [Next]_vars PROVE AnswersAreFit'
    <2>1. CASE exchange' = exchange
      BY <1>2, <2>1 DEF AnswersAreFit, ReplyFitsItsMessage, CacheIsPrivate
    <2>2. CASE exchange' = NoExchange
      BY <2>2 DEF AnswersAreFit, ReplyFitsItsMessage, CacheIsPrivate, NoExchange
    <2>3. CASE Exchange
      <3>1. CASE \E body \in Messages : Post(body, "tools/list", Legacy, Legacy, Unmarked)
        <4>1. PICK body \in Messages : Post(body, "tools/list", Legacy, Legacy, Unmarked)
          BY <3>1
        <4>2. body \in Body /\ Legacy \in Version /\ Unmarked \in Mark
          BY DEF Body, Version, Unmarked, Mark
        <4> QED BY <4>1, <4>2, PostIsFit
      <3>2. CASE \E method \in Immediate, version \in Version, header \in Version, result \in Mark :
                    Post(Request, method, version, header, result)
        <4>1. Request \in Body
          BY DEF Body
        <4> QED BY <3>2, <4>1, PostIsFit
      <3> QED BY <2>3, <3>1, <3>2 DEF Exchange
    <2>4. ASSUME NEW t \in Task, HandleTask(t) PROVE exchange' = exchange
      BY <2>4 DEF HandleTask, Ask, Publish, Lookup, NotFound, Return, Cancel
    <2>5. ASSUME NEW t \in Task, NEW u, Begin(t, u) PROVE exchange' = NoExchange
      BY <2>5 DEF Begin
    <2>6. CASE Change \/ UNCHANGED vars
      BY <2>1, <2>6 DEF Change, vars
    <2> QED BY <1>2, <2>1, <2>2, <2>3, <2>4, <2>5, <2>6 DEF Next
  <1>3. Init => AnswersAreFit
    BY <1>1 DEF Init
  <1> QED BY <1>2, <1>3, PTL DEF Spec

-----------------------------------------------------------------------------
(* Arguments.                                                              *)

CallInv ==
    \E pin, deny \in SUBSET Arg, schema \in Schema, args \in Arguments :
        call = [def |-> [pin_args |-> pin, deny_args |-> deny], schema |-> schema, args |-> args]

\* The arguments of a call: for an object, some of the names.
LEMMA ArgumentsShape ==
    ASSUME NEW args \in Arguments
    PROVE  /\ args.kind \in {"none", "object", "other"}
           /\ DOMAIN args.map \subseteq Arg
           /\ \A k \in DOMAIN args.map : args.map[k] = "client"
  BY DEF Arguments, Object, NoMap

LEMMA SchemaShape ==
    ASSUME NEW schema \in Schema
    PROVE  schema.required \subseteq schema.properties
  BY DEF Schema

\* What reaches the backend has the pinned and the given arguments.
LEMMA PolicyApplied ==
    ASSUME NEW def, NEW args
    PROVE  \/ def.pin_args \union def.deny_args = {} /\ ApplyArgPolicy(def, args) = args
           \/ /\ args.kind = "other" \/ def.deny_args \cap DOMAIN args.map # {}
              /\ ApplyArgPolicy(def, args).kind = "refused"
           \/ /\ args.kind # "other" /\ def.deny_args \cap DOMAIN args.map = {}
              /\ ApplyArgPolicy(def, args).kind = "object"
              /\ DOMAIN ApplyArgPolicy(def, args).map = def.pin_args \union DOMAIN args.map
              /\ \A k \in def.pin_args : ApplyArgPolicy(def, args).map[k] = "pinned"
              /\ \A k \in DOMAIN args.map \ def.pin_args : ApplyArgPolicy(def, args).map[k] = args.map[k]
  <1> DEFINE pin == def.pin_args
             deny == def.deny_args
  <1>1. CASE pin \union deny = {}
    BY <1>1 DEF ApplyArgPolicy
  <1>2. CASE pin \union deny # {} /\ (args.kind = "other" \/ deny \cap DOMAIN args.map # {})
    <2>1. ApplyArgPolicy(def, args) = Refused
      BY <1>2 DEF ApplyArgPolicy
    <2> QED BY <1>2, <2>1 DEF Refused
  <1>3. CASE pin \union deny # {} /\ ~(args.kind = "other" \/ deny \cap DOMAIN args.map # {})
    <2>1. ApplyArgPolicy(def, args) =
            Object([k \in pin \union DOMAIN args.map |-> IF k \in pin THEN "pinned" ELSE args.map[k]])
      BY <1>3 DEF ApplyArgPolicy
    <2> QED BY <1>3, <2>1 DEF Object
  <1> QED BY <1>1, <1>2, <1>3

LEMMA CallKeepsPolicy == CallInv => PolicyHolds
  <1> SUFFICES ASSUME CallInv PROVE PolicyHolds
    OBVIOUS
  <1>1. PICK pin \in SUBSET Arg, deny \in SUBSET Arg, schema \in Schema, args \in Arguments :
           call = [def |-> [pin_args |-> pin, deny_args |-> deny], schema |-> schema, args |-> args]
    BY DEF CallInv
  <1>2. /\ call.def = [pin_args |-> pin, deny_args |-> deny]
        /\ call.def.pin_args = pin /\ call.def.deny_args = deny
        /\ call.schema = schema /\ call.args = args
    BY <1>1
  <1>3. Forwarded = ApplyArgPolicy(call.def, args)
    BY <1>2 DEF Forwarded
  <1>4. \/ pin \union deny = {} /\ Forwarded = args
        \/ (args.kind = "other" \/ deny \cap DOMAIN args.map # {}) /\ Forwarded.kind = "refused"
        \/ /\ args.kind # "other" /\ deny \cap DOMAIN args.map = {}
           /\ Forwarded.kind = "object"
           /\ DOMAIN Forwarded.map = pin \union DOMAIN args.map
           /\ \A k \in pin : Forwarded.map[k] = "pinned"
           /\ \A k \in DOMAIN args.map \ pin : Forwarded.map[k] = args.map[k]
    BY <1>2, <1>3, PolicyApplied
  <1>5. ArgumentPolicyHolds
    <2> SUFFICES ASSUME Forwarded.kind # "refused"
                 PROVE  /\ \A k \in pin : k \in DOMAIN Forwarded.map /\ Forwarded.map[k] = "pinned"
                        /\ \A k \in deny \cap DOMAIN Forwarded.map : Forwarded.map[k] = "pinned"
      BY <1>2 DEF ArgumentPolicyHolds
    <2> QED BY <1>4
  <1>6. ListedIsCallable
    <2> DEFINE listed == StripSchemaArgs(schema, HiddenArgs(call.def))
    <2>1. /\ listed.properties = schema.properties \ (pin \union deny)
          /\ listed.required = schema.required \ (pin \union deny)
      BY <1>2 DEF StripSchemaArgs, HiddenArgs
    <2>2. listed.required \subseteq listed.properties
      BY <2>1, SchemaShape
    <2>3. ASSUME args.kind = "object", DOMAIN args.map \subseteq listed.properties,
                 listed.required \subseteq DOMAIN args.map
          PROVE  /\ Forwarded.kind = "object"
                 /\ \A k \in DOMAIN args.map : Forwarded.map[k] = "client"
                 /\ schema.required \ (deny \ pin) \subseteq DOMAIN Forwarded.map
      <3>1. (pin \union deny) \cap DOMAIN args.map = {}
        BY <2>1, <2>3
      <3>2. schema.required \subseteq pin \union deny \union DOMAIN args.map
        BY <2>1, <2>3
      <3>3. \A k \in DOMAIN args.map : args.map[k] = "client"
        BY ArgumentsShape
      <3> HIDE DEF listed
      <3> QED BY <1>4, <2>3, <3>1, <3>2, <3>3
    <2> QED BY <1>2, <2>2, <2>3 DEF ListedIsCallable
  <1> QED BY <1>5, <1>6 DEF PolicyHolds

LEMMA NoCallIsACall == call = NoCall => CallInv
  <1> SUFFICES ASSUME call = NoCall PROVE CallInv
    OBVIOUS
  <1>1. NoMap = [k \in {} |-> "client"]
    BY DEF NoMap
  <1>2. Object(NoMap) \in Arguments
    BY <1>1 DEF Arguments
  <1>3. [properties |-> {}, required |-> {}] \in Schema
    <2>1. [properties |-> {}, required |-> {}] \in [properties : {{}}, required : SUBSET {}]
      OBVIOUS
    <2> QED BY <2>1 DEF Schema
  <1>4. {} \in SUBSET Arg
    OBVIOUS
  <1> QED BY <1>2, <1>3, <1>4 DEF CallInv, NoCall

\* A backend always gets its pinned arguments and none that its configuration
\* denies, and a client that keeps to the listed schema is never refused
\* (apply_arg_policy and strip_schema_args), whatever is pinned, denied,
\* required and sent.
THEOREM ArgumentsFollowPolicy == PolicySpec => []PolicyHolds
  <1>1. PolicyInit => CallInv
    BY NoCallIsACall DEF PolicyInit
  <1>2. CallInv /\ [PolicyNext]_policyVars => CallInv'
    <2> SUFFICES ASSUME CallInv, [PolicyNext]_policyVars PROVE CallInv'
      OBVIOUS
    <2>1. CASE UNCHANGED call
      BY <2>1 DEF CallInv
    <2>2. ASSUME NEW pin \in SUBSET Arg, NEW deny \in SUBSET Arg, NEW schema \in Schema, NEW args \in Arguments,
                 Call([pin_args |-> pin, deny_args |-> deny], schema, args)
          PROVE  CallInv'
      BY <2>2 DEF Call, CallInv
    <2> QED BY <2>1, <2>2 DEF PolicyNext, policyVars, Configure, AttemptFails, Reconnected
  <1> QED BY <1>1, <1>2, CallKeepsPolicy, PTL DEF PolicySpec

-----------------------------------------------------------------------------
(* Names.                                                                  *)

\* A name is its prefix and what is left after it.
LEMMA PrefixOfName ==
    ASSUME NEW p \in Seq(STRING), NEW t \in Seq(STRING)
    PROVE  /\ p \o t \in Seq(STRING)
           /\ Stripped(p, p \o t) = t
           /\ t # <<>> => HasPrefix(p, p \o t)
  <1>1. /\ p \o t \in Seq(STRING) /\ Len(p \o t) = Len(p) + Len(t)
        /\ \A i \in 1 .. Len(p) + Len(t) : (p \o t)[i] = IF i <= Len(p) THEN p[i] ELSE t[i - Len(p)]
    BY ConcatProperties
  <1>2. Len(p) \in Nat /\ Len(t) \in Nat
    OBVIOUS
  <1>3. Stripped(p, p \o t) = t
    <2>1. \A i \in Len(p) + 1 .. Len(p \o t) : (p \o t)[i] \in STRING
      BY <1>1, <1>2
    <2>2. /\ Stripped(p, p \o t) \in Seq(STRING)
          /\ Len(Stripped(p, p \o t)) = IF Len(p) + 1 <= Len(p \o t) THEN Len(p \o t) - (Len(p) + 1) + 1 ELSE 0
          /\ \A i \in 1 .. Len(p \o t) - (Len(p) + 1) + 1 :
                Stripped(p, p \o t)[i] = (p \o t)[Len(p) + 1 + i - 1]
      BY <1>1, <1>2, <2>1, SubSeqProperties DEF Stripped
    <2>3. Len(Stripped(p, p \o t)) = Len(t)
      BY <1>1, <1>2, <2>2
    <2>4. \A i \in 1 .. Len(t) : Stripped(p, p \o t)[i] = t[i]
      <3> SUFFICES ASSUME NEW i \in 1 .. Len(t) PROVE Stripped(p, p \o t)[i] = t[i]
        OBVIOUS
      <3>1. Stripped(p, p \o t)[i] = (p \o t)[Len(p) + 1 + i - 1]
        BY <1>1, <1>2, <2>2
      <3>2. Len(p) + 1 + i - 1 \in 1 .. Len(p) + Len(t) /\ ~(Len(p) + 1 + i - 1 <= Len(p)) /\ Len(p) + 1 + i - 1 - Len(p) = i
        BY <1>2
      <3> QED BY <1>1, <3>1, <3>2
    <2> QED BY <2>2, <2>3, <2>4, SeqEqual
  <1>4. ASSUME t # <<>> PROVE HasPrefix(p, p \o t)
    <2>1. Len(t) > 0
      BY <1>2, <1>4, EmptySeq
    <2>2. p # p \o t
      BY <1>1, <1>2, <2>1
    <2>3. Len(p) <= Len(p \o t)
      BY <1>1, <1>2
    <2>4. SubSeq(p, 1, Len(p)) = p
      BY SubSeqFull
    <2>5. SubSeq(p \o t, 1, Len(p)) = p
      <3>1. \A i \in 1 .. Len(p) : (p \o t)[i] \in STRING /\ (p \o t)[i] = p[i]
        BY <1>1, <1>2
      <3>2. /\ SubSeq(p \o t, 1, Len(p)) \in Seq(STRING)
            /\ Len(SubSeq(p \o t, 1, Len(p))) = IF 1 <= Len(p) THEN Len(p) - 1 + 1 ELSE 0
            /\ \A i \in 1 .. Len(p) - 1 + 1 : SubSeq(p \o t, 1, Len(p))[i] = (p \o t)[1 + i - 1]
        BY <1>2, <3>1, SubSeqProperties
      <3>3. Len(SubSeq(p \o t, 1, Len(p))) = Len(p)
        BY <1>2, <3>2
      <3>4. \A i \in 1 .. Len(p) : SubSeq(p \o t, 1, Len(p))[i] = p[i]
        BY <1>2, <3>1, <3>2
      <3> QED BY <3>2, <3>3, <3>4, SeqEqual
    <2> QED BY <2>2, <2>3, <2>4, <2>5 DEF HasPrefix, IsStrictPrefix, IsPrefix
  <1> QED BY <1>1, <1>3, <1>4

LEMMA NameOfPrefix ==
    ASSUME NEW p \in Seq(STRING), NEW name \in Seq(STRING), HasPrefix(p, name)
    PROVE  p \o Stripped(p, name) = name
  <1>1. Len(p) \in Nat /\ Len(name) \in Nat /\ Len(p) <= Len(name) /\ SubSeq(p, 1, Len(p)) = SubSeq(name, 1, Len(p))
    BY DEF HasPrefix, IsStrictPrefix, IsPrefix
  <1>2. SubSeq(p, 1, Len(p)) = p /\ SubSeq(name, 1, Len(name)) = name
    BY SubSeqFull
  <1>3. SubSeq(name, 1, Len(p)) \o SubSeq(name, Len(p) + 1, Len(name)) = SubSeq(name, 1, Len(name))
    <2>1. 1 \in 1 .. Len(name) + 1 /\ Len(p) \in 1 - 1 .. Len(name) /\ Len(name) \in Len(p) .. Len(name)
      BY <1>1
    <2> QED BY <2>1, ConcatAdjacentSubSeq
  <1> QED BY <1>1, <1>2, <1>3 DEF Stripped

\* A prefix of one part is the first part.
LEMMA OnePart ==
    ASSUME NEW p \in Seq(STRING), NEW name \in Seq(STRING), HasPrefix(p, name), Len(p) = 1
    PROVE  p = <<name[1]>>
  <1>1. SubSeq(name, 1, 1) = p /\ 1 <= Len(name) /\ Len(name) \in Nat
    BY SubSeqFull DEF HasPrefix, IsStrictPrefix, IsPrefix
  <1>2. \A i \in 1 .. 1 : name[i] \in STRING
    BY <1>1
  <1>3. SubSeq(name, 1, 1)[1] = name[1]
    BY <1>1
  <1> QED BY <1>1, <1>3

LEMMA NoPrefix ==
    ASSUME NEW name \in Seq(STRING)
    PROVE  Stripped(<<>>, name) = name /\ <<>> \o name = name
  BY SubSeqFull, ConcatEmptySeq DEF Stripped

\* Of a name that has two prefixes of one part, they are the same.
LEMMA SameFirstPart ==
    ASSUME NEW p \in Seq(STRING), NEW q \in Seq(STRING), NEW name \in Seq(STRING),
           Len(p) = 1, Len(q) = 1, HasPrefix(p, name), HasPrefix(q, name)
    PROVE  p = q
  BY OnePart

LEMMA AtMostOnePart ==
    ASSUME NEW p \in Seq(STRING), Len(p) <= 1
    PROVE  p = <<>> \/ Len(p) = 1
  <1>1. p # <<>> => Len(p) \in Nat /\ Len(p) # 0
    BY EmptySeq
  <1>2. CASE p # <<>>
    <2>1. Len(p) \in Nat /\ Len(p) # 0 /\ Len(p) <= 1
      BY <1>1, <1>2
    <2>2. \A l \in Nat : l # 0 /\ l <= 1 => l = 1
      OBVIOUS
    <2> QED BY <2>1, <2>2, Zenon
  <1> QED BY <1>2

LEMMA MinOfOne ==
    ASSUME NEW n \in Nat
    PROVE  Min({n}) = n
  BY DEF Min

\* Of backends whose namespaces are one part each and all different, only the
\* one that an event was listed for may have it.
LEMMA EventsFindTheirOwner ==
    ASSUME healthy \subseteq Backend
    PROVE  EventReachesItsOwner
  <1> SUFFICES ASSUME NEW namespaces \in [Backend -> Namespace],
                      \A b \in Backend : Len(namespaces[b]) = 1,
                      \A a, b \in Backend : namespaces[a] = namespaces[b] => a = b,
                      NEW b \in Backend, NEW event \in Tool
               PROVE  ForwardEventRequest(namespaces, ComputeExposedName(namespaces[b], event)) =
                          IF b \in healthy THEN <<b, event>> ELSE <<>>
    BY DEF EventReachesItsOwner
  <1> DEFINE name == namespaces[b] \o event
             may == {a \in healthy : namespaces[a] = <<>> \/ HasPrefix(namespaces[a], name)}
  <1>1. (\A a \in Backend : namespaces[a] \in Seq(STRING)) /\ event \in Seq(STRING) /\ event # <<>>
    BY PolicyAssumption
  <1>2. name \in Seq(STRING) /\ Stripped(namespaces[b], name) = event /\ HasPrefix(namespaces[b], name)
    BY <1>1, PrefixOfName
  <1>3. ASSUME NEW a \in Backend PROVE namespaces[a] # <<>>
    BY <1>3, EmptySeq
  <1> HIDE DEF name
  <1>4. ASSUME NEW a \in may PROVE a = b
    <2>1. a \in Backend /\ HasPrefix(namespaces[a], name)
      BY <1>3, <1>4
    <2>2. namespaces[a] = namespaces[b]
      BY <1>1, <1>2, <2>1, SameFirstPart
    <2> QED BY <2>1, <2>2
  <1>5. CASE b \in healthy
    <2>1. may = {b}
      BY <1>2, <1>4, <1>5
    <2>2. FirstOf({b}) = b
      BY MinOfOne DEF FirstOf, Backend
    <2> QED BY <1>2, <1>5, <2>1, <2>2
            DEF ForwardEventRequest, BackendsWith, ComputeExposedName, name
  <1>6. CASE b \notin healthy
    <2>1. may = {}
      BY <1>4, <1>6
    <2> QED BY <1>6, <2>1 DEF ForwardEventRequest, BackendsWith, ComputeExposedName, name
  <1> QED BY <1>5, <1>6

ConfigInv == config = <<>> \/ \E a, b \in Def : config = <<a, b>>

LEMMA ConfigEntries ==
    ASSUME ConfigInv
    PROVE  /\ DOMAIN config = {} \/ DOMAIN config = {1, 2}
           /\ \A i \in DOMAIN config :
                 /\ config[i].namespace \in Namespace
                 /\ config[i].tools \subseteq Tool
  BY DEF ConfigInv, Def

\* A backend that a name leads to has a tool that is exposed under it.
LEMMA OwnerHasTheTool ==
    ASSUME NEW def, def.namespace \in Seq(STRING), NEW name \in Seq(STRING), Owns(def, name)
    PROVE  name \in Exposed(def, def.tools)
  <1>1. Stripped(def.namespace, name) \in def.tools /\ (def.namespace = <<>> \/ HasPrefix(def.namespace, name))
    BY DEF Owns, Considered
  <1>2. name = def.namespace \o Stripped(def.namespace, name)
    BY <1>1, NameOfPrefix, NoPrefix
  <1> QED BY <1>1, <1>2 DEF Exposed, ComputeExposedName

LEMMA ListedIsOwned ==
    ASSUME NEW def, def.namespace \in Seq(STRING), Len(def.namespace) <= 1,
           def.tools \subseteq Tool, NEW name \in Exposed(def, def.tools)
    PROVE  name \in Seq(STRING) /\ Owns(def, name)
  <1>1. PICK t \in def.tools : name = def.namespace \o t
    BY DEF Exposed, ComputeExposedName
  <1>2. t \in Seq(STRING) /\ t # <<>>
    BY PolicyAssumption
  <1>3. name \in Seq(STRING) /\ Stripped(def.namespace, name) = t /\ HasPrefix(def.namespace, name)
    BY <1>1, <1>2, PrefixOfName
  <1>4. def.namespace = <<>> \/ Len(def.namespace) = 1
    BY AtMostOnePart
  <1>5. Considered(def, name)
    BY <1>3, <1>4, OnePart DEF Considered
  <1> QED BY <1>3, <1>5 DEF Owns

LEMMA OneShotFinds == ConfigInv => OneShotFindsTheListed
  <1> SUFFICES ASSUME ConfigInv, NEW k \in DOMAIN config, NEW name \in Exposed(config[k], Indexed(config[k])),
                      NEW i \in {j \in DOMAIN config : name \in Exposed(config[j], config[j].tools)},
                      NEW order \in {<<1, 2>>, <<2, 1>>},
                      {j \in DOMAIN config : name \in Exposed(config[j], config[j].tools)} = {i},
                      Len(config[i].namespace) <= 1
               PROVE  OneShot(order, name) = <<i, Stripped(config[i].namespace, name)>>
    BY DEF OneShotFindsTheListed
  <1>1. /\ DOMAIN config = {1, 2} /\ i \in {1, 2} /\ name \in Exposed(config[i], config[i].tools)
        /\ \A j \in DOMAIN config : config[j].namespace \in Seq(STRING) /\ config[j].tools \subseteq Tool
    BY ConfigEntries, PolicyAssumption
  <1>2. name \in Seq(STRING) /\ Owns(config[i], name)
    BY <1>1, ListedIsOwned
  <1>3. ASSUME NEW j \in {1, 2}, Owns(config[j], name) PROVE j = i
    BY <1>1, <1>2, <1>3, OwnerHasTheTool
  <1>4. /\ DOMAIN order = {1, 2} /\ \A n \in {1, 2} : order[n] \in {1, 2}
        /\ \E n \in {1, 2} : order[n] = i
        /\ order[1] # order[2]
    BY <1>1
  <1>5. PICK n \in {1, 2} : order[n] = i
    BY <1>4
  <1>6. {m \in DOMAIN order : Owns(config[order[m]], name)} = {n}
    BY <1>2, <1>3, <1>4, <1>5
  <1>7. Min({n}) = n
    BY MinOfOne
  <1> QED BY <1>5, <1>6, <1>7 DEF OneShot

\* Whatever the order of the configuration and whoever is away, the name that
\* events/list shows for an event leads to the backend that owns it
\* (forward_event_request), and the name that tools/list shows for a tool that
\* one backend has leads a one-shot call to that backend, if the namespaces
\* have no dot (run_one_shot).  The session and the configuration
\* share no state.
THEOREM NamesFindTheirOwners == Spec /\ PolicySpec => []NamesLeadToOwners
  <1>1. PolicyInit => ConfigInv
    BY DEF PolicyInit, ConfigInv
  <1>2. ConfigInv /\ [PolicyNext]_policyVars => ConfigInv'
    BY DEF ConfigInv, PolicyNext, policyVars, Call, Configure, AttemptFails, Reconnected
  <1>3. PolicySpec => []OneShotFindsTheListed
    BY <1>1, <1>2, OneShotFinds, PTL DEF PolicySpec
  <1>4. TypeOK => EventReachesItsOwner
    BY EventsFindTheirOwner DEF TypeOK
  <1>5. Spec => []EventReachesItsOwner
    BY <1>4, TypeCorrect, PTL
  <1> QED BY <1>3, <1>5, PTL DEF NamesLeadToOwners

-----------------------------------------------------------------------------
(* The delays of the health loop.                                          *)

AttemptsInv == attempts \in Nat

LEMMA MinOfTwo ==
    ASSUME NEW a \in Nat, NEW b \in Nat
    PROVE  Min({a, b}) = IF a <= b THEN a ELSE b
  <1> DEFINE least == IF a <= b THEN a ELSE b
  <1>1. least \in {a, b} /\ \A y \in {a, b} : least <= y
    OBVIOUS
  <1>2. ASSUME NEW x \in {a, b}, \A y \in {a, b} : x <= y PROVE x = least
    BY <1>2
  <1> QED BY <1>1, <1>2 DEF Min

\* What each attempt waits, in milliseconds: the cap is reached with the seventh.
LEMMA Delays ==
    /\ Delay(1) = 1000 /\ Delay(2) = 2000 /\ Delay(3) = 4000
    /\ Delay(4) = 8000 /\ Delay(5) = 16000 /\ Delay(6) = 32000
    /\ \A n \in 7 .. 61 : Delay(n) = 60000
  <1>1. Delay(1) = 1000
    <2>1. Delay(1) = Min({125 * 2^3, 60000})
      BY SMT DEF Delay, Wrapped
    <2>2. 125 * 2^3 = 1000
      BY SMT
    <2> QED BY <2>1, <2>2, MinOfTwo, SMT
  <1>2. Delay(2) = 2000
    <2>1. Delay(2) = Min({125 * 2^4, 60000})
      BY SMT DEF Delay, Wrapped
    <2>2. 125 * 2^4 = 2000
      BY SMT
    <2> QED BY <2>1, <2>2, MinOfTwo, SMT
  <1>3. Delay(3) = 4000
    <2>1. Delay(3) = Min({125 * 2^5, 60000})
      BY SMT DEF Delay, Wrapped
    <2>2. 125 * 2^5 = 4000
      BY SMT
    <2> QED BY <2>1, <2>2, MinOfTwo, SMT
  <1>4. Delay(4) = 8000
    <2>1. Delay(4) = Min({125 * 2^6, 60000})
      BY SMT DEF Delay, Wrapped
    <2>2. 125 * 2^6 = 8000
      BY SMT
    <2> QED BY <2>1, <2>2, MinOfTwo, SMT
  <1>5. Delay(5) = 16000
    <2>1. Delay(5) = Min({125 * 2^7, 60000})
      BY SMT DEF Delay, Wrapped
    <2>2. 125 * 2^7 = 16000
      BY SMT
    <2> QED BY <2>1, <2>2, MinOfTwo, SMT
  <1>6. Delay(6) = 32000
    <2>1. Delay(6) = Min({125 * 2^8, 60000})
      BY SMT DEF Delay, Wrapped
    <2>2. 125 * 2^8 = 32000
      BY SMT
    <2> QED BY <2>1, <2>2, MinOfTwo, SMT
  <1>7. \A n \in 7 .. 61 : Delay(n) = 60000
    BY SMT DEF Delay, Wrapped
  <1> QED BY <1>1, <1>2, <1>3, <1>4, <1>5, <1>6, <1>7, SMT

WithinCap(n) == Delay(n) \in 1000 .. 60000
NotShorter(n) == n > 1 => Delay(n) >= Delay(n - 1)
LongEnough(n) == WithinCap(n) /\ NotShorter(n)

LEMMA DelaysGrow ==
    ASSUME NEW n \in Nat, n >= 1, n <= 61
    PROVE  LongEnough(n)
  <1>1. CASE n = 1
    <2>1. Delay(n) = 1000
      BY <1>1, Delays, SMT
    <2>2. ~(n > 1)
      BY <1>1, SMT
    <2>3. WithinCap(n)
      BY <2>1, SMT DEF WithinCap
    <2>4. NotShorter(n)
      BY <2>2, Zenon DEF NotShorter
    <2> QED BY <2>3, <2>4 DEF LongEnough
  <1>2. CASE n = 2
    <2>1. n - 1 = 1
      BY <1>2, SMT
    <2>2. Delay(n) = 2000
      BY <1>2, Delays, SMT
    <2>3. Delay(n - 1) = 1000
      BY <2>1, Delays, SMT
    <2> QED BY <2>2, <2>3, SMT DEF LongEnough, WithinCap, NotShorter
  <1>3. CASE n = 3
    <2>1. n - 1 = 2
      BY <1>3, SMT
    <2>2. Delay(n) = 4000
      BY <1>3, Delays, SMT
    <2>3. Delay(n - 1) = 2000
      BY <2>1, Delays, SMT
    <2> QED BY <2>2, <2>3, SMT DEF LongEnough, WithinCap, NotShorter
  <1>4. CASE n = 4
    <2>1. n - 1 = 3
      BY <1>4, SMT
    <2>2. Delay(n) = 8000
      BY <1>4, Delays, SMT
    <2>3. Delay(n - 1) = 4000
      BY <2>1, Delays, SMT
    <2> QED BY <2>2, <2>3, SMT DEF LongEnough, WithinCap, NotShorter
  <1>5. CASE n = 5
    <2>1. n - 1 = 4
      BY <1>5, SMT
    <2>2. Delay(n) = 16000
      BY <1>5, Delays, SMT
    <2>3. Delay(n - 1) = 8000
      BY <2>1, Delays, SMT
    <2> QED BY <2>2, <2>3, SMT DEF LongEnough, WithinCap, NotShorter
  <1>6. CASE n = 6
    <2>1. n - 1 = 5
      BY <1>6, SMT
    <2>2. Delay(n) = 32000
      BY <1>6, Delays, SMT
    <2>3. Delay(n - 1) = 16000
      BY <2>1, Delays, SMT
    <2> QED BY <2>2, <2>3, SMT DEF LongEnough, WithinCap, NotShorter
  <1>7. CASE n = 7
    <2>1. n - 1 = 6
      BY <1>7, SMT
    <2>2. Delay(n) = 60000
      BY <1>7, Delays, SMT
    <2>3. Delay(n - 1) = 32000
      BY <2>1, Delays, SMT
    <2> QED BY <2>2, <2>3, SMT DEF LongEnough, WithinCap, NotShorter
  <1>8. CASE n > 7
    <2>1. n \in 7 .. 61 /\ n - 1 \in 7 .. 61
      BY <1>8, SMT
    <2>2. Delay(n) = 60000 /\ Delay(n - 1) = 60000
      BY <2>1, Delays, SMT
    <2> QED BY <2>2, SMT DEF LongEnough, WithinCap, NotShorter
  <1>9. n = 1 \/ n = 2 \/ n = 3 \/ n = 4 \/ n = 5 \/ n = 6 \/ n = 7 \/ n > 7
    BY SMT
  <1> QED BY <1>1, <1>2, <1>3, <1>4, <1>5, <1>6, <1>7, <1>8, <1>9

\* The health loop (run_health_checks) never tries again at once, and waits at
\* least as long as before, up to the attempt whose product no longer fits in
\* 64 bits; however often the backend stays away.
THEOREM BackoffNeverShrinks == PolicySpec => []BackoffGrows
  <1>1. PolicyInit => AttemptsInv
    BY DEF PolicyInit, AttemptsInv
  <1>2. AttemptsInv /\ [PolicyNext]_policyVars => AttemptsInv'
    BY DEF AttemptsInv, PolicyNext, policyVars, Call, Configure, AttemptFails, Reconnected
  <1>3. AttemptsInv => BackoffGrows
    <2>1. ASSUME attempts \in 1 .. 61 PROVE LongEnough(attempts)
      <3>1. attempts \in Nat /\ attempts >= 1 /\ attempts <= 61
        BY <2>1, SMT
      <3> QED BY <3>1, DelaysGrow
    <2>2. BackoffGrows <=> (attempts \in 1 .. 61 => WithinCap(attempts) /\ NotShorter(attempts))
      BY DEF BackoffGrows, WithinCap, NotShorter
    <2> QED BY <2>1, <2>2 DEF LongEnough
  <1> QED BY <1>1, <1>2, <1>3, PTL DEF PolicySpec

-----------------------------------------------------------------------------
(* The decoder of server-sent events.                                      *)

\* A set of numbers that is not empty has a least member.
LEMMA LeastNumber ==
    ASSUME NEW S \in SUBSET Nat, S # {}
    PROVE  \E m \in S : \A n \in S : m <= n
  <1>1. PICK m \in S : \A n \in S : <<n, m>> \notin OpToRel(<, Nat)
    BY WFMin, NatLessThanWellFounded, Zenon
  <1>2. \A n \in S : ~(n < m)
    BY <1>1, Zenon DEF OpToRel
  <1> QED BY <1>2

LineFeeds(s) == {i \in DOMAIN s : s[i] = "LF"}
Lines(s) == Cardinality(LineFeeds(s))

LEMMA LinesCounted ==
    ASSUME NEW s \in Seq(Token)
    PROVE  /\ IsFiniteSet(LineFeeds(s)) /\ Lines(s) \in Nat
           /\ Lines(s) = 0 <=> LineFeeds(s) = {}
  <1>1. LineFeeds(s) \in SUBSET (1 .. Len(s)) /\ Len(s) \in Nat
    BY DEF LineFeeds
  <1>2. IsFiniteSet(1 .. Len(s))
    BY <1>1, FS_Interval
  <1>3. IsFiniteSet(LineFeeds(s))
    BY <1>1, <1>2, FS_Subset
  <1> QED BY <1>3, FS_CardinalityType, FS_EmptySet DEF Lines

LEMMA FirstLineFeed ==
    ASSUME NEW s \in Seq(Token), LineFeeds(s) # {}
    PROVE  /\ First({"LF"}, s) \in 1 .. Len(s)
           /\ s[First({"LF"}, s)] = "LF"
           /\ \A j \in 1 .. First({"LF"}, s) - 1 : s[j] # "LF"
  <1>1. LineFeeds(s) \in SUBSET Nat
    BY DEF LineFeeds
  <1>2. PICK m \in LineFeeds(s) : \A n \in LineFeeds(s) : m <= n
    BY <1>1, LeastNumber
  <1>3. m \in 1 .. Len(s) /\ s[m] = "LF"
    BY <1>2 DEF LineFeeds
  <1>4. \A j \in 1 .. m - 1 : s[j] # "LF"
    BY <1>2, <1>3 DEF LineFeeds
  <1>5. m \in DOMAIN s /\ s[m] \in {"LF"} /\ \A j \in 1 .. m - 1 : s[j] \notin {"LF"}
    BY <1>3, <1>4
  <1>6. /\ First({"LF"}, s) \in DOMAIN s /\ s[First({"LF"}, s)] \in {"LF"}
        /\ \A j \in 1 .. First({"LF"}, s) - 1 : s[j] \notin {"LF"}
    BY <1>5, Zenon DEF First
  <1> QED BY <1>6

LEMMA FirstIsThere ==
    ASSUME NEW s \in Seq(Token), NEW e \in 1 .. Len(s), s[e] = "LF", \A j \in 1 .. e - 1 : s[j] # "LF"
    PROVE  First({"LF"}, s) = e
  <1>1. LineFeeds(s) # {}
    BY DEF LineFeeds
  <1> DEFINE f == First({"LF"}, s)
  <1>2. f \in 1 .. Len(s) /\ s[f] = "LF" /\ \A j \in 1 .. f - 1 : s[j] # "LF"
    BY <1>1, FirstLineFeed
  <1> HIDE DEF f
  <1>3. ~(f < e) /\ ~(e < f)
    BY <1>2
  <1>4. f = e
    BY <1>2, <1>3
  <1> QED BY <1>4 DEF f

LEMMA LineTaken ==
    ASSUME NEW s \in Seq(Token), LineFeeds(s) # {}
    PROVE  LET rest == SubSeq(s, First({"LF"}, s) + 1, Len(s))
           IN rest \in Seq(Token) /\ Lines(rest) = Lines(s) - 1 /\ Lines(s) > 0
  <1> DEFINE e == First({"LF"}, s)
             rest == SubSeq(s, e + 1, Len(s))
             S == LineFeeds(s) \ {e}
             T == LineFeeds(rest)
             shift == [i \in S |-> i - e]
  <1>1. /\ e \in 1 .. Len(s) /\ s[e] = "LF" /\ Len(s) \in Nat
        /\ \A j \in 1 .. e - 1 : s[j] # "LF"
    BY FirstLineFeed
  <1> HIDE DEF e
  <1>2. /\ rest \in Seq(Token) /\ Len(rest) = Len(s) - e
        /\ \A i \in 1 .. Len(s) - e : rest[i] = s[e + i]
    BY <1>1
  <1> HIDE DEF rest
  <1>3. IsFiniteSet(S) /\ Cardinality(S) = Lines(s) - 1 /\ Lines(s) > 0
    <2>1. e \in LineFeeds(s)
      BY <1>1 DEF LineFeeds
    <2> QED BY <2>1, LinesCounted, FS_RemoveElement DEF Lines
  <1>4. \A i \in S : i \in e + 1 .. Len(s) /\ s[i] = "LF"
    BY <1>1 DEF LineFeeds
  <1>5. shift \in [S -> T]
    <2>1. ASSUME NEW i \in S PROVE i - e \in T
      <3>1. i - e \in 1 .. Len(s) - e /\ e + (i - e) = i
        BY <1>1, <1>4
      <3> QED BY <1>2, <1>4, <3>1 DEF LineFeeds
    <2> QED BY <2>1
  <1>6. \A i, j \in S : shift[i] = shift[j] => i = j
    BY <1>1, <1>4
  <1>7. \A k \in T : \E i \in S : shift[i] = k
    <2>1. ASSUME NEW k \in T PROVE e + k \in S /\ (e + k) - e = k
      <3>1. k \in 1 .. Len(s) - e /\ rest[k] = "LF"
        BY <1>2 DEF LineFeeds
      <3>2. s[e + k] = "LF" /\ e + k \in 1 .. Len(s) /\ e + k # e /\ (e + k) - e = k
        BY <1>1, <1>2, <3>1
      <3> QED BY <3>2 DEF LineFeeds
    <2> QED BY <2>1
  <1>8. ExistsBijection(S, T)
    <2> HIDE DEF shift, S, T
    <2>1. shift \in Bijection(S, T)
      BY <1>5, <1>6, <1>7 DEF Bijection, Injection, Surjection, IsInjective
    <2> QED BY <2>1 DEF ExistsBijection
  <1>9. Cardinality(T) = Cardinality(S)
    <2> HIDE DEF S, T
    <2> QED BY <1>3, <1>8, FS_Bijection
  <1> QED BY <1>2, <1>3, <1>9 DEF Lines, e, rest

LEMMA NoLineFeedLeft ==
    ASSUME NEW s \in Seq(Token), Lines(s) = 0
    PROVE  \A i \in DOMAIN s : s[i] # "LF"
  BY LinesCounted DEF LineFeeds

\* What is after the first line of a text that goes on with b.
LEMMA LineTakenFromMore ==
    ASSUME NEW s \in Seq(Token), NEW b \in Seq(Token), LineFeeds(s) # {}
    PROVE  LET e == First({"LF"}, s)
           IN /\ LineFeeds(s \o b) # {} /\ First({"LF"}, s \o b) = e
              /\ SubSeq(s \o b, 1, e - 1) = SubSeq(s, 1, e - 1)
              /\ SubSeq(s \o b, e + 1, Len(s \o b)) = SubSeq(s, e + 1, Len(s)) \o b
  <1> DEFINE e == First({"LF"}, s)
             both == s \o b
  <1>1. /\ e \in 1 .. Len(s) /\ s[e] = "LF" /\ Len(s) \in Nat /\ Len(b) \in Nat
        /\ \A j \in 1 .. e - 1 : s[j] # "LF"
    BY FirstLineFeed
  <1> HIDE DEF e
  <1>2. /\ both \in Seq(Token) /\ Len(both) = Len(s) + Len(b)
        /\ \A i \in 1 .. Len(s) : both[i] = s[i]
        /\ \A i \in 1 .. Len(b) : both[Len(s) + i] = b[i]
    BY <1>1
  <1> HIDE DEF both
  <1>3. e \in 1 .. Len(both) /\ both[e] = "LF" /\ \A j \in 1 .. e - 1 : both[j] # "LF"
    <2>1. e \in Nat /\ 1 <= e /\ e <= Len(s) /\ e <= Len(s) + Len(b)
      BY <1>1
    <2>2. ASSUME NEW j \in 1 .. e - 1 PROVE both[j] # "LF"
      <3>1. j \in 1 .. Len(s)
        BY <2>1, <1>1
      <3> QED BY <1>1, <1>2, <3>1
    <2> QED BY <1>1, <1>2, <2>1, <2>2
  <1>4. LineFeeds(both) # {} /\ First({"LF"}, both) = e
    <2>1. e \in LineFeeds(both)
      BY <1>2, <1>3 DEF LineFeeds
    <2> QED BY <1>2, <1>3, <2>1, FirstIsThere
  <1>5. SubSeq(both, 1, e - 1) = SubSeq(s, 1, e - 1)
    <2>1. \A i \in 1 .. e - 1 : both[i] = s[i]
      BY <1>1, <1>2
    <2>2. e - 1 \in Nat
      BY <1>1
    <2> HIDE <1>1, <1>2
    <2> QED BY <2>1, <2>2
  <1>6. SubSeq(both, e + 1, Len(both)) = SubSeq(s, e + 1, Len(s)) \o b
    <2> DEFINE u == SubSeq(both, e + 1, Len(both))
               v == SubSeq(s, e + 1, Len(s))
    <2>1. /\ v \in Seq(Token) /\ Len(v) = Len(s) - e
          /\ \A i \in 1 .. Len(s) - e : v[i] = s[e + i]
      BY <1>1
    <2>2. /\ u \in Seq(Token) /\ Len(u) = Len(s) + Len(b) - e
          /\ \A i \in 1 .. Len(s) + Len(b) - e : u[i] = both[e + i]
      BY <1>1, <1>2, <1>3
    <2> HIDE DEF u, v
    <2>3. /\ v \o b \in Seq(Token) /\ Len(v \o b) = Len(s) - e + Len(b)
          /\ \A i \in 1 .. Len(s) - e + Len(b) :
                (v \o b)[i] = IF i <= Len(s) - e THEN v[i] ELSE b[i - (Len(s) - e)]
      <3>1. /\ v \o b \in Seq(Token) /\ Len(v \o b) = Len(v) + Len(b)
            /\ \A i \in 1 .. Len(v) + Len(b) :
                  (v \o b)[i] = IF i <= Len(v) THEN v[i] ELSE b[i - Len(v)]
        BY <2>1, ConcatProperties, Zenon
      <3>2. Len(v) = Len(s) - e
        BY <2>1, Zenon
      <3> QED BY <3>1, <3>2, Zenon
    <2>4. Len(u) = Len(v \o b) /\ Len(u) = Len(s) + Len(b) - e
      BY <1>1, <2>2, <2>3
    <2>5. ASSUME NEW i \in 1 .. Len(u) PROVE u[i] = (v \o b)[i]
      <3>1. i \in Nat /\ 1 <= i /\ i <= Len(s) + Len(b) - e
        BY <2>4
      <3>2. CASE i <= Len(s) - e
        <4>1. e + i \in 1 .. Len(s) /\ i \in 1 .. Len(s) - e /\ i \in 1 .. Len(s) - e + Len(b) /\ i \in 1 .. Len(s) + Len(b) - e
          BY <1>1, <3>1, <3>2
        <4> QED BY <1>2, <2>1, <2>2, <2>3, <3>2, <4>1
      <3>3. CASE ~(i <= Len(s) - e)
        <4>1. /\ i - (Len(s) - e) \in 1 .. Len(b) /\ e + i = Len(s) + (i - (Len(s) - e))
              /\ i \in 1 .. Len(s) - e + Len(b) /\ i \in 1 .. Len(s) + Len(b) - e
          BY <1>1, <3>1, <3>3
        <4> QED BY <1>2, <2>2, <2>3, <3>3, <4>1
      <3> QED BY <3>2, <3>3
    <2>6. u = v \o b
      BY <2>2, <2>3, <2>4, <2>5, SeqEqual
    <2> QED BY <2>6 DEF u, v
  <1> QED BY <1>4, <1>5, <1>6 DEF e, both

-----------------------------------------------------------------------------
(* Draining a decoder, line by line.                                       *)

Decoder(buffer, event, data, events) ==
    [buffer |-> buffer, event |-> event, data |-> data, events |-> events]

\* A decoder's buffer is a text; what else it holds is left open.
IsDecoder(d) ==
    \E buffer \in Seq(Token) : \E event, data, events : d = Decoder(buffer, event, data, events)

\* The decoder that has more text before it.
More(d, b) == [d EXCEPT !.buffer = @ \o b]

LEMMA MoreDecodes ==
    ASSUME NEW buffer, NEW event, NEW data, NEW events, NEW b
    PROVE  More(Decoder(buffer, event, data, events), b) = Decoder(buffer \o b, event, data, events)
  <1> DEFINE d == Decoder(buffer, event, data, events)
  <1>1. d.buffer = buffer
    BY DEF Decoder
  <1>2. \A v : [d EXCEPT !.buffer = v] = Decoder(v, event, data, events)
    BY DEF Decoder
  <1> HIDE DEF d
  <1>3. More(d, b) = Decoder(buffer \o b, event, data, events)
    BY <1>1, <1>2 DEF More
  <1> QED BY <1>3 DEF d

LEMMA MoreIsDecoder ==
    ASSUME NEW d, IsDecoder(d), NEW b \in Seq(Token)
    PROVE  IsDecoder(More(d, b))
  <1>0. PICK buffer \in Seq(Token) : \E event, data, events : d = Decoder(buffer, event, data, events)
    BY DEF IsDecoder
  <1>1. PICK event, data, events : d = Decoder(buffer, event, data, events)
    BY <1>0
  <1>2. More(d, b) = Decoder(buffer \o b, event, data, events) /\ buffer \o b \in Seq(Token)
    BY <1>1, MoreDecodes
  <1> QED BY <1>2 DEF IsDecoder

\* What a line does to a decoder, beside the buffer.
Treated(d, line) == IF line = <<>> THEN Dispatch(d) ELSE ApplyLine(d, line)

\* It is the same whatever the buffer holds.
TreatedAlike(line, event, data, events) ==
    \E x, y, z : \A buffer : Treated(Decoder(buffer, event, data, events), line) = Decoder(buffer, x, y, z)

LEMMA TreatedLine ==
    ASSUME NEW line, NEW event, NEW data, NEW events
    PROVE  TreatedAlike(line, event, data, events)
  <1>1. CASE line = <<>>
    <2> DEFINE z == IF data = <<>> THEN events ELSE Append(events, [event |-> event, data |-> data])
    <2>1. ASSUME NEW buffer PROVE Dispatch(Decoder(buffer, event, data, events)) = Decoder(buffer, Unnamed, <<>>, z)
      <3> DEFINE d == Decoder(buffer, event, data, events)
      <3>1. d.event = event /\ d.data = data /\ d.events = events
        BY DEF Decoder
      <3>2. [d EXCEPT !.events = z] = Decoder(buffer, event, data, z)
        <4> HIDE DEF z
        <4> QED BY DEF Decoder
      <3>3. [Decoder(buffer, event, data, z) EXCEPT !.event = Unnamed] = Decoder(buffer, Unnamed, data, z)
        <4> HIDE DEF z
        <4> QED BY DEF Decoder
      <3>4. [Decoder(buffer, Unnamed, data, z) EXCEPT !.data = <<>>] = Decoder(buffer, Unnamed, <<>>, z)
        <4> HIDE DEF z
        <4> QED BY DEF Decoder
      <3> HIDE DEF d
      <3>5. Dispatch(d) = [[[d EXCEPT !.events = z] EXCEPT !.event = Unnamed] EXCEPT !.data = <<>>]
        BY <3>1 DEF Dispatch
      <3>6. Dispatch(d) = Decoder(buffer, Unnamed, <<>>, z)
        <4> HIDE DEF z
        <4> QED BY <3>2, <3>3, <3>4, <3>5
      <3> QED BY <3>6 DEF d
    <2> QED BY <1>1, <2>1 DEF Treated, TreatedAlike
  <1>2. CASE line # <<>> /\ Head(line) = "data:"
    <2>1. \A buffer : ApplyLine(Decoder(buffer, event, data, events), line)
                        = Decoder(buffer, event, Append(data, Tail(line)), events)
      BY <1>2 DEF ApplyLine, Decoder
    <2> QED BY <1>2, <2>1 DEF Treated, TreatedAlike
  <1>3. CASE line # <<>> /\ Head(line) # "data:" /\ Head(line) = "event:"
    <2>1. \A buffer : ApplyLine(Decoder(buffer, event, data, events), line) = Decoder(buffer, Tail(line), data, events)
      BY <1>3 DEF ApplyLine, Decoder
    <2> QED BY <1>3, <2>1 DEF Treated, TreatedAlike
  <1>4. CASE line # <<>> /\ Head(line) # "data:" /\ Head(line) # "event:"
    <2>1. \A buffer : ApplyLine(Decoder(buffer, event, data, events), line) = Decoder(buffer, event, data, events)
      BY <1>4 DEF ApplyLine, Decoder
    <2> QED BY <1>4, <2>1 DEF Treated, TreatedAlike
  <1> QED BY <1>1, <1>2, <1>3, <1>4

Untaken(buffer) == SubSeq(buffer, First({"LF"}, buffer) + 1, Len(buffer))

LEMMA TakeLineTreats ==
    ASSUME NEW buffer, NEW event, NEW data, NEW events
    PROVE  TakeLine(Decoder(buffer, event, data, events))
             = Treated(Decoder(Untaken(buffer), event, data, events),
                       Trimmed(SubSeq(buffer, 1, First({"LF"}, buffer) - 1)))
  <1> DEFINE d == Decoder(buffer, event, data, events)
             rest == Decoder(Untaken(buffer), event, data, events)
  <1>1. d.buffer = buffer
    BY DEF Decoder
  <1>2. \A v : [d EXCEPT !.buffer = v] = Decoder(v, event, data, events)
    BY DEF Decoder
  <1> HIDE DEF d
  <1>3. [d EXCEPT !.buffer = SubSeq(@, First({"LF"}, d.buffer) + 1, Len(@))] = rest
    BY <1>1, <1>2 DEF Untaken
  <1> HIDE DEF rest
  <1>4. TakeLine(d) = Treated(rest, Trimmed(SubSeq(buffer, 1, First({"LF"}, buffer) - 1)))
    BY <1>1, <1>3 DEF TakeLine, Treated
  <1> QED BY <1>4 DEF d, rest

\* A line is taken from a decoder in the same way whatever comes after it.
LEMMA TakeLineLocal ==
    ASSUME NEW d, IsDecoder(d), Lines(d.buffer) > 0, NEW b \in Seq(Token)
    PROVE  /\ IsDecoder(TakeLine(d))
           /\ Lines(TakeLine(d).buffer) = Lines(d.buffer) - 1
           /\ TakeLine(More(d, b)) = More(TakeLine(d), b)
           /\ IsDecoder(More(d, b)) /\ Lines(More(d, b).buffer) > 0
  <1>0. PICK buffer \in Seq(Token) : \E event, data, events : d = Decoder(buffer, event, data, events)
    BY DEF IsDecoder
  <1>1. PICK event, data, events : d = Decoder(buffer, event, data, events)
    BY <1>0
  <1>2. d.buffer = buffer
    BY <1>1 DEF Decoder
  <1> DEFINE e == First({"LF"}, buffer)
             line == Trimmed(SubSeq(buffer, 1, e - 1))
             both == buffer \o b
  <1>3. LineFeeds(buffer) # {}
    BY <1>2, LinesCounted
  <1>4. /\ LineFeeds(both) # {} /\ First({"LF"}, both) = e
        /\ SubSeq(both, 1, e - 1) = SubSeq(buffer, 1, e - 1)
        /\ Untaken(both) = Untaken(buffer) \o b
    BY <1>3, LineTakenFromMore DEF Untaken
  <1>5. Untaken(buffer) \in Seq(Token) /\ Lines(Untaken(buffer)) = Lines(buffer) - 1
    BY <1>3, LineTaken DEF Untaken
  <1>6. both \in Seq(Token)
    OBVIOUS
  <1>7. Lines(both) > 0
    <2> HIDE DEF both
    <2>1. Lines(both) \in Nat /\ Lines(both) # 0
      BY <1>4, <1>6, LinesCounted
    <2> QED BY <2>1
  <1>8. More(d, b) = Decoder(both, event, data, events)
    BY <1>1, MoreDecodes
  <1> HIDE DEF both, e
  <1>9. PICK x, y, z : \A v : Treated(Decoder(v, event, data, events), line) = Decoder(v, x, y, z)
    <2>1. TreatedAlike(line, event, data, events)
      BY TreatedLine
    <2> HIDE DEF line
    <2> QED BY <2>1 DEF TreatedAlike
  <1>10. TakeLine(d) = Decoder(Untaken(buffer), x, y, z)
    BY <1>1, <1>9, TakeLineTreats DEF e
  <1>11. TakeLine(More(d, b)) = Decoder(Untaken(buffer) \o b, x, y, z)
    <2>1. TakeLine(More(d, b)) = Treated(Decoder(Untaken(both), event, data, events), line)
      BY <1>4, <1>8, TakeLineTreats
    <2> QED BY <1>4, <1>9, <2>1
  <1>12. More(TakeLine(d), b) = Decoder(Untaken(buffer) \o b, x, y, z)
    BY <1>10, MoreDecodes
  <1>13. IsDecoder(TakeLine(d)) /\ TakeLine(d).buffer = Untaken(buffer)
    <2>1. IsDecoder(TakeLine(d))
      BY <1>5, <1>10 DEF IsDecoder
    <2>2. TakeLine(d).buffer = Untaken(buffer)
      BY <1>10 DEF Decoder
    <2> QED BY <2>1, <2>2
  <1>14. IsDecoder(More(d, b)) /\ More(d, b).buffer = both
    <2>1. IsDecoder(More(d, b))
      BY <1>6, <1>8 DEF IsDecoder, both
    <2>2. More(d, b).buffer = both
      BY <1>8 DEF Decoder
    <2> QED BY <2>1, <2>2
  <1> QED BY <1>2, <1>5, <1>7, <1>11, <1>12, <1>13, <1>14

\* What the recursion of Drain computes.
Steps(d, k, f) == f = [n \in 0 .. k |-> IF n = 0 THEN d ELSE TakeLine(f[n - 1])]

LEMMA StepsExist ==
    ASSUME NEW d, NEW k \in Nat
    PROVE  \E f : Steps(d, k, f)
  <1> DEFINE S == {n \in Nat : ~\E f : Steps(d, n, f)}
  <1>1. SUFFICES ASSUME k \in S PROVE FALSE
    OBVIOUS
  <1>2. PICK m \in S : \A n \in S : m <= n
    BY <1>1, LeastNumber
  <1>3. m # 0
    <2>1. Steps(d, 0, [n \in 0 .. 0 |-> d])
      BY DEF Steps
    <2> QED BY <2>1, <1>2
  <1>4. m - 1 \in Nat /\ m - 1 \notin S
    BY <1>2, <1>3
  <1>5. PICK f : Steps(d, m - 1, f)
    BY <1>4
  <1> DEFINE g == [n \in 0 .. m |-> IF n = m THEN TakeLine(f[m - 1]) ELSE f[n]]
  <1>6. Steps(d, m, g)
    <2>1. ASSUME NEW n \in 0 .. m PROVE g[n] = IF n = 0 THEN d ELSE TakeLine(g[n - 1])
      <3>1. CASE n = m
        BY <1>3, <1>4, <3>1
      <3>2. CASE n # m
        <4>1. n \in 0 .. m - 1
          BY <1>3, <3>2
        <4>2. f[n] = IF n = 0 THEN d ELSE TakeLine(f[n - 1])
          BY <1>5, <4>1 DEF Steps
        <4>3. n # 0 => n - 1 \in 0 .. m /\ n - 1 # m
          BY <4>1
        <4> QED BY <3>2, <4>2, <4>3
      <3> QED BY <3>1, <3>2
    <2> QED BY <2>1 DEF Steps
  <1> QED BY <1>2, <1>6

LEMMA DrainSteps ==
    ASSUME NEW d, Lines(d.buffer) \in Nat
    PROVE  \E f : Steps(d, Lines(d.buffer), f) /\ Drain(d) = f[Lines(d.buffer)]
  <1> DEFINE f == CHOOSE g : Steps(d, Lines(d.buffer), g)
  <1>1. Steps(d, Lines(d.buffer), f)
    BY StepsExist
  <1>2. Drain(d) = f[Lines(d.buffer)]
    BY DEF Drain, Steps, Lines, LineFeeds
  <1> QED BY <1>1, <1>2

LEMMA DrainNothing ==
    ASSUME NEW d, Lines(d.buffer) = 0
    PROVE  Drain(d) = d
  <1>1. PICK f : Steps(d, 0, f) /\ Drain(d) = f[0]
    BY DrainSteps
  <1>2. f[0] = d
    BY <1>1 DEF Steps
  <1> QED BY <1>1, <1>2

LEMMA DrainLine ==
    ASSUME NEW d, IsDecoder(d), Lines(d.buffer) \in Nat \ {0}
    PROVE  Drain(d) = Drain(TakeLine(d))
  <1> DEFINE k == Lines(d.buffer)
  <1>1. Lines(TakeLine(d).buffer) = k - 1
    <2>1. <<>> \in Seq(Token)
      OBVIOUS
    <2>2. Lines(d.buffer) > 0
      OBVIOUS
    <2> QED BY <2>1, <2>2, TakeLineLocal
  <1>2. PICK f : Steps(d, k, f) /\ Drain(d) = f[k]
    BY DrainSteps
  <1>3. PICK g : Steps(TakeLine(d), k - 1, g) /\ Drain(TakeLine(d)) = g[k - 1]
    BY <1>1, DrainSteps
  <1> HIDE DEF k
  <1>4. k \in Nat \ {0}
    BY DEF k
  <1>5. /\ \A n \in 0 .. k : f[n] = IF n = 0 THEN d ELSE TakeLine(f[n - 1])
        /\ \A n \in 0 .. k - 1 : g[n] = IF n = 0 THEN TakeLine(d) ELSE TakeLine(g[n - 1])
    BY <1>2, <1>3 DEF Steps
  <1> DEFINE S == {n \in Nat : n <= k - 1 /\ f[n + 1] # g[n]}
  <1>6. S = {}
    <2> SUFFICES ASSUME S # {} PROVE FALSE
      OBVIOUS
    <2>1. PICK m \in S : \A n \in S : m <= n
      BY LeastNumber
    <2>2. m \in Nat /\ m <= k - 1 /\ f[m + 1] # g[m]
      BY <2>1
    <2>3. f[m + 1] = TakeLine(f[m])
      BY <1>4, <1>5, <2>2
    <2>4. CASE m = 0
      BY <1>4, <1>5, <2>2, <2>3, <2>4
    <2>5. CASE m # 0
      <3>1. m - 1 \in Nat /\ m - 1 <= k - 1 /\ m - 1 \notin S /\ (m - 1) + 1 = m
        BY <1>4, <2>1, <2>2, <2>5
      <3>2. f[m] = g[m - 1]
        BY <3>1
      <3>3. g[m] = TakeLine(g[m - 1])
        BY <1>4, <1>5, <2>2, <2>5
      <3> QED BY <2>2, <2>3, <3>2, <3>3
    <2> QED BY <2>4, <2>5
  <1>7. f[k] = g[k - 1]
    <2>1. k - 1 \in Nat /\ k - 1 <= k - 1 /\ (k - 1) + 1 = k
      BY <1>4
    <2> QED BY <1>6, <2>1
  <1> QED BY <1>2, <1>3, <1>7

\* Draining before more text comes makes no difference.
Indifferent(d, b) ==
    /\ Drain(More(Drain(d), b)) = Drain(More(d, b))
    /\ IsDecoder(Drain(d)) /\ Lines(Drain(d).buffer) = 0

LEMMA DrainIsIndifferent ==
    ASSUME NEW d, IsDecoder(d), NEW b \in Seq(Token)
    PROVE  Indifferent(d, b)
  <1> DEFINE Bad(n) == \E x : IsDecoder(x) /\ Lines(x.buffer) = n /\ ~Indifferent(x, b)
             S == {n \in Nat : Bad(n)}
  <1>1. \A x : IsDecoder(x) => Lines(x.buffer) \in Nat
    <2> TAKE x
    <2> HAVE IsDecoder(x)
    <2>1. x.buffer \in Seq(Token)
      BY DEF IsDecoder, Decoder
    <2> QED BY <2>1, LinesCounted
  <1>2. S = {}
    <2> SUFFICES ASSUME S # {} PROVE FALSE
      OBVIOUS
    <2>1. PICK m \in S : \A n \in S : m <= n
      <3>1. S \in SUBSET Nat
        OBVIOUS
      <3> HIDE DEF S
      <3> QED BY <3>1, LeastNumber
    <2>2. PICK x : IsDecoder(x) /\ Lines(x.buffer) = m /\ ~Indifferent(x, b)
      BY <2>1
    <2>3. CASE m = 0
      <3>1. Drain(x) = x
        BY <2>2, <2>3, DrainNothing
      <3> QED BY <2>2, <2>3, <3>1 DEF Indifferent
    <2>4. CASE m # 0
      <3>0. m \in Nat \ {0} /\ m > 0
        BY <2>1, <2>4
      <3> DEFINE y == TakeLine(x)
                 xb == More(x, b)
      <3>1. /\ IsDecoder(y) /\ Lines(y.buffer) = m - 1
            /\ TakeLine(xb) = More(y, b)
            /\ IsDecoder(xb) /\ Lines(xb.buffer) > 0
        BY <2>2, <3>0, TakeLineLocal
      <3>2. Drain(x) = Drain(y)
        BY <2>2, <3>0, DrainLine
      <3> HIDE DEF y, xb
      <3>3. Lines(xb.buffer) \in Nat \ {0}
        BY <1>1, <3>1
      <3>4. Drain(xb) = Drain(More(y, b))
        BY <3>1, <3>3, DrainLine
      <3>5. Indifferent(y, b)
        <4>1. m - 1 \in Nat /\ ~(m <= m - 1)
          BY <3>0
        <4>2. m - 1 \notin S
          BY <2>1, <4>1
        <4> QED BY <3>1, <4>1, <4>2
      <3>6. Indifferent(x, b)
        BY <3>2, <3>4, <3>5 DEF Indifferent, xb
      <3> QED BY <2>2, <3>6
    <2> QED BY <2>3, <2>4
  <1>3. Lines(d.buffer) \in Nat /\ Lines(d.buffer) \notin S
    BY <1>1, <1>2
  <1> QED BY <1>3

Chained(c, s, t, m, n) ==
    /\ c \in Seq(Token) /\ Len(c) = m + n
    /\ \A i \in 1 .. m : c[i] = s[i]
    /\ \A i \in 1 .. n : c[m + i] = t[i]

LEMMA Chain ==
    ASSUME NEW s \in Seq(Token), NEW t \in Seq(Token), NEW m \in Nat, NEW n \in Nat, Len(s) = m, Len(t) = n
    PROVE  Chained(s \o t, s, t, m, n)
  BY DEF Chained

LEMMA TextsAssociate ==
    ASSUME NEW s \in Seq(Token), NEW t \in Seq(Token), NEW u \in Seq(Token)
    PROVE  (s \o t) \o u = s \o (t \o u)
  <1> DEFINE st == s \o t
             tu == t \o u
             left == st \o u
             right == s \o tu
  <1>0. PICK l \in Nat, m \in Nat, n \in Nat : Len(s) = l /\ Len(t) = m /\ Len(u) = n
    OBVIOUS
  <1>1. Chained(st, s, t, l, m)
    BY <1>0, Chain
  <1>2. Chained(tu, t, u, m, n)
    BY <1>0, Chain
  <1> HIDE DEF st, tu
  <1>s. l + m \in Nat /\ m + n \in Nat /\ st \in Seq(Token) /\ Len(st) = l + m /\ tu \in Seq(Token) /\ Len(tu) = m + n
    BY <1>0, <1>1, <1>2 DEF Chained
  <1>3. Chained(left, st, u, l + m, n)
    BY <1>0, <1>s, Chain
  <1>4. Chained(right, s, tu, l, m + n)
    BY <1>0, <1>s, Chain
  <1> HIDE DEF left, right
  <1>5. ASSUME NEW i \in 1 .. Len(left) PROVE left[i] = right[i]
    <2>1. i \in Nat /\ 1 <= i /\ i <= (l + m) + n
      BY <1>3 DEF Chained
    <2>2. CASE i <= l
      <3>1. i \in 1 .. l /\ i \in 1 .. l + m
        BY <1>0, <2>1, <2>2
      <3> QED BY <1>1, <1>3, <1>4, <3>1 DEF Chained
    <2>3. CASE l < i /\ i <= l + m
      <3>1. PICK j \in Nat : i = l + j
        <4>1. i - l \in Nat /\ i = l + (i - l)
          BY <1>0, <2>1, <2>3
        <4> QED BY <4>1
      <3>2. j \in 1 .. m /\ j \in 1 .. m + n /\ i \in 1 .. l + m
        BY <1>0, <2>1, <2>3, <3>1
      <3>3. left[i] = st[l + j]
        BY <1>3, <3>1, <3>2 DEF Chained
      <3>4. st[l + j] = t[j]
        BY <1>1, <3>2 DEF Chained
      <3>5. right[i] = tu[j]
        BY <1>4, <3>1, <3>2 DEF Chained
      <3>6. tu[j] = t[j]
        BY <1>2, <3>2 DEF Chained
      <3> QED BY <3>3, <3>4, <3>5, <3>6
    <2>4. CASE l + m < i
      <3>1. PICK j \in Nat : i = (l + m) + j
        <4>1. i - (l + m) \in Nat /\ i = (l + m) + (i - (l + m))
          BY <1>0, <2>1, <2>4
        <4> QED BY <4>1
      <3>2. j \in 1 .. n /\ m + j \in 1 .. m + n /\ i = l + (m + j)
        BY <1>0, <2>1, <2>4, <3>1
      <3>3. left[i] = u[j]
        BY <1>3, <3>1, <3>2 DEF Chained
      <3>4. right[i] = u[j]
        <4>1. right[i] = tu[m + j]
          BY <1>4, <3>2 DEF Chained
        <4>2. tu[m + j] = u[j]
          BY <1>2, <3>2 DEF Chained
        <4> QED BY <4>1, <4>2
      <3> QED BY <3>3, <3>4
    <2> QED BY <1>0, <2>1, <2>2, <2>3, <2>4
  <1>6. Len(left) = Len(right)
    BY <1>0, <1>3, <1>4 DEF Chained
  <1>7. left = right
    BY <1>3, <1>4, <1>5, <1>6, SeqEqual DEF Chained
  <1> QED BY <1>7 DEF left, right, st, tu

\* Two chunks and the text they make up decode to the same.
LEMMA FeedTwice ==
    ASSUME NEW d, IsDecoder(d), NEW a \in Seq(Token), NEW b \in Seq(Token)
    PROVE  Feed(Feed(d, a), b) = Feed(d, a \o b)
  <1>1. \A x, c : Feed(x, c) = Drain(More(x, c))
    BY DEF Feed, More
  <1>0. PICK buffer \in Seq(Token) : \E event, data, events : d = Decoder(buffer, event, data, events)
    BY DEF IsDecoder
  <1>2. PICK event, data, events : d = Decoder(buffer, event, data, events)
    BY <1>0
  <1>3. More(d, a) = Decoder(buffer \o a, event, data, events) /\ buffer \o a \in Seq(Token)
    BY <1>2, MoreDecodes
  <1>4. IsDecoder(More(d, a))
    BY MoreIsDecoder
  <1>5. More(More(d, a), b) = More(d, a \o b)
    <2>1. More(More(d, a), b) = Decoder((buffer \o a) \o b, event, data, events)
      BY <1>3, MoreDecodes
    <2>2. More(d, a \o b) = Decoder(buffer \o (a \o b), event, data, events)
      BY <1>2, MoreDecodes
    <2>3. (buffer \o a) \o b = buffer \o (a \o b)
      BY TextsAssociate
    <2> QED BY <2>1, <2>2, <2>3
  <1>6. Drain(More(Drain(More(d, a)), b)) = Drain(More(More(d, a), b))
    BY <1>4, DrainIsIndifferent DEF Indifferent
  <1> QED BY <1>1, <1>5, <1>6

LEMMA NewDecoder == IsDecoder(New) /\ Lines(New.buffer) = 0
  <1>1. New = Decoder(<<>>, Unnamed, <<>>, <<>>) /\ New.buffer = <<>> /\ <<>> \in Seq(Token)
    BY DEF New, Decoder
  <1>2. IsDecoder(New)
    BY <1>1 DEF IsDecoder
  <1>3. LineFeeds(<<>>) = {}
    BY DEF LineFeeds
  <1> QED BY <1>1, <1>2, <1>3, LinesCounted

\* The decoder is where the text would have brought it in one piece, and has
\* kept no whole line back.
TextIsDecoded ==
    /\ decoder = Feed(New, text)
    /\ \A i \in DOMAIN decoder.buffer : decoder.buffer[i] # "LF"

TextInv == text \in Seq(Token) /\ decoder = Feed(New, text)

(* SseDecoder::feed may be given a text in any chunks, cut between a CR and  *)
(* its LF or inside a field's name: its state, events and rest are those of  *)
(* the text as one chunk, for texts and chunks of every length.              *)
THEOREM ChunksMakeOneText == WireSpec => []TextIsDecoded
  <1>1. WireInit => TextInv
    <2>1. More(New, <<>>) = New
      BY DEF More, New
    <2>2. Drain(New) = New
      BY NewDecoder, DrainNothing
    <2> QED BY <2>1, <2>2 DEF WireInit, TextInv, Feed, More
  <1>2. TextInv /\ [WireNext]_wireVars => TextInv'
    <2> SUFFICES ASSUME TextInv, [WireNext]_wireVars PROVE TextInv'
      OBVIOUS
    <2>1. CASE UNCHANGED <<text, decoder>>
      BY <2>1 DEF TextInv
    <2>2. ASSUME NEW chunk \in Chunk, Receive(chunk) PROVE TextInv'
      <3>1. chunk \in Seq(Token)
        BY <2>2 DEF Chunk
      <3>2. Feed(Feed(New, text), chunk) = Feed(New, text \o chunk)
        BY <3>1, NewDecoder, FeedTwice DEF TextInv
      <3> QED BY <2>2, <3>1, <3>2 DEF TextInv, Receive
    <2> QED BY <2>1, <2>2 DEF WireNext, Read, wireVars
  <1>3. TextInv => TextIsDecoded
    <2> SUFFICES ASSUME TextInv PROVE TextIsDecoded
      OBVIOUS
    <2>1. decoder = Drain(More(New, text)) /\ text \in Seq(Token)
      BY DEF TextInv, Feed, More
    <2>2. IsDecoder(More(New, text))
      BY <2>1, NewDecoder, MoreIsDecoder
    <2>3. IsDecoder(decoder) /\ Lines(decoder.buffer) = 0
      BY <2>1, <2>2, DrainIsIndifferent DEF Indifferent
    <2>4. decoder.buffer \in Seq(Token)
      BY <2>3 DEF IsDecoder, Decoder
    <2>5. \A i \in DOMAIN decoder.buffer : decoder.buffer[i] # "LF"
      BY <2>3, <2>4, NoLineFeedLeft
    <2> QED BY <2>5 DEF TextInv, TextIsDecoded
  <1> QED BY <1>1, <1>2, <1>3, PTL DEF WireSpec
==============================================================================
