-------------------------- MODULE RpcEngine_proofs --------------------------
(***************************************************************************)
(* Proofs about RpcEngine, for any number of requests and classes and any  *)
(* values of the bounds: its inductive invariant Inv, and that the engine  *)
(* keeps the promise of RpcService; then, from Inv, the slots of a class,  *)
(* how often a completion block runs, what becomes of a completed request, *)
(* and how often the server carries a request out.                         *)
(***************************************************************************)
EXTENDS RpcEngine, FiniteSetTheorems, WellFoundedInduction, TLAPS

-----------------------------------------------------------------------------
(* The stage queue. *)

\* What a runnable leaves on the stage queue is what was behind it, followed
\* by what it posted.
LEMMA RunPostingElements ==
  ASSUME NEW S, NEW s \in Seq(S), s # <<>>, NEW t \in Seq(S)
  PROVE  LET u == Tail(s) \o t
         IN /\ u \in Seq(S)
            /\ Len(u) = Len(s) - 1 + Len(t)
            /\ \A i \in 1..Len(u) :
                 \/ i < Len(s) /\ i + 1 \in 1..Len(s) /\ u[i] = s[i + 1]
                 \/ i >= Len(s) /\ i + 1 - Len(s) \in 1..Len(t) /\ u[i] = t[i + 1 - Len(s)]
<1>1. Tail(s) \in Seq(S) /\ Len(Tail(s)) = Len(s) - 1 /\ Len(s) \in Nat /\ Len(s) > 0
  OBVIOUS
<1>2. \A i \in 1..Len(Tail(s)) : Tail(s)[i] = s[i + 1]
  BY <1>1
<1>3. Len(Tail(s) \o t) = Len(Tail(s)) + Len(t) /\ Len(t) \in Nat
  BY <1>1
<1>4. \A i \in 1..Len(Tail(s) \o t) :
        (Tail(s) \o t)[i] = IF i <= Len(Tail(s)) THEN Tail(s)[i]
                            ELSE t[i - Len(Tail(s))]
  BY <1>1, <1>3
<1>5. Tail(s) \o t \in Seq(S)
  BY <1>1
<1> QED BY <1>1, <1>2, <1>3, <1>4, <1>5

\* A posted runnable goes behind all the others.
LEMMA PostElements ==
  ASSUME NEW S, NEW s \in Seq(S), NEW e \in S
  PROVE  LET u == Append(s, e)
         IN /\ u \in Seq(S)
            /\ Len(u) = Len(s) + 1
            /\ u[Len(s) + 1] = e
            /\ \A i \in 1..Len(s) : u[i] = s[i]
OBVIOUS

-----------------------------------------------------------------------------
(* processRequestQueue. *)

\* Ids handed out together are new and all different.
LEMMA NumberingsAreNew ==
  ASSUME lastId \in Nat, NEW fresh \in SUBSET Requests,
         NEW new \in Numberings(fresh)
  PROVE  /\ Cardinality(fresh) \in Nat
         /\ new \in [fresh -> Nat]
         /\ \A r \in fresh : lastId < new[r] /\ new[r] <= lastId + Cardinality(fresh)
         /\ \A x, y \in fresh : new[x] = new[y] => x = y
<1>1. Cardinality(fresh) \in Nat
  BY FiniteAssumption, FS_Subset, FS_CardinalityType
<1>2. /\ new \in [fresh -> (lastId + 1)..(lastId + Cardinality(fresh))]
      /\ \A x, y \in fresh : x # y => new[x] # new[y]
  BY DEF Numberings
<1>3. \A r \in fresh : new[r] \in (lastId + 1)..(lastId + Cardinality(fresh))
  BY <1>2
<1>4. \A r \in fresh : /\ new[r] \in Nat /\ lastId < new[r]
                       /\ new[r] <= lastId + Cardinality(fresh)
  BY <1>1, <1>3
<1>5. \A x, y \in fresh : new[x] = new[y] => x = y
  BY <1>2, <1>4
<1> QED BY <1>1, <1>2, <1>4, <1>5

\* What a handler has when it calls processRequestQueue.
Ready(q, run, ids, chans, dues, done) ==
  /\ q \subseteq Requests /\ run \subseteq Requests /\ q \cap run = {}
  /\ ids \in [Requests -> Nat] /\ \A r \in Requests : ids[r] <= lastId
  /\ chans \in [Requests -> Nat] /\ dues \in [Requests -> BOOLEAN]
  /\ done \in [Requests -> Nat]
  /\ arrival' \in [Requests -> Nat]
  /\ \A x, y \in q \cup run : arrival'[x] = arrival'[y] => x = y
  /\ completed' \subseteq Requests
  /\ \A m, n \in wire : m.id = n.id => m.r = n.r
  /\ \A r \in run : ids[r] # 0 => \E m \in wire : m.id = ids[r] /\ m.r = r

\* What it has after the call.
Served(q, run, ids, done) ==
  /\ queue' \subseteq q /\ running' \subseteq q \cup run
  /\ queue' \cap running' = {}
  /\ msgId' \in [Requests -> Nat] /\ chan' \in [Requests -> Nat]
  /\ due' \in [Requests -> BOOLEAN] /\ retry' \in [Requests -> Nat]
  /\ calls' \in [Requests -> Nat] /\ overtaken' \subseteq Requests
  /\ lastId' \in Nat /\ lastId' >= lastId /\ wire' \subseteq Messages
  /\ \A r \in Requests : calls'[r] >= done[r]
  /\ \A r \in Requests : r \notin run => calls'[r] = done[r]
  /\ q \subseteq queue' \cup running'
  /\ \A r \in run : r \in queue' \cup running' \/ calls'[r] > 0
  /\ \A r \in running' : msgId'[r] > lastId \/ (r \in run /\ msgId'[r] = ids[r])
  /\ \A r \in Requests : msgId'[r] <= lastId'
  /\ \A m \in wire' : m.id \in 1..lastId'
  /\ IdNamesOneRequest'

\* The call keeps what is needed, whatever the handler has done before it.
LEMMA ProcessRequestQueueEffect ==
  ASSUME TypeOK, IdsIssued,
         NEW q, NEW run, NEW ids, NEW chans, NEW dues, NEW done, NEW forced,
         Ready(q, run, ids, chans, dues, done),
         ProcessRequestQueue(q, run, ids, chans, dues, done, forced)
  PROVE  Served(q, run, ids, done)
<1> USE DEF Ready
<1> DEFINE again    == { r \in run : SendsAgain(r, ids, chans, dues, forced) }
           expired  == { r \in again : OutOfRetries(r) }
           left     == run \ expired
           promoted == { r \in q : GetsSlot(r, q, left) }
           sent     == (again \ expired) \cup promoted
           fresh    == promoted \cup { r \in again \ expired : NeedsId(r, ids) }
<1>1. PICK new \in Numberings(fresh) :
       /\ queue'   = q \ promoted
       /\ running' = left \cup promoted
       /\ msgId'   = [r \in Requests |-> IF r \in fresh THEN new[r] ELSE ids[r]]
       /\ chan'    = [r \in Requests |->
                        IF r \in sent THEN channel[Class[r]] ELSE chans[r]]
       /\ due'     = [r \in Requests |-> dues[r] /\ r \notin sent]
       /\ retry'   = [r \in Requests |->
                        IF r \in again /\ Class[r] = "download"
                        THEN retry[r] + 1 ELSE retry[r]]
       /\ calls'   = [r \in Requests |->
                        IF r \in expired THEN done[r] + 1 ELSE done[r]]
       /\ overtaken' = overtaken \cup (expired \cap completed')
       /\ lastId'  = lastId + Cardinality(fresh)
       /\ wire'    = wire \cup
            { [id |-> msgId'[r], r |-> r, sess |-> session,
               chan |-> channel[Class[r]]] : r \in sent }
  BY DEF ProcessRequestQueue
<1> HIDE DEF again
<1>2. /\ again \subseteq run /\ expired \subseteq again /\ promoted \subseteq q
      /\ sent \subseteq q \cup run /\ fresh \subseteq sent
      /\ sent \cap run \subseteq left
  BY DEF again
<1>3. \A r \in sent : r \in fresh \/ (r \in run /\ ids[r] # 0)
  BY <1>2 DEF again, NeedsId
<1> HIDE DEF expired, promoted, sent, fresh
<1>4. /\ Cardinality(fresh) \in Nat
      /\ new \in [fresh -> Nat]
      /\ \A r \in fresh : lastId < new[r] /\ new[r] <= lastId + Cardinality(fresh)
      /\ \A x, y \in fresh : new[x] = new[y] => x = y
  <2>1. \A x, y \in fresh : arrival'[x] = arrival'[y] => x = y
    BY <1>2
  <2>2. lastId \in Nat /\ fresh \in SUBSET Requests
    BY <1>2 DEF TypeOK
  <2> QED BY <2>1, <2>2, NumberingsAreNew
<1>5. \A r \in Requests : Class[r] \in Classes
  BY ClassAssumption
<1>6. lastId \in Nat /\ lastId' \in Nat /\ lastId' >= lastId
  BY <1>1, <1>4 DEF TypeOK
<1>7. msgId' \in [Requests -> Nat] /\ \A r \in Requests : msgId'[r] <= lastId'
  BY <1>1, <1>2, <1>4, <1>6
<1>8. \A r \in sent : msgId'[r] \in 1..lastId'
  BY <1>1, <1>2, <1>3, <1>4, <1>6, <1>7
<1>9. wire' \subseteq Messages /\ \A m \in wire' : m.id \in 1..lastId'
  <2>1. \A m \in wire : m \in Messages /\ m.id \in 1..lastId'
    BY <1>6 DEF TypeOK, IdsIssued
  <2>2. \A r \in sent : [id |-> msgId'[r], r |-> r, sess |-> session,
                        chan |-> channel[Class[r]]] \in Messages
    BY <1>2, <1>5, <1>7 DEF TypeOK, Messages
  <2>3. ASSUME NEW m \in wire', m \notin wire
        PROVE  m \in Messages /\ m.id \in 1..lastId'
    <3>1. PICK r \in sent : m = [id |-> msgId'[r], r |-> r, sess |-> session,
                                chan |-> channel[Class[r]]]
      BY <1>1, <2>3
    <3>2. m \in Messages
      BY <2>2, <3>1
    <3>3. m.id = msgId'[r]
      BY <3>1
    <3> QED BY <1>8, <3>2, <3>3
  <2> QED BY <2>1, <2>3
<1>10. /\ chan' \in [Requests -> Nat] /\ due' \in [Requests -> BOOLEAN]
       /\ retry' \in [Requests -> Nat] /\ calls' \in [Requests -> Nat]
       /\ overtaken' \subseteq Requests
  <2>1. chan' \in [Requests -> Nat]
    BY <1>1, <1>5 DEF TypeOK
  <2>2. due' \in [Requests -> BOOLEAN]
    BY <1>1
  <2>3. retry' \in [Requests -> Nat]
    BY <1>1 DEF TypeOK
  <2>4. calls' \in [Requests -> Nat]
    BY <1>1
  <2>5. overtaken' \subseteq Requests
    BY <1>1 DEF TypeOK
  <2> QED BY <2>1, <2>2, <2>3, <2>4, <2>5
<1>11. /\ queue' \subseteq q /\ running' \subseteq q \cup run
       /\ queue' \cap running' = {}
  BY <1>1, <1>2
<1>12. /\ \A r \in Requests : calls'[r] >= done[r]
       /\ \A r \in Requests : r \notin run => calls'[r] = done[r]
       /\ q \subseteq queue' \cup running'
       /\ \A r \in run : r \in queue' \cup running' \/ calls'[r] > 0
  BY <1>1, <1>2
<1>13. \A r \in running' : msgId'[r] > lastId \/ (r \in run /\ msgId'[r] = ids[r])
  <2>1. promoted \subseteq fresh
    BY DEF fresh
  <2> QED BY <1>1, <1>2, <1>4, <1>6, <2>1
<1>14. \A r \in sent, m \in wire : m.id = msgId'[r] => m.r = r
  <2> SUFFICES ASSUME NEW r \in sent, NEW m \in wire, m.id = msgId'[r]
               PROVE  m.r = r
    OBVIOUS
  <2>1. m.id \in 1..lastId
    BY DEF IdsIssued
  <2>2. r \in Requests /\ r \notin fresh
    BY <1>1, <1>2, <1>4, <1>6, <2>1
  <2>3. r \in run /\ ids[r] # 0 /\ msgId'[r] = ids[r]
    BY <1>1, <1>3, <2>2
  <2>4. PICK n \in wire : n.id = ids[r] /\ n.r = r
    BY <2>3
  <2> QED BY <2>3, <2>4
<1>15. \A r, x \in sent : msgId'[r] = msgId'[x] => r = x
  <2> SUFFICES ASSUME NEW r \in sent, NEW x \in sent, msgId'[r] = msgId'[x]
               PROVE  r = x
    OBVIOUS
  <2>1. CASE r \in fresh /\ x \in fresh
    BY <1>1, <1>2, <1>4, <2>1
  <2>2. CASE r \notin fresh
    <3>1. PICK n \in wire : n.id = msgId'[r] /\ n.r = r
      BY <1>1, <1>2, <1>3, <2>2
    <3> QED BY <1>14, <3>1
  <2>3. CASE x \notin fresh
    <3>1. PICK n \in wire : n.id = msgId'[x] /\ n.r = x
      BY <1>1, <1>2, <1>3, <2>3
    <3> QED BY <1>14, <3>1
  <2> QED BY <2>1, <2>2, <2>3
<1>16. IdNamesOneRequest'
  <2>1. \A m \in wire' \ wire : m.r \in sent /\ m.id = msgId'[m.r]
    BY <1>1
  <2>2. \A m, n \in wire' : m.id = n.id => m.r = n.r
    BY <1>14, <1>15, <2>1
  <2>3. ASSUME NEW r \in running', msgId'[r] # 0
        PROVE  \E m \in wire' : m.id = msgId'[r] /\ m.r = r
    <3>1. CASE r \in sent
      <4> DEFINE m == [id |-> msgId'[r], r |-> r, sess |-> session,
                       chan |-> channel[Class[r]]]
      <4>1. m \in wire'
        BY <1>1, <3>1
      <4> QED BY <4>1
    <3>2. CASE r \notin sent
      <4>1. r \in run /\ r \in Requests /\ msgId'[r] = ids[r]
        <5>1. promoted \subseteq sent
          BY DEF sent
        <5> QED BY <1>1, <1>2, <3>2, <5>1
      <4>2. PICK n \in wire : n.id = ids[r] /\ n.r = r
        BY <2>3, <4>1
      <4> QED BY <1>1, <4>1, <4>2
    <3> QED BY <3>1, <3>2
  <2> QED BY <2>2, <2>3 DEF IdNamesOneRequest
<1> QED BY <1>6, <1>7, <1>9, <1>10, <1>11, <1>12, <1>13, <1>16 DEF Served

-----------------------------------------------------------------------------
(* Runnables stay right while they wait. *)

\* A waiting runnable is one of Runnables, and carries the fields of its kind.
LEMMA RunnableFields ==
  ASSUME NEW d \in Runnables
  PROVE  /\ d.op \in {"perform", "cancel", "cancelIfNotSent"} => d.r \in Requests
         /\ d.op = "answer" => d.sess \in Nat /\ d.id \in Nat /\ d.out \in Outcomes
         /\ d.op = "newSession" => d.sess \in Nat /\ d.u \in Nat /\ d.first \in Nat
         /\ d.op = "rpcCompleted" => d.id \in Nat
         /\ d.op = "connected" => d.cls \in Classes
BY DEF Runnables

\* A runnable that waits is not disturbed by a step that only adds to the
\* callers' requests, ids and completions.
LEMMA StillRight ==
  ASSUME TypeOK, NEW d \in Runnables, PostedRight(d),
         lastId' \in Nat, lastId' >= lastId,
         asked \subseteq asked', revoked \subseteq revoked',
         d.op = "perform" => arrival'[d.r] = arrival[d.r],
         running' \subseteq Requests,
         msgId' \in [Requests -> Nat], calls' \in [Requests -> Nat],
         \A r \in running' :
           msgId'[r] > lastId \/ msgId'[r] = 0 \/ (r \in running /\ msgId'[r] = msgId[r]),
         \A r \in Requests : calls'[r] >= calls[r]
  PROVE  PostedRight(d)'
<1>1. d.op = "perform" => d.r \in asked' /\ arrival'[d.r] = 0
  BY DEF PostedRight
<1>2. d.op \in {"cancel", "cancelIfNotSent"} => d.r \in revoked'
  BY DEF PostedRight
<1>3. d.op \in {"answer", "rpcCompleted"} => d.id \in 1..lastId'
  BY DEF PostedRight, TypeOK
<1>4. ASSUME d.op = "rpcCompleted", NEW r \in running', msgId'[r] = d.id
      PROVE  calls'[r] > 0
  <2>1. d.id \in 1..lastId /\ lastId \in Nat
    BY <1>4 DEF PostedRight, TypeOK
  <2>2. r \in running /\ msgId[r] = d.id
    BY <1>4, <2>1
  <2>3. calls[r] > 0 /\ calls[r] \in Nat /\ calls'[r] \in Nat /\ calls'[r] >= calls[r]
    BY <1>4, <2>2 DEF PostedRight, TypeOK
  <2> QED BY <2>3
<1> QED BY <1>1, <1>2, <1>3, <1>4 DEF PostedRight

\* The stage queue after a handler that posted t, no perform among it.
LEMMA StageAfterRun ==
  ASSUME stage \in Seq(Runnables), StageRight, stage # <<>>,
         NEW t \in Seq(Runnables), RunPosting(t),
         \A i \in 2..Len(stage) : \A d \in Runnables : d = stage[i] => PostedRight(d)',
         \A i \in 1..Len(t) : \A d \in Runnables :
           d = t[i] => PostedRight(d)' /\ d.op # "perform"
  PROVE  stage' \in Seq(Runnables) /\ StageRight'
<1> DEFINE u == Tail(stage) \o t
<1>1. stage' = u
  BY DEF RunPosting
<1>2. /\ u \in Seq(Runnables)
      /\ \A i \in 1..Len(u) :
           \/ i < Len(stage) /\ i + 1 \in 1..Len(stage) /\ u[i] = stage[i + 1]
           \/ /\ i >= Len(stage) /\ i + 1 - Len(stage) \in 1..Len(t)
              /\ u[i] = t[i + 1 - Len(stage)]
  BY RunPostingElements
<1>3. Len(stage) \in Nat /\ Len(t) \in Nat /\ Len(u) \in Nat
  BY <1>2
<1> HIDE DEF u
<1>4. \A i \in 1..Len(stage') : stage'[i] \in Runnables
  BY <1>1, <1>2
<1>5. ASSUME NEW i \in 1..Len(stage')
      PROVE  \A d \in Runnables : d = stage'[i] => PostedRight(d)'
  <2>1. CASE i + 1 \in 1..Len(stage) /\ u[i] = stage[i + 1]
    <3>1. i + 1 \in 2..Len(stage)
      BY <1>1, <1>3, <1>5, <2>1
    <3> QED BY <1>1, <2>1, <3>1
  <2>2. CASE i + 1 - Len(stage) \in 1..Len(t) /\ u[i] = t[i + 1 - Len(stage)]
    BY <1>1, <2>2
  <2> QED BY <1>1, <1>2, <1>5, <2>1, <2>2
<1>6. \A i \in 1..Len(stage') : PostedRight(stage[i])'
  BY <1>4, <1>5 DEF PostedRight
<1>7. ASSUME NEW i \in 1..Len(stage'), stage'[i].op = "perform"
      PROVE  i + 1 \in 1..Len(stage) /\ stage'[i] = stage[i + 1]
  BY <1>1, <1>2, <1>4, <1>7
<1>8. ASSUME NEW i \in 1..Len(stage'), NEW j \in 1..Len(stage'),
             stage'[i].op = "perform", stage'[j].op = "perform",
             stage'[i].r = stage'[j].r
      PROVE  i = j
  BY <1>7, <1>8 DEF StageRight
<1> QED BY <1>1, <1>2, <1>6, <1>8 DEF StageRight

\* The stage queue after another thread posted e.
LEMMA StageAfterPost ==
  ASSUME stage \in Seq(Runnables), StageRight, NEW e \in Runnables, Post(e),
         \A d \in Runnables : PostedRight(d) => PostedRight(d)',
         PostedRight(e)',
         e.op = "perform" => \A i \in 1..Len(stage) :
                               stage[i].op = "perform" => stage[i].r # e.r
  PROVE  stage' \in Seq(Runnables) /\ StageRight'
<1>1. /\ stage' \in Seq(Runnables) /\ Len(stage') = Len(stage) + 1
      /\ Len(stage) \in Nat /\ stage'[Len(stage) + 1] = e
      /\ \A i \in 1..Len(stage) : stage'[i] = stage[i] /\ stage[i] \in Runnables
  BY PostElements DEF Post
<1>2. ASSUME NEW i \in 1..Len(stage')
      PROVE  \A d \in Runnables : d = stage'[i] => PostedRight(d)'
  <2>1. CASE i = Len(stage) + 1
    BY <1>1, <2>1
  <2>2. CASE i \in 1..Len(stage)
    BY <1>1, <2>2 DEF StageRight
  <2> QED BY <1>1, <1>2, <2>1, <2>2
<1>3. \A i \in 1..Len(stage') : PostedRight(stage[i])'
  BY <1>1, <1>2 DEF PostedRight
<1>4. ASSUME NEW i \in 1..Len(stage'), NEW j \in 1..Len(stage'),
             stage'[i].op = "perform", stage'[j].op = "perform",
             stage'[i].r = stage'[j].r
      PROVE  i = j
  <2>1. i \in 1..Len(stage) \/ i = Len(stage) + 1
    BY <1>1
  <2>2. j \in 1..Len(stage) \/ j = Len(stage) + 1
    BY <1>1
  <2> QED BY <1>1, <1>4, <2>1, <2>2 DEF StageRight
<1> QED BY <1>1, <1>3, <1>4 DEF StageRight

-----------------------------------------------------------------------------
(* Steps of the callers, the network and the server keep Inv. *)

\* The part of Inv that posting a runnable does not touch.
LEMMA PostKeepsInv ==
  ASSUME Inv, NEW e \in Runnables, Post(e), PostedRight(e)',
         e.op # "perform", asked' = asked,
         revoked \subseteq revoked', revoked' \subseteq Requests,
         UNCHANGED <<engineVars, wire, histVars>>,
         channel' \in [Classes -> Nat], lastChannel' \in Nat,
         answered' \subseteq Answers, refused' \subseteq Nat,
         announced' \subseteq Announces, IsFiniteSet(announced')
  PROVE  Inv'
<1>1. \A d \in Runnables : PostedRight(d) => PostedRight(d)'
  BY DEF PostedRight, engineVars, histVars
<1>2. stage' \in Seq(Runnables) /\ StageRight'
  BY <1>1, StageAfterPost DEF Inv, TypeOK
<1>3. TypeOK'
  BY <1>2 DEF Inv, TypeOK, engineVars, histVars
<1>4. OnOneList' /\ ArrivesOnce' /\ IdsIssued' /\ IdNamesOneRequest'
  BY DEF Inv, OnOneList, ArrivesOnce, IdsIssued, IdNamesOneRequest, engineVars
<1> QED BY <1>2, <1>3, <1>4 DEF Inv

\* A caller only posts: the engine itself is as it was.
LEMMA CallersKeepInv == ASSUME Inv, Callers PROVE Inv'
<1>1. ASSUME NEW r \in Requests, PerformRpc(r) PROVE Inv'
  <2> DEFINE e == [op |-> "perform", r |-> r]
  <2>1. e \in Runnables /\ Post(e) /\ r \notin asked
    BY <1>1 DEF PerformRpc, Runnables
  <2>2. /\ asked' = asked \cup {r}
        /\ UNCHANGED <<engineVars, netVars, wire, serverVars, revoked, histVars>>
    BY <1>1 DEF PerformRpc
  <2>3. arrival[r] = 0
    BY <2>1 DEF Inv, TypeOK, ArrivesOnce
  <2>4. \A d \in Runnables : PostedRight(d) => PostedRight(d)'
    BY <2>2 DEF PostedRight, engineVars, histVars
  <2>5. PostedRight(e)'
    BY <2>2, <2>3 DEF PostedRight, engineVars
  <2>6. \A i \in 1..Len(stage) : stage[i].op = "perform" => stage[i].r # e.r
    BY <2>1 DEF Inv, StageRight, PostedRight
  <2>7. stage' \in Seq(Runnables) /\ StageRight'
    BY <2>1, <2>4, <2>5, <2>6, StageAfterPost DEF Inv, TypeOK
  <2>8. TypeOK'
    BY <2>2, <2>7 DEF Inv, TypeOK, engineVars, netVars, serverVars, histVars
  <2>9. OnOneList' /\ ArrivesOnce' /\ IdsIssued' /\ IdNamesOneRequest'
    BY <2>2 DEF Inv, OnOneList, ArrivesOnce, IdsIssued, IdNamesOneRequest, engineVars
  <2> QED BY <2>7, <2>8, <2>9 DEF Inv
<1>2. ASSUME NEW r \in Requests, NEW ifNotSent \in BOOLEAN, CancelRpc(r, ifNotSent)
      PROVE  Inv'
  <2> DEFINE e == [op |-> IF ifNotSent THEN "cancelIfNotSent" ELSE "cancel", r |-> r]
  <2>1. e \in Runnables /\ Post(e) /\ e.op \in {"cancel", "cancelIfNotSent"} /\ e.r = r
    BY <1>2 DEF CancelRpc, Runnables
  <2>2. /\ revoked' = revoked \cup {r} /\ asked' = asked
        /\ UNCHANGED <<engineVars, netVars, wire, serverVars, histVars>>
    BY <1>2 DEF CancelRpc
  <2>3. PostedRight(e)'
    BY <2>1, <2>2 DEF PostedRight
  <2> QED
    BY <2>1, <2>2, <2>3, PostKeepsInv DEF Inv, TypeOK, netVars, serverVars
<1>3. ASSUME CleanUp PROVE Inv'
  <2> DEFINE e == [op |-> "cleanUp"]
  <2>1. e \in Runnables /\ Post(e) /\ PostedRight(e)' /\ e.op # "perform"
    BY <1>3 DEF CleanUp, Runnables, PostedRight
  <2>2. UNCHANGED <<engineVars, netVars, wire, serverVars, callerVars, histVars>>
    BY <1>3 DEF CleanUp
  <2> QED
    BY <2>1, <2>2, PostKeepsInv DEF Inv, TypeOK, netVars, serverVars, callerVars
<1> QED BY <1>1, <1>2, <1>3 DEF Callers

\* A connection made or lost changes channels only.
LEMMA NetworkKeepsInv == ASSUME Inv, Network PROVE Inv'
<1>1. ASSUME NEW cls \in Classes, Connect(cls) PROVE Inv'
  <2> DEFINE e == [op |-> "connected", cls |-> cls]
  <2>1. e \in Runnables /\ Post(e) /\ PostedRight(e)' /\ e.op # "perform"
    BY <1>1 DEF Connect, Runnables, PostedRight
  <2>2. /\ UNCHANGED <<engineVars, wire, serverVars, callerVars, histVars>>
        /\ lastChannel' \in Nat /\ channel' \in [Classes -> Nat]
    BY <1>1 DEF Connect, Inv, TypeOK
  <2> QED
    BY <2>1, <2>2, PostKeepsInv DEF Inv, TypeOK, serverVars, callerVars
<1>2. ASSUME NEW cls \in Classes, Disconnect(cls) PROVE Inv'
  <2>1. UNCHANGED <<stage, engineVars, lastChannel, wire, serverVars, callerVars, histVars>>
    BY <1>2 DEF Disconnect
  <2>2. channel' \in [Classes -> Nat]
    BY <1>2 DEF Disconnect, Inv, TypeOK
  <2>3. TypeOK'
    BY <2>1, <2>2 DEF Inv, TypeOK, engineVars, serverVars, callerVars, histVars
  <2>4. OnOneList' /\ ArrivesOnce' /\ IdsIssued' /\ IdNamesOneRequest'
    BY <2>1 DEF Inv, OnOneList, ArrivesOnce, IdsIssued, IdNamesOneRequest,
                engineVars, callerVars
  <2>5. StageRight'
    BY <2>1 DEF Inv, StageRight, PostedRight, engineVars, callerVars, histVars
  <2> QED BY <2>3, <2>4, <2>5 DEF Inv
<1> QED BY <1>1, <1>2 DEF Network

\* What the server answers or announces names ids that were sent.
LEMMA ServerKeepsInv == ASSUME Inv, Server PROVE Inv'
<1>1. ASSUME NEW m \in wire
      PROVE  /\ m.id \in Nat /\ m.id \in 1..lastId /\ m.r \in Requests
             /\ m.sess \in Nat /\ Class[m.r] \in Classes
  BY <1>1, ClassAssumption DEF Inv, TypeOK, IdsIssued, Messages
<1>2. ASSUME NEW m \in wire, NEW out \in Outcomes, ServerAnswer(m, out) PROVE Inv'
  <2> DEFINE e == [op |-> "answer", sess |-> m.sess, id |-> m.id, out |-> out]
  <2>1. e \in Runnables /\ Post(e)
    BY <1>1, <1>2 DEF ServerAnswer, Runnables
  <2>2. /\ UNCHANGED <<engineVars, netVars, wire, refused, announced, callerVars, histVars>>
        /\ answered' = answered \cup {[id |-> m.id, out |-> out]}
    BY <1>2 DEF ServerAnswer
  <2>3. PostedRight(e)'
    BY <1>1, <2>2 DEF PostedRight, engineVars
  <2>4. answered' \subseteq Answers
    BY <1>1, <2>2 DEF Inv, TypeOK, Answers
  <2> QED
    BY <2>1, <2>2, <2>3, <2>4, PostKeepsInv DEF Inv, TypeOK, netVars, callerVars
<1>3. ASSUME NEW m \in wire, NEW out \in Outcomes, ServerAnswerLost(m, out) PROVE Inv'
  <2>1. /\ UNCHANGED <<stage, engineVars, netVars, wire, refused, announced,
                       callerVars, histVars>>
        /\ answered' = answered \cup {[id |-> m.id, out |-> out]}
    BY <1>3 DEF ServerAnswerLost
  <2>2. answered' \subseteq Answers
    BY <1>1, <2>1 DEF Inv, TypeOK, Answers
  <2>3. TypeOK'
    BY <2>1, <2>2 DEF Inv, TypeOK, engineVars, netVars, callerVars, histVars
  <2>4. OnOneList' /\ ArrivesOnce' /\ IdsIssued' /\ IdNamesOneRequest'
    BY <2>1 DEF Inv, OnOneList, ArrivesOnce, IdsIssued, IdNamesOneRequest,
                engineVars, callerVars
  <2>5. StageRight'
    BY <2>1 DEF Inv, StageRight, PostedRight, engineVars, callerVars, histVars
  <2> QED BY <2>3, <2>4, <2>5 DEF Inv
<1>4. ASSUME NEW m \in wire, ServerNewSession(m) PROVE Inv'
  <2> DEFINE note == [sess |-> m.sess, cls |-> Class[m.r],
                      u |-> Cardinality(announced) + 1, first |-> m.id]
  <2>0. PICK e : e = NewSession(note)
    OBVIOUS
  <2>1. Cardinality(announced) < MaxReset /\ Post(e)
    BY <1>4, <2>0 DEF ServerNewSession
  <2>2. /\ announced' = announced \cup {note}
        /\ refused' = refused \cup
             { w.id : w \in { x \in wire : /\ Class[x.r] = Class[m.r] /\ x.id < m.id
                                           /\ ~Answered(x.id) } }
        /\ UNCHANGED <<engineVars, netVars, wire, answered, callerVars, histVars>>
    BY <1>4 DEF ServerNewSession
  <2>3. Cardinality(announced) + 1 \in Nat
    BY FS_CardinalityType DEF Inv, TypeOK
  <2>4. e \in Runnables /\ e.op = "newSession" /\ note \in Announces
    BY <1>1, <2>0, <2>3 DEF Runnables, NewSession, Announces
  <2>5. PostedRight(e)'
    BY <2>4 DEF PostedRight
  <2>6. refused' \subseteq Nat /\ announced' \subseteq Announces
    BY <1>1, <2>2, <2>4 DEF Inv, TypeOK
  <2>7. IsFiniteSet(announced')
    BY <2>2, FS_AddElement DEF Inv, TypeOK
  <2> HIDE DEF note
  <2> QED
    BY <2>1, <2>2, <2>4, <2>5, <2>6, <2>7, PostKeepsInv DEF Inv, TypeOK, netVars, callerVars
<1>5. ASSUME NEW m \in wire, ServerBadMsg(m) PROVE Inv'
  <2> DEFINE e == [op |-> "badMsg", sess |-> m.sess]
  <2>1. e \in Runnables /\ Post(e) /\ PostedRight(e)' /\ e.op # "perform"
    BY <1>1, <1>5 DEF ServerBadMsg, Runnables, PostedRight
  <2>2. /\ refused' = refused \cup {m.id}
        /\ UNCHANGED <<engineVars, netVars, wire, answered, announced, callerVars, histVars>>
    BY <1>5 DEF ServerBadMsg
  <2> QED
    BY <1>1, <2>1, <2>2, PostKeepsInv DEF Inv, TypeOK, netVars, callerVars
<1>6. ASSUME NEW m \in wire, ServerBadSalt(m) PROVE Inv'
  <2> DEFINE e == [op |-> "badSalt", sess |-> m.sess]
  <2>1. e \in Runnables /\ Post(e) /\ PostedRight(e)' /\ e.op # "perform"
    BY <1>1, <1>6 DEF ServerBadSalt, Runnables, PostedRight
  <2>2. UNCHANGED <<engineVars, netVars, wire, serverVars, callerVars, histVars>>
    BY <1>6 DEF ServerBadSalt
  <2> QED
    BY <2>1, <2>2, PostKeepsInv DEF Inv, TypeOK, netVars, serverVars, callerVars
<1>7. ASSUME NEW note \in announced, ServerRepeatsNewSession(note) PROVE Inv'
  <2> DEFINE e == NewSession(note)
  <2>1. e \in Runnables /\ e.op = "newSession"
    BY DEF Inv, TypeOK, Announces, NewSession, Runnables
  <2>2. Post(e) /\ UNCHANGED <<engineVars, netVars, wire, serverVars, callerVars, histVars>>
    BY <1>7 DEF ServerRepeatsNewSession
  <2>3. PostedRight(e)'
    BY <2>1 DEF PostedRight
  <2> HIDE DEF e
  <2> QED
    BY <2>1, <2>2, <2>3, PostKeepsInv DEF Inv, TypeOK, netVars, serverVars, callerVars
<1> QED BY <1>2, <1>3, <1>4, <1>5, <1>6, <1>7 DEF Server

-----------------------------------------------------------------------------
(* Steps of the stage thread keep Inv. *)

\* A handler that ends in processRequestQueue keeps all of Inv but what it
\* says of the stage queue, and disturbs no runnable that waits there.
LEMMA HandlerKeepsInv ==
  ASSUME Inv,
         NEW q, NEW ids, NEW chans, NEW dues, NEW done, NEW forced,
         Ready(q, running, ids, chans, dues, done),
         ProcessRequestQueue(q, running, ids, chans, dues, done, forced),
         \A r \in Requests : ids[r] = 0 \/ ids[r] = msgId[r],
         \A r \in Requests : done[r] >= calls[r],
         ArrivesOnce', \A r \in q \cup running : arrival'[r] # 0,
         wait' \subseteq Requests,
         session' \in Nat, seenAnswers' \subseteq Nat, seenSessions' \subseteq Nat,
         UNCHANGED <<netVars, serverVars, callerVars>>
  PROVE  /\ stage' \in Seq(Runnables) => TypeOK'
         /\ OnOneList' /\ IdsIssued' /\ IdNamesOneRequest'
         /\ Served(q, running, ids, done)
         /\ \A d \in Runnables :
              /\ PostedRight(d)
              /\ d.op = "perform" => arrival'[d.r] = arrival[d.r]
              => PostedRight(d)'
<1>1. TypeOK /\ IdsIssued
  BY DEF Inv
<1>2. Served(q, running, ids, done)
  BY <1>1, ProcessRequestQueueEffect
<1>3. running' \subseteq Requests
  BY <1>2 DEF Served, Ready
<1>4. stage' \in Seq(Runnables) => TypeOK'
  BY <1>1, <1>2, <1>3 DEF TypeOK, netVars, serverVars, callerVars, Served, Ready
<1>5. OnOneList' /\ IdsIssued' /\ IdNamesOneRequest'
  BY <1>2 DEF OnOneList, IdsIssued, Served
<1>6. \A r \in Requests : calls'[r] >= calls[r]
  BY <1>1, <1>2 DEF TypeOK, Served, Ready
<1>7. /\ asked \subseteq asked' /\ revoked \subseteq revoked'
      /\ \A r \in running' :
           msgId'[r] > lastId \/ msgId'[r] = 0 \/ (r \in running /\ msgId'[r] = msgId[r])
  BY <1>1, <1>2, <1>3 DEF callerVars, Served
<1>8. /\ lastId' \in Nat /\ lastId' >= lastId
      /\ msgId' \in [Requests -> Nat] /\ calls' \in [Requests -> Nat]
  BY <1>2 DEF Served
<1>9. \A d \in Runnables :
        /\ PostedRight(d)
        /\ d.op = "perform" => arrival'[d.r] = arrival[d.r]
        => PostedRight(d)'
  BY <1>1, <1>3, <1>6, <1>7, <1>8, StillRight
<1> QED BY <1>2, <1>4, <1>5, <1>9

\* A call of processRequestQueue serves the requests it is given.
LEMMA ServedPromise ==
  ASSUME Inv, Inv', NEW q, NEW ids, NEW chans, NEW dues, NEW done,
         Ready(q, running, ids, chans, dues, done),
         Served(q, running, ids, done), UNCHANGED revoked,
         \A r \in Requests : arrival[r] # 0 => arrival'[r] = arrival[r],
         queue \subseteq q,
         \A r \in Requests : r \in q \ queue <=> arrival[r] = 0 /\ arrival'[r] # 0,
         \A r \in Requests : done[r] >= calls[r],
         \A r \in Requests : r \notin running => done[r] = calls[r]
  PROVE  Service!Serve
<1>1. /\ q \subseteq Requests /\ running \subseteq Requests /\ done \in [Requests -> Nat]
      /\ queue' \subseteq q /\ running' \subseteq q \cup running
      /\ calls' \in [Requests -> Nat] /\ calls \in [Requests -> Nat]
      /\ \A r \in Requests : calls'[r] >= done[r]
      /\ \A r \in Requests : r \notin running => calls'[r] = done[r]
      /\ q \subseteq queue' \cup running'
      /\ \A r \in running : r \in queue' \cup running' \/ calls'[r] > 0
  BY DEF Ready, Served, Inv, TypeOK
<1> DEFINE old == { r \in Requests : arrival[r] # 0 }
           all == { r \in Requests : arrival'[r] # 0 }
<1>2. old \subseteq all /\ all \subseteq Requests /\ all \ old = q \ queue
  BY <1>1
<1>3. \A r \in Requests : calls'[r] >= calls[r]
  BY <1>1
<1>4. \A r \in Requests : r \notin queue \cup running => calls'[r] = calls[r]
  BY <1>1
<1>5. \A r \in (queue \cup running) \ (queue' \cup running') : calls'[r] > 0
  BY <1>1
<1>6. all \ old \subseteq queue' \cup running'
  BY <1>1, <1>2
<1>7. queue' \cup running' \subseteq (queue \cup running) \cup (all \ old)
  BY <1>1, <1>2
<1> QED BY <1>1, <1>2, <1>3, <1>4, <1>5, <1>6, <1>7 DEF Service!Serve, Inv, TypeOK

\* A handler that leaves ids, arrivals and lists alone is ready for the call.
LEMMA AlwaysReady ==
  ASSUME Inv, arrival' = arrival, completed' \subseteq Requests
  PROVE  Ready(queue, running, msgId, chan, due, calls)
<1>1. /\ queue \subseteq Requests /\ running \subseteq Requests
      /\ \A x, y \in queue \cup running : arrival[x] = arrival[y] => x = y
  BY DEF Inv, TypeOK, OnOneList, ArrivesOnce
<1> QED
  BY <1>1 DEF Ready, Inv, TypeOK, OnOneList, IdsIssued, IdNamesOneRequest

\* The same for a call made with the requests as they are.
LEMMA AsIsKeepsInv ==
  ASSUME Inv, NEW forced, ProcessAsIs(forced),
         UNCHANGED <<arrival, wait, completed, session, seenAnswers, seenSessions,
                     netVars, serverVars, callerVars>>
  PROVE  /\ stage' \in Seq(Runnables) => TypeOK'
         /\ OnOneList' /\ ArrivesOnce' /\ IdsIssued' /\ IdNamesOneRequest'
         /\ Served(queue, running, msgId, calls)
         /\ \A d \in Runnables : PostedRight(d) => PostedRight(d)'
<1>1. Ready(queue, running, msgId, chan, due, calls)
  BY AlwaysReady DEF Inv, TypeOK
<1>2. ArrivesOnce' /\ \A r \in queue \cup running : arrival'[r] # 0
  BY DEF Inv, ArrivesOnce, OnOneList, callerVars
<1>3. ProcessRequestQueue(queue, running, msgId, chan, due, calls, forced)
  BY DEF ProcessAsIs
<1>4. /\ wait' \subseteq Requests /\ session' \in Nat
      /\ seenAnswers' \subseteq Nat /\ seenSessions' \subseteq Nat
      /\ \A r \in Requests : calls[r] >= calls[r]
      /\ UNCHANGED <<netVars, serverVars, callerVars>>
  BY DEF Inv, TypeOK
<1> QED BY <1>1, <1>2, <1>3, <1>4, HandlerKeepsInv

\* The stage queue after a handler that disturbs no waiting runnable.
LEMMA StageAfterHandler ==
  ASSUME Inv, stage # <<>>, NEW t \in Seq(Runnables), RunPosting(t),
         \A d \in Runnables : PostedRight(d) => PostedRight(d)',
         \A i \in 1..Len(t) : \A d \in Runnables :
           d = t[i] => PostedRight(d)' /\ d.op # "perform"
  PROVE  stage' \in Seq(Runnables) /\ StageRight'
<1>1. stage \in Seq(Runnables) /\ StageRight
  BY DEF Inv, TypeOK
<1>2. \A i \in 2..Len(stage) : \A d \in Runnables : d = stage[i] => PostedRight(d)'
  BY <1>1 DEF StageRight
<1> QED BY <1>1, <1>2, StageAfterRun

\* The same for a handler that posts nothing.
LEMMA StageAfterQuietHandler ==
  ASSUME Inv, stage # <<>>, Run,
         \A d \in Runnables : PostedRight(d) => PostedRight(d)'
  PROVE  stage' \in Seq(Runnables) /\ StageRight'
<1>1. <<>> \in Seq(Runnables) /\ Len(<<>>) = 0
  OBVIOUS
<1>2. RunPosting(<<>>)
  BY DEF Run
<1>3. \A i \in 1..Len(<<>>) : FALSE
  BY <1>1
<1> QED BY <1>1, <1>2, <1>3, StageAfterHandler

\* The runnable that runs is right, like every other.
LEMMA HeadFacts ==
  ASSUME Inv, stage # <<>>
  PROVE  Head(stage) \in Runnables /\ PostedRight(Head(stage))
<1>1. Head(stage) = stage[1] /\ 1 \in 1..Len(stage) /\ stage[1] \in Runnables
  BY DEF Inv, TypeOK
<1> QED BY <1>1 DEF Inv, StageRight

\* Runnables that only call processRequestQueue: a tick, a connection made, a
\* salt changed, an rpc_drop_answer.
LEMMA QuietCallsKeepInv ==
  ASSUME Inv, RunDrop \/ RunConnected \/ Tick \/ RunBadSalt
  PROVE  Inv'
<1>1. ASSUME NEW forced, ProcessAsIs(forced),
             UNCHANGED <<arrival, wait, completed, session, seenAnswers, seenSessions,
                         netVars, serverVars, callerVars>>,
             (stage # <<>> /\ Run) \/ UNCHANGED stage
      PROVE  Inv'
  <2>1. /\ stage' \in Seq(Runnables) => TypeOK'
        /\ OnOneList' /\ ArrivesOnce' /\ IdsIssued' /\ IdNamesOneRequest'
        /\ \A d \in Runnables : PostedRight(d) => PostedRight(d)'
    BY <1>1, AsIsKeepsInv
  <2>2. CASE stage # <<>> /\ Run
    <3>1. stage' \in Seq(Runnables) /\ StageRight'
      BY <2>1, <2>2, StageAfterQuietHandler
    <3> QED BY <2>1, <3>1 DEF Inv
  <2>3. CASE UNCHANGED stage
    <3>1. stage' \in Seq(Runnables)
      BY <2>3 DEF Inv, TypeOK
    <3>2. \A i \in 1..Len(stage) : stage[i] \in Runnables
      BY DEF Inv, TypeOK
    <3>3. ASSUME NEW i \in 1..Len(stage) PROVE PostedRight(stage[i])'
      <4>1. PICK d \in Runnables : d = stage[i]
        BY <3>2
      <4>2. PostedRight(d)'
        BY <2>1, <4>1 DEF Inv, StageRight
      <4> QED BY <2>3, <4>1, <4>2 DEF PostedRight
    <3>4. StageRight'
      BY <2>3, <3>3 DEF Inv, StageRight
    <3> QED BY <2>1, <3>1, <3>4 DEF Inv
  <2> QED BY <1>1, <2>2, <2>3
<1>2. ASSUME RunDrop PROVE Inv'
  <2>1. /\ stage # <<>> /\ Run /\ ProcessAsIs({})
        /\ UNCHANGED <<arrival, wait, completed, session, seenAnswers, seenSessions,
                       netVars, serverVars, callerVars>>
    BY <1>2 DEF RunDrop, HeadIs
  <2> QED BY <1>1, <2>1
<1>3. ASSUME RunConnected PROVE Inv'
  <2>1. PICK forced : forced = {Head(stage).cls}
    OBVIOUS
  <2>2. /\ stage # <<>> /\ Run /\ ProcessAsIs(forced)
        /\ UNCHANGED <<arrival, wait, completed, session, seenAnswers, seenSessions,
                       netVars, serverVars, callerVars>>
    BY <1>3, <2>1 DEF RunConnected, HeadIs
  <2> QED BY <1>1, <2>2
<1>4. ASSUME Tick PROVE Inv'
  <2>1. /\ ProcessAsIs({}) /\ UNCHANGED stage
        /\ UNCHANGED <<arrival, wait, completed, session, seenAnswers, seenSessions,
                       netVars, serverVars, callerVars>>
    BY <1>4 DEF Tick
  <2> QED BY <1>1, <2>1
<1>5. ASSUME RunBadSalt PROVE Inv'
  <2>1. stage # <<>> /\ Run /\ UNCHANGED <<netVars, serverVars, callerVars>>
    BY <1>5 DEF RunBadSalt, HeadIs
  <2>2. CASE Head(stage).sess # session
    <3>1. UNCHANGED <<engineVars, wire, histVars>>
      BY <1>5, <2>2 DEF RunBadSalt
    <3>2. \A d \in Runnables : PostedRight(d) => PostedRight(d)'
      BY <2>1, <3>1 DEF PostedRight, engineVars, histVars, callerVars
    <3>3. stage' \in Seq(Runnables) /\ StageRight'
      BY <2>1, <3>2, StageAfterQuietHandler
    <3>4. TypeOK'
      BY <2>1, <3>1, <3>3 DEF Inv, TypeOK, engineVars, netVars, serverVars,
                              callerVars, histVars
    <3>5. OnOneList' /\ ArrivesOnce' /\ IdsIssued' /\ IdNamesOneRequest'
      BY <2>1, <3>1 DEF Inv, OnOneList, ArrivesOnce, IdsIssued, IdNamesOneRequest,
                        engineVars, callerVars
    <3> QED BY <3>3, <3>4, <3>5 DEF Inv
  <2>3. CASE Head(stage).sess = session
    <3>1. /\ ProcessAsIs(Classes)
          /\ UNCHANGED <<arrival, wait, completed, session, seenAnswers, seenSessions>>
      BY <1>5, <2>3 DEF RunBadSalt
    <3> QED BY <1>1, <2>1, <3>1
  <2> QED BY <2>2, <2>3
<1> QED BY <1>2, <1>3, <1>4, <1>5

\* performRpc: a request arrives once, behind all the others.
LEMMA RunPerformKeepsInv ==
  ASSUME Inv, RunPerform PROVE Inv' /\ Service!Serve
<1> USE DEF Inv
<1>1. stage # <<>> /\ Run /\ Head(stage).op = "perform"
  BY DEF RunPerform, HeadIs
<1>2. PICK r \in Requests : r = Head(stage).r /\ r \in asked /\ arrival[r] = 0
  BY <1>1, HeadFacts, RunnableFields DEF PostedRight
<1> DEFINE came  == {x \in Requests : arrival[x] # 0}
           came2 == {x \in Requests : arrival'[x] # 0}
<1>3. /\ arrival' = [arrival EXCEPT ![r] = Cardinality(came) + 1]
      /\ UNCHANGED <<wait, completed>>
      /\ ProcessRequestQueue(queue \cup {r}, running, msgId, chan, due, calls, {})
      /\ UNCHANGED <<session, seenAnswers, seenSessions, netVars, serverVars, callerVars>>
  BY <1>2 DEF RunPerform
<1>4. IsFiniteSet(came) /\ Cardinality(came) \in Nat
  <2>1. came \subseteq Requests
    OBVIOUS
  <2>2. IsFiniteSet(came)
    BY <2>1, FiniteAssumption, FS_Subset
  <2> QED BY <2>2, FS_CardinalityType
<1>5. arrival \in [Requests -> Nat] /\ arrival' \in [Requests -> Nat]
  BY <1>3, <1>4 DEF TypeOK
<1>6. \A x \in Requests : x # r => arrival'[x] = arrival[x]
  BY <1>3, <1>5
<1>7. arrival'[r] = Cardinality(came) + 1
  BY <1>3, <1>5
<1>8. arrival'[r] # 0
  BY <1>4, <1>7
<1>9. came2 = came \cup {r} /\ r \notin came
  BY <1>2, <1>6, <1>8
<1>10. /\ Cardinality(came2) = Cardinality(came) + 1
       /\ \A x \in Requests : arrival[x] <= Cardinality(came)
  BY <1>4, <1>9, FS_AddElement DEF ArrivesOnce
<1> HIDE DEF came
<1>11. ArrivesOnce'
  <2>1. \A x \in Requests : arrival'[x] # 0 => x \in asked'
    BY <1>2, <1>3, <1>6 DEF ArrivesOnce, callerVars
  <2>2. \A x \in Requests : arrival'[x] <= Cardinality(came2)
    BY <1>4, <1>5, <1>6, <1>7, <1>10
  <2>3. \A x, y \in Requests : arrival'[x] # 0 /\ arrival'[x] = arrival'[y] => x = y
    BY <1>4, <1>5, <1>6, <1>7, <1>10 DEF ArrivesOnce
  <2> QED BY <2>1, <2>2, <2>3 DEF ArrivesOnce
<1>12. PICK q : q = queue \cup {r}
  OBVIOUS
<1>13. \A x \in q \cup running : x \in Requests /\ arrival'[x] # 0
  BY <1>2, <1>6, <1>8, <1>12 DEF TypeOK, OnOneList
<1>14. Ready(q, running, msgId, chan, due, calls)
  <2>1. q \subseteq Requests /\ running \subseteq Requests /\ q \cap running = {}
    BY <1>2, <1>12 DEF TypeOK, OnOneList
  <2>2. \A x, y \in q \cup running : arrival'[x] = arrival'[y] => x = y
    BY <1>11, <1>13 DEF ArrivesOnce
  <2>3. completed' \subseteq Requests
    BY <1>3 DEF TypeOK
  <2> QED
    BY <1>5, <2>1, <2>2, <2>3 DEF Ready, TypeOK, IdsIssued, IdNamesOneRequest
<1>15. /\ stage' \in Seq(Runnables) => TypeOK'
       /\ OnOneList' /\ IdsIssued' /\ IdNamesOneRequest'
       /\ Served(q, running, msgId, calls)
       /\ \A d \in Runnables :
            /\ PostedRight(d)
            /\ d.op = "perform" => arrival'[d.r] = arrival[d.r]
            => PostedRight(d)'
  <2>1. ProcessRequestQueue(q, running, msgId, chan, due, calls, {})
    BY <1>3, <1>12
  <2>2. /\ \A x \in Requests : msgId[x] = 0 \/ msgId[x] = msgId[x]
        /\ \A x \in Requests : calls[x] >= calls[x]
        /\ \A x \in q \cup running : arrival'[x] # 0
        /\ wait' \subseteq Requests /\ session' \in Nat
        /\ seenAnswers' \subseteq Nat /\ seenSessions' \subseteq Nat
        /\ UNCHANGED <<netVars, serverVars, callerVars>>
    BY <1>3, <1>13 DEF TypeOK
  <2> QED BY <1>11, <1>14, <2>1, <2>2, HandlerKeepsInv
<1>16. ASSUME NEW i \in 2..Len(stage), NEW d \in Runnables, d = stage[i]
       PROVE  PostedRight(d)'
  <2>1. i \in 1..Len(stage) /\ 1 \in 1..Len(stage) /\ i # 1 /\ Head(stage) = stage[1]
    BY <1>1, <1>16 DEF TypeOK
  <2>2. d.op = "perform" => d.r # r /\ d.r \in Requests
    BY <1>1, <1>2, <1>16, <2>1, RunnableFields DEF StageRight
  <2>3. d.op = "perform" => arrival'[d.r] = arrival[d.r]
    BY <1>6, <2>2
  <2> QED BY <1>15, <1>16, <2>1, <2>3 DEF StageRight
<1>17. stage' \in Seq(Runnables) /\ StageRight'
  <2>1. <<>> \in Seq(Runnables) /\ RunPosting(<<>>) /\ \A i \in 1..Len(<<>>) : FALSE
    BY <1>1 DEF Run
  <2>2. stage \in Seq(Runnables) /\ StageRight /\ stage # <<>>
    BY <1>1 DEF TypeOK
  <2> QED BY <1>16, <2>1, <2>2, StageAfterRun
<1>18. Inv'
  BY <1>11, <1>15, <1>17
<1>19. Service!Serve
  <2>1. queue \subseteq q /\ q \ queue = {r} /\ UNCHANGED revoked
    BY <1>2, <1>3, <1>12 DEF OnOneList, callerVars
  <2>2. \A x \in Requests : x \in q \ queue <=> arrival[x] = 0 /\ arrival'[x] # 0
    BY <1>2, <1>6, <1>8, <2>1
  <2>3. \A x \in Requests : arrival[x] # 0 => arrival'[x] = arrival[x]
    BY <1>2, <1>6
  <2>4. \A x \in Requests : calls[x] >= calls[x]
    BY DEF TypeOK
  <2> HIDE DEF Inv
  <2> QED BY <1>14, <1>15, <1>18, <2>1, <2>2, <2>3, <2>4, ServedPromise
<1> QED BY <1>18, <1>19

\* The removal that rpc_result posts is right when nothing running still waits
\* under that id.
LEMMA RemovalElements ==
  ASSUME NEW id \in Nat
  PROVE  /\ RpcCompleted(id) \in Seq(Runnables)
         /\ Len(RpcCompleted(id)) = 1
         /\ RpcCompleted(id)[1] = [op |-> "rpcCompleted", id |-> id]
<1>1. [op |-> "rpcCompleted", id |-> id] \in Runnables
  BY DEF Runnables
<1> QED BY <1>1 DEF RpcCompleted

\* The stage queue after an rpc_result.
LEMMA StageAfterAnswer ==
  ASSUME Inv, stage # <<>>, NEW id \in 1..lastId,
         RunPosting(RpcCompleted(id)),
         lastId' \in Nat, lastId' >= lastId,
         \A d \in Runnables : PostedRight(d) => PostedRight(d)',
         \A r \in running' : msgId'[r] = id => calls'[r] > 0
  PROVE  stage' \in Seq(Runnables) /\ StageRight'
<1>1. id \in Nat /\ id \in 1..lastId'
  BY DEF Inv, TypeOK
<1>2. PICK t : t = RpcCompleted(id)
  OBVIOUS
<1>3. t \in Seq(Runnables) /\ Len(t) = 1 /\ t[1] = [op |-> "rpcCompleted", id |-> id]
  BY <1>1, <1>2, RemovalElements
<1>4. ASSUME NEW i \in 1..Len(t), NEW d \in Runnables, d = t[i]
      PROVE  PostedRight(d)' /\ d.op # "perform"
  <2>1. d = [op |-> "rpcCompleted", id |-> id]
    BY <1>3, <1>4
  <2>2. d.op = "rpcCompleted" /\ d.id = id
    BY <2>1
  <2> QED BY <1>1, <2>2 DEF PostedRight
<1> QED BY <1>2, <1>3, <1>4, StageAfterHandler

\* rpc_result that settles: the removal it posts names a completed request.
LEMMA RunResultKeepsInv ==
  ASSUME Inv, RunResult PROVE Inv' /\ Service!Serve
<1> DEFINE found == { r \in running : msgId[r] = Head(stage).id }
           ran == [r \in Requests |-> IF r \in found THEN calls[r] + 1 ELSE calls[r]]
<1>1. stage # <<>> /\ Head(stage).op = "answer"
  BY DEF RunResult, HeadIs
<1>2. PICK id \in 1..lastId : id = Head(stage).id
  BY <1>1, HeadFacts DEF PostedRight
<1>3. /\ RunPosting(RpcCompleted(id))
      /\ seenAnswers' = seenAnswers \cup {id}
      /\ completed' = completed \cup found
      /\ UNCHANGED <<arrival, wait, session, seenSessions, netVars, serverVars, callerVars>>
      /\ ProcessRequestQueue(queue, running, msgId, chan, due, ran, {})
  BY <1>2 DEF RunResult
<1>4. PICK done : done = ran
  OBVIOUS
<1>5. /\ done \in [Requests -> Nat]
      /\ \A r \in Requests : done[r] >= calls[r]
      /\ \A r \in running : msgId[r] = id => done[r] > 0
  BY <1>2, <1>4 DEF Inv, TypeOK
<1> HIDE DEF ran
<1>6. Ready(queue, running, msgId, chan, due, done)
  <2>1. completed' \subseteq Requests /\ arrival' = arrival
    BY <1>3 DEF Inv, TypeOK
  <2> QED BY <1>5, <2>1, AlwaysReady DEF Ready
<1>7. ArrivesOnce' /\ \A r \in queue \cup running : arrival'[r] # 0
  BY <1>3 DEF Inv, ArrivesOnce, OnOneList, callerVars
<1>8. /\ wait' \subseteq Requests /\ session' \in Nat
      /\ seenAnswers' \subseteq Nat /\ seenSessions' \subseteq Nat
      /\ \A r \in Requests : msgId[r] = 0 \/ msgId[r] = msgId[r]
      /\ UNCHANGED <<netVars, serverVars, callerVars>>
      /\ ProcessRequestQueue(queue, running, msgId, chan, due, done, {})
  <2>1. id \in Nat
    BY DEF Inv, TypeOK
  <2>2. wait' = wait /\ session' = session /\ seenSessions' = seenSessions
    BY <1>3
  <2>3. ProcessRequestQueue(queue, running, msgId, chan, due, done, {})
    BY <1>3, <1>4
  <2> QED BY <1>3, <2>1, <2>2, <2>3 DEF Inv, TypeOK
<1>9. /\ stage' \in Seq(Runnables) => TypeOK'
      /\ OnOneList' /\ IdsIssued' /\ IdNamesOneRequest'
      /\ Served(queue, running, msgId, done)
      /\ \A d \in Runnables :
           /\ PostedRight(d)
           /\ d.op = "perform" => arrival'[d.r] = arrival[d.r]
           => PostedRight(d)'
  BY <1>5, <1>6, <1>7, <1>8, HandlerKeepsInv
<1>10. ASSUME NEW r \in running', msgId'[r] = id PROVE calls'[r] > 0
  <2>1. /\ msgId'[r] > lastId \/ (r \in running /\ msgId'[r] = msgId[r])
        /\ \A x \in Requests : calls'[x] >= done[x] /\ calls'[x] \in Nat
        /\ running' \subseteq Requests
    BY <1>9 DEF Served, Inv, TypeOK
  <2>2. r \in running /\ msgId[r] = id
    BY <1>10, <2>1 DEF Inv, TypeOK
  <2> QED BY <1>5, <2>1, <2>2
<1>11. stage' \in Seq(Runnables) /\ StageRight'
  <2>1. lastId' \in Nat /\ lastId' >= lastId
    BY <1>9 DEF Served
  <2>2. \A d \in Runnables : PostedRight(d) => PostedRight(d)'
    BY <1>3, <1>9
  <2> QED BY <1>1, <1>3, <1>10, <2>1, <2>2, StageAfterAnswer
<1>12. Inv'
  BY <1>7, <1>9, <1>11 DEF Inv
<1>13. Service!Serve
  <2>1. arrival' = arrival /\ UNCHANGED revoked
    BY <1>3 DEF callerVars
  <2>2. \A r \in Requests : r \notin running => done[r] = calls[r]
    BY <1>4 DEF ran
  <2> QED BY <1>5, <1>6, <1>9, <1>12, <2>1, <2>2, ServedPromise
<1> QED BY <1>12, <1>13

\* rpc_result that asks for a retry: nothing running waits under that id.
LEMMA RunRetryLaterKeepsInv ==
  ASSUME Inv, RunRetryLater PROVE Inv' /\ Service!Serve
<1> DEFINE found == { r \in running : msgId[r] = Head(stage).id }
           flood == Head(stage).out = "flood"
           ids0 == [r \in Requests |-> IF r \in found THEN 0 ELSE msgId[r]]
           chans0 == [r \in Requests |-> IF r \in found THEN 0 ELSE chan[r]]
           dues0 == [r \in Requests |-> due[r] /\ ~(flood /\ r \in found)]
<1>1. stage # <<>> /\ Head(stage).op = "answer"
  BY DEF RunRetryLater, HeadIs
<1>2. PICK id \in 1..lastId : id = Head(stage).id
  BY <1>1, HeadFacts DEF PostedRight
<1>3. /\ RunPosting(IF found = {} THEN RpcCompleted(id) ELSE <<>>)
      /\ seenAnswers' = seenAnswers \cup {id}
      /\ wait' = IF flood THEN wait \cup found ELSE wait
      /\ UNCHANGED <<arrival, completed, session, seenSessions, netVars, serverVars,
                     callerVars>>
      /\ ProcessRequestQueue(queue, running, ids0, chans0, dues0, calls, {})
  BY <1>2 DEF RunRetryLater
<1>4. PICK ids : ids = ids0
  OBVIOUS
<1>5. PICK chans : chans = chans0
  OBVIOUS
<1>6. PICK dues : dues = dues0
  OBVIOUS
<1>7. /\ ids \in [Requests -> Nat]
      /\ \A r \in Requests : ids[r] = 0 \/ ids[r] = msgId[r]
      /\ \A r \in running : ids[r] # id
  BY <1>2, <1>4 DEF Inv, TypeOK
<1>8. chans \in [Requests -> Nat]
  BY <1>5 DEF Inv, TypeOK
<1>9. dues \in [Requests -> BOOLEAN]
  BY <1>6
<1> HIDE DEF ids0, chans0, dues0
<1>10. Ready(queue, running, ids, chans, dues, calls)
  <2>1. Ready(queue, running, msgId, chan, due, calls)
    <3>1. arrival' = arrival /\ completed' = completed
      BY <1>3
    <3>2. completed' \subseteq Requests
      BY <3>1 DEF Inv, TypeOK
    <3> QED BY <3>1, <3>2, AlwaysReady
  <2>2. lastId \in Nat /\ \A r \in Requests : ids[r] <= lastId
    <3>1. lastId \in Nat /\ \A r \in Requests : msgId[r] <= lastId
      BY DEF Inv, TypeOK, IdsIssued
    <3> QED BY <1>7, <3>1
  <2>3. ASSUME NEW r \in running, ids[r] # 0
        PROVE  \E m \in wire : m.id = ids[r] /\ m.r = r
    <3>1. r \in Requests /\ ids[r] = msgId[r]
      BY <1>7, <2>1, <2>3 DEF Ready
    <3> QED BY <2>1, <2>3, <3>1 DEF Ready
  <2> QED BY <1>7, <1>8, <1>9, <2>1, <2>2, <2>3 DEF Ready
<1>11. ArrivesOnce' /\ \A r \in queue \cup running : arrival'[r] # 0
  BY <1>3 DEF Inv, ArrivesOnce, OnOneList, callerVars
<1>12. /\ wait' \subseteq Requests /\ session' \in Nat
       /\ seenAnswers' \subseteq Nat /\ seenSessions' \subseteq Nat
       /\ \A r \in Requests : calls[r] >= calls[r]
       /\ UNCHANGED <<netVars, serverVars, callerVars>>
       /\ ProcessRequestQueue(queue, running, ids, chans, dues, calls, {})
  <2>1. id \in Nat /\ found \subseteq Requests
    BY DEF Inv, TypeOK
  <2>2. session' = session /\ seenSessions' = seenSessions
    BY <1>3
  <2>3. ProcessRequestQueue(queue, running, ids, chans, dues, calls, {})
    BY <1>3, <1>4, <1>5, <1>6
  <2>4. wait' \subseteq Requests /\ seenAnswers' \subseteq Nat
    BY <1>3, <2>1 DEF Inv, TypeOK
  <2> QED BY <1>3, <2>2, <2>3, <2>4 DEF Inv, TypeOK
<1>13. /\ stage' \in Seq(Runnables) => TypeOK'
       /\ OnOneList' /\ IdsIssued' /\ IdNamesOneRequest'
       /\ Served(queue, running, ids, calls)
       /\ \A d \in Runnables :
            /\ PostedRight(d)
            /\ d.op = "perform" => arrival'[d.r] = arrival[d.r]
            => PostedRight(d)'
  BY <1>7, <1>10, <1>11, <1>12, HandlerKeepsInv
<1>14. \A d \in Runnables : PostedRight(d) => PostedRight(d)'
  BY <1>3, <1>13
<1>15. stage' \in Seq(Runnables) /\ StageRight'
  <2>1. CASE found = {}
    <3>1. RunPosting(RpcCompleted(id))
      BY <1>3, <2>1
    <3>2. lastId' \in Nat /\ lastId' >= lastId
      BY <1>13 DEF Served
    <3>3. ASSUME NEW r \in running', msgId'[r] = id PROVE calls'[r] > 0
      <4>1. msgId'[r] > lastId \/ (r \in running /\ msgId'[r] = ids[r])
        BY <1>13 DEF Served
      <4> QED BY <1>7, <3>3, <4>1 DEF Inv, TypeOK
    <3> QED BY <1>1, <1>14, <3>1, <3>2, <3>3, StageAfterAnswer
  <2>2. CASE found # {}
    <3>1. Run
      BY <1>3, <2>2 DEF Run
    <3> QED BY <1>1, <1>14, <3>1, StageAfterQuietHandler
  <2> QED BY <2>1, <2>2
<1>16. Inv'
  BY <1>11, <1>13, <1>15 DEF Inv
<1>17. Service!Serve
  <2>1. arrival' = arrival /\ UNCHANGED revoked
    BY <1>3 DEF callerVars
  <2> QED BY <1>10, <1>12, <1>13, <1>16, <2>1, ServedPromise
<1> QED BY <1>16, <1>17

\* The handlers that make no call.
LEMMA QuietHandlersKeepInv ==
  ASSUME Inv, NEW t \in Seq(Runnables), stage # <<>>, RunPosting(t),
         \A i \in 1..Len(t) : \A d \in Runnables :
           d = t[i] => PostedRight(d)' /\ d.op # "perform",
         UNCHANGED <<arrival, lastId, wire, callerVars>>,
         queue' \subseteq queue, running' \subseteq running,
         msgId' \in [Requests -> Nat],
         \A r \in Requests : msgId'[r] = 0 \/ msgId'[r] = msgId[r],
         calls' \in [Requests -> Nat], \A r \in Requests : calls'[r] >= calls[r]
  PROVE  /\ stage' \in Seq(Runnables) /\ StageRight'
         /\ OnOneList' /\ ArrivesOnce' /\ IdsIssued' /\ IdNamesOneRequest'
<1>1. TypeOK /\ lastId \in Nat /\ lastId' = lastId /\ running' \subseteq Requests
  BY DEF Inv, TypeOK
<1>2. \A d \in Runnables : PostedRight(d) => PostedRight(d)'
  <2>1. /\ lastId' \in Nat /\ lastId' >= lastId /\ arrival' = arrival
        /\ asked \subseteq asked' /\ revoked \subseteq revoked'
    BY <1>1 DEF callerVars
  <2>2. \A r \in running' :
           msgId'[r] > lastId \/ msgId'[r] = 0 \/ (r \in running /\ msgId'[r] = msgId[r])
    BY <1>1
  <2> QED BY <1>1, <2>1, <2>2, StillRight
<1>3. stage' \in Seq(Runnables) /\ StageRight'
  BY <1>2, StageAfterHandler
<1>4. OnOneList' /\ ArrivesOnce'
  BY DEF Inv, OnOneList, ArrivesOnce, callerVars
<1>5. IdsIssued'
  <2>1. \A r \in Requests : msgId[r] <= lastId
    BY DEF Inv, IdsIssued
  <2>2. \A r \in Requests : msgId'[r] <= lastId'
    BY <1>1, <2>1
  <2>3. \A m \in wire' : m.id \in 1..lastId'
    BY <1>1 DEF Inv, IdsIssued
  <2> QED BY <2>2, <2>3 DEF IdsIssued
<1>6. IdNamesOneRequest'
  BY <1>1 DEF Inv, IdNamesOneRequest
<1> QED BY <1>3, <1>4, <1>5, <1>6

\* A sequence of no runnables has none.
LEMMA NoRunnables ==
  <<>> \in Seq(Runnables) /\ \A i \in 1..Len(<<>>) : FALSE
OBVIOUS

\* cancelRpc only takes away, and what it takes was revoked.
LEMMA RunCancelKeepsInv == ASSUME Inv, RunCancel PROVE Inv'
<1> DEFINE sent == Head(stage).r \in running /\ Head(stage).op = "cancel"
           drop == sent /\ Class[Head(stage).r] = "generic"
<1>1. /\ stage # <<>> /\ queue' \subseteq queue /\ running' \subseteq running
      /\ RunPosting(IF drop THEN <<[op |-> "drop"]>> ELSE <<>>)
      /\ UNCHANGED <<arrival, msgId, chan, due, retry, wait, completed, lastId, session,
                     seenAnswers, seenSessions, netVars, wire, serverVars, callerVars,
                     calls, overtaken>>
  BY DEF RunCancel, HeadIs
<1>2. PICK t : t = IF drop THEN <<[op |-> "drop"]>> ELSE <<>>
  OBVIOUS
<1>3. [op |-> "drop"] \in Runnables
  BY DEF Runnables
<1>4. /\ t \in Seq(Runnables)
      /\ \A i \in 1..Len(t) : t[i] = [op |-> "drop"]
  BY <1>2, <1>3
<1>5. \A i \in 1..Len(t) : \A d \in Runnables :
        d = t[i] => PostedRight(d)' /\ d.op # "perform"
  BY <1>4 DEF PostedRight
<1>6. /\ msgId' \in [Requests -> Nat] /\ calls' \in [Requests -> Nat]
      /\ \A r \in Requests : msgId'[r] = 0 \/ msgId'[r] = msgId[r]
      /\ \A r \in Requests : calls'[r] >= calls[r]
  <2>1. msgId' = msgId /\ calls' = calls
    BY <1>1
  <2> QED BY <2>1 DEF Inv, TypeOK
<1>7. /\ stage' \in Seq(Runnables) /\ StageRight'
      /\ OnOneList' /\ ArrivesOnce' /\ IdsIssued' /\ IdNamesOneRequest'
  <2>1. RunPosting(t) /\ UNCHANGED <<arrival, lastId, wire, callerVars>>
    BY <1>1, <1>2
  <2> QED BY <1>1, <1>4, <1>5, <1>6, <2>1, QuietHandlersKeepInv
<1>8. TypeOK'
  BY <1>1, <1>7 DEF Inv, TypeOK, netVars, serverVars, callerVars
<1> QED BY <1>7, <1>8 DEF Inv

\* A dropped packet changes nothing but the stage queue.
LEMMA RunIgnoredAnswerKeepsInv == ASSUME Inv, RunIgnoredAnswer PROVE Inv'
<1>1. /\ stage # <<>> /\ RunPosting(<<>>)
      /\ UNCHANGED <<engineVars, netVars, wire, serverVars, callerVars, histVars>>
  BY DEF RunIgnoredAnswer, HeadIs, Run
<1>2. \A d \in Runnables : PostedRight(d) => PostedRight(d)'
  BY <1>1 DEF PostedRight, engineVars, histVars, callerVars
<1>3. stage' \in Seq(Runnables) /\ StageRight'
  BY <1>1, <1>2, StageAfterQuietHandler DEF Run
<1>4. TypeOK'
  BY <1>1, <1>3 DEF Inv, TypeOK, engineVars, netVars, serverVars, callerVars, histVars
<1>5. OnOneList' /\ ArrivesOnce' /\ IdsIssued' /\ IdNamesOneRequest'
  BY <1>1 DEF Inv, OnOneList, ArrivesOnce, IdsIssued, IdNamesOneRequest,
              engineVars, callerVars
<1> QED BY <1>3, <1>4, <1>5 DEF Inv

\* rpcCompleted removes requests and leaves the others as they are.
LEMMA RunRpcCompletedKeepsInv == ASSUME Inv, RunRpcCompleted PROVE Inv'
<1>1. /\ stage # <<>> /\ RunPosting(<<>>) /\ running' \subseteq running
      /\ UNCHANGED <<queue, arrival, msgId, chan, due, retry, wait, completed, lastId,
                     session, seenAnswers, seenSessions, netVars, wire, serverVars,
                     callerVars, histVars>>
  BY DEF RunRpcCompleted, HeadIs, Run
<1>2. /\ msgId' \in [Requests -> Nat] /\ calls' \in [Requests -> Nat]
      /\ \A r \in Requests : msgId'[r] = 0 \/ msgId'[r] = msgId[r]
      /\ \A r \in Requests : calls'[r] >= calls[r]
      /\ queue' \subseteq queue
  <2>1. msgId' = msgId /\ calls' = calls /\ queue' = queue
    BY <1>1 DEF histVars
  <2> QED BY <2>1 DEF Inv, TypeOK
<1>3. /\ stage' \in Seq(Runnables) /\ StageRight'
      /\ OnOneList' /\ ArrivesOnce' /\ IdsIssued' /\ IdNamesOneRequest'
  <2>1. UNCHANGED <<arrival, lastId, wire, callerVars>>
    BY <1>1
  <2> QED BY <1>1, <1>2, <2>1, NoRunnables, QuietHandlersKeepInv
<1>4. TypeOK'
  BY <1>1, <1>3 DEF Inv, TypeOK, netVars, serverVars, callerVars, histVars
<1> QED BY <1>3, <1>4 DEF Inv

\* Wiping ids, channels and start times keeps their types.
LEMMA ForgetTypes ==
  ASSUME Inv, NEW lost, Forget(lost)
  PROVE  /\ msgId' \in [Requests -> Nat] /\ chan' \in [Requests -> Nat]
         /\ due' \in [Requests -> BOOLEAN] /\ overtaken' \subseteq Requests
         /\ \A r \in Requests : msgId'[r] = 0 \/ msgId'[r] = msgId[r]
BY DEF Forget, Inv, TypeOK

\* new_session_created wipes ids, which can only free them.
LEMMA RunNewSessionKeepsInv == ASSUME Inv, RunNewSession PROVE Inv'
<1>1. PICK lost : Forget(lost)
  BY DEF RunNewSession
<1>2. /\ stage # <<>> /\ RunPosting(<<>>) /\ Head(stage).op = "newSession"
      /\ seenSessions' \subseteq seenSessions \cup {Head(stage).u}
      /\ UNCHANGED <<queue, running, arrival, retry, wait, completed, lastId, session,
                     seenAnswers, netVars, wire, serverVars, callerVars, calls>>
  BY DEF RunNewSession, HeadIs, Run
<1>3. /\ msgId' \in [Requests -> Nat] /\ chan' \in [Requests -> Nat]
      /\ due' \in [Requests -> BOOLEAN] /\ overtaken' \subseteq Requests
      /\ \A r \in Requests : msgId'[r] = 0 \/ msgId'[r] = msgId[r]
  BY <1>1, ForgetTypes
<1>4. /\ calls' \in [Requests -> Nat] /\ \A r \in Requests : calls'[r] >= calls[r]
      /\ queue' \subseteq queue /\ running' \subseteq running
  <2>1. calls' = calls /\ queue' = queue /\ running' = running
    BY <1>2
  <2> QED BY <2>1 DEF Inv, TypeOK
<1>5. /\ stage' \in Seq(Runnables) /\ StageRight'
      /\ OnOneList' /\ ArrivesOnce' /\ IdsIssued' /\ IdNamesOneRequest'
  <2>1. UNCHANGED <<arrival, lastId, wire, callerVars>>
    BY <1>2
  <2> QED BY <1>2, <1>3, <1>4, <2>1, NoRunnables, QuietHandlersKeepInv
<1>6. seenSessions' \subseteq Nat
  BY <1>2, HeadFacts, RunnableFields DEF Inv, TypeOK
<1>7. TypeOK'
  BY <1>2, <1>3, <1>5, <1>6 DEF Inv, TypeOK, netVars, serverVars, callerVars
<1> QED BY <1>5, <1>7 DEF Inv

\* So does bad_msg_notification, for all that is running.
LEMMA RunBadMsgKeepsInv == ASSUME Inv, RunBadMsg PROVE Inv'
<1>1. /\ stage # <<>> /\ RunPosting(<<>>)
      /\ UNCHANGED <<netVars, wire, serverVars, callerVars>>
  BY DEF RunBadMsg, HeadIs, Run
<1>2. CASE Head(stage).sess # session
  <2>1. UNCHANGED <<engineVars, histVars>>
    BY <1>2 DEF RunBadMsg
  <2>2. \A d \in Runnables : PostedRight(d) => PostedRight(d)'
    BY <1>1, <2>1 DEF PostedRight, engineVars, histVars, callerVars
  <2>3. stage' \in Seq(Runnables) /\ StageRight'
    BY <1>1, <2>2, StageAfterQuietHandler DEF Run
  <2>4. TypeOK'
    BY <1>1, <2>1, <2>3 DEF Inv, TypeOK, engineVars, netVars, serverVars, callerVars,
                            histVars
  <2>5. OnOneList' /\ ArrivesOnce' /\ IdsIssued' /\ IdNamesOneRequest'
    BY <1>1, <2>1 DEF Inv, OnOneList, ArrivesOnce, IdsIssued, IdNamesOneRequest,
                      engineVars, callerVars
  <2> QED BY <2>3, <2>4, <2>5 DEF Inv
<1>3. CASE Head(stage).sess = session
  <2>1. /\ RecreateSessions /\ Forget(running)
        /\ UNCHANGED <<queue, running, arrival, retry, wait, completed, lastId, calls>>
    BY <1>3 DEF RunBadMsg
  <2>2. PICK lost : Forget(lost)
    BY <2>1
  <2>3. /\ msgId' \in [Requests -> Nat] /\ chan' \in [Requests -> Nat]
        /\ due' \in [Requests -> BOOLEAN] /\ overtaken' \subseteq Requests
        /\ \A r \in Requests : msgId'[r] = 0 \/ msgId'[r] = msgId[r]
    BY <2>2, ForgetTypes
  <2>4. /\ calls' \in [Requests -> Nat] /\ \A r \in Requests : calls'[r] >= calls[r]
        /\ queue' \subseteq queue /\ running' \subseteq running
    <3>1. calls' = calls /\ queue' = queue /\ running' = running
      BY <2>1
    <3> QED BY <3>1 DEF Inv, TypeOK
  <2>5. /\ stage' \in Seq(Runnables) /\ StageRight'
        /\ OnOneList' /\ ArrivesOnce' /\ IdsIssued' /\ IdNamesOneRequest'
    <3>1. UNCHANGED <<arrival, lastId, wire, callerVars>>
      BY <1>1, <2>1
    <3> QED BY <1>1, <2>3, <2>4, <3>1, NoRunnables, QuietHandlersKeepInv
  <2>6. session' \in Nat /\ seenAnswers' \subseteq Nat /\ seenSessions' \subseteq Nat
    BY <2>1 DEF RecreateSessions, Inv, TypeOK
  <2>7. TypeOK'
    BY <1>1, <2>1, <2>3, <2>5, <2>6 DEF Inv, TypeOK, netVars, serverVars, callerVars
  <2> QED BY <2>5, <2>7 DEF Inv
<1> QED BY <1>2, <1>3

\* cleanUp empties both lists.
LEMMA RunCleanUpKeepsInv == ASSUME Inv, RunCleanUp PROVE Inv'
<1>1. /\ stage # <<>> /\ RunPosting(<<>>) /\ RecreateSessions
      /\ queue' = {} /\ running' = {}
      /\ calls' = FailAll(queue \cup running)
      /\ overtaken' = overtaken \cup (running \cap completed)
      /\ UNCHANGED <<arrival, msgId, chan, due, retry, wait, completed, lastId,
                     netVars, wire, serverVars, callerVars>>
  BY DEF RunCleanUp, HeadIs, Run
<1>2. /\ calls' \in [Requests -> Nat] /\ \A r \in Requests : calls'[r] >= calls[r]
      /\ queue' \subseteq queue /\ running' \subseteq running
  BY <1>1 DEF FailAll, Inv, TypeOK
<1>3. /\ msgId' \in [Requests -> Nat]
      /\ \A r \in Requests : msgId'[r] = 0 \/ msgId'[r] = msgId[r]
  <2>1. msgId' = msgId
    BY <1>1
  <2> QED BY <2>1 DEF Inv, TypeOK
<1>4. /\ stage' \in Seq(Runnables) /\ StageRight'
      /\ OnOneList' /\ ArrivesOnce' /\ IdsIssued' /\ IdNamesOneRequest'
  <2>1. UNCHANGED <<arrival, lastId, wire, callerVars>>
    BY <1>1
  <2> QED BY <1>1, <1>2, <1>3, <2>1, NoRunnables, QuietHandlersKeepInv
<1>5. session' \in Nat /\ seenAnswers' \subseteq Nat /\ seenSessions' \subseteq Nat
  BY <1>1 DEF RecreateSessions, Inv, TypeOK
<1>6. TypeOK'
  BY <1>1, <1>2, <1>4, <1>5 DEF Inv, TypeOK, netVars, serverVars, callerVars
<1> QED BY <1>4, <1>6 DEF Inv

\* A timeout changes no id and no list.
LEMMA TimePassesKeepsInv ==
  ASSUME Inv, NEW r \in Requests, TimePasses(r) PROVE Inv'
<1>1. /\ due' = [due EXCEPT ![r] = TRUE]
      /\ UNCHANGED <<stage, queue, running, arrival, msgId, chan, retry, wait, completed,
                     lastId, session, seenAnswers, seenSessions, netVars, wire,
                     serverVars, callerVars, histVars>>
  BY DEF TimePasses
<1>2. due' \in [Requests -> BOOLEAN]
  BY <1>1 DEF Inv, TypeOK
<1>3. TypeOK'
  BY <1>1, <1>2 DEF Inv, TypeOK, netVars, serverVars, callerVars, histVars
<1>4. OnOneList' /\ ArrivesOnce' /\ IdsIssued' /\ IdNamesOneRequest'
  BY <1>1 DEF Inv, OnOneList, ArrivesOnce, IdsIssued, IdNamesOneRequest, callerVars
<1>5. StageRight'
  BY <1>1 DEF Inv, StageRight, PostedRight, callerVars, histVars
<1> QED BY <1>3, <1>4, <1>5 DEF Inv

-----------------------------------------------------------------------------
(* The invariant, and what it gives. *)

\* Inv holds at the start.
LEMMA InitInv == Init => Inv
<1> SUFFICES ASSUME Init PROVE Inv
  OBVIOUS
<1>1. TypeOK
  BY FS_EmptySet DEF Init, TypeOK
<1>2. ArrivesOnce
  <2>1. Cardinality({x \in Requests : arrival[x] # 0}) = 0
    <3>1. {x \in Requests : arrival[x] # 0} = {}
      BY DEF Init
    <3> QED BY <3>1, FS_EmptySet
  <2>2. \A r \in Requests : arrival[r] = 0
    BY DEF Init
  <2> QED BY <2>1, <2>2 DEF ArrivesOnce
<1>3. OnOneList /\ StageRight /\ IdsIssued /\ IdNamesOneRequest
  BY DEF Init, OnOneList, StageRight, IdsIssued, IdNamesOneRequest
<1> QED BY <1>1, <1>2, <1>3 DEF Inv

\* Every step keeps Inv.
LEMMA NextInv == Inv /\ [Next]_vars => Inv'
<1> SUFFICES ASSUME Inv, [Next]_vars PROVE Inv'
  OBVIOUS
<1>1. CASE UNCHANGED vars
  BY <1>1 DEF vars, engineVars, netVars, serverVars, callerVars, histVars, Inv, TypeOK,
              OnOneList, ArrivesOnce, StageRight, PostedRight, IdsIssued, IdNamesOneRequest
<1>2. CASE Callers
  BY <1>2, CallersKeepInv
<1>3. CASE Network
  BY <1>3, NetworkKeepsInv
<1>4. CASE Server
  BY <1>4, ServerKeepsInv
<1>5. CASE RunHead
  BY <1>5, RunPerformKeepsInv, RunCancelKeepsInv, QuietCallsKeepInv,
     RunIgnoredAnswerKeepsInv, RunResultKeepsInv, RunRetryLaterKeepsInv,
     RunRpcCompletedKeepsInv, RunNewSessionKeepsInv, RunBadMsgKeepsInv,
     RunCleanUpKeepsInv DEF RunHead
<1>6. CASE Tick
  BY <1>6, QuietCallsKeepInv
<1>7. CASE \E r \in Requests : TimePasses(r)
  BY <1>7, TimePassesKeepsInv
<1> QED BY <1>1, <1>2, <1>3, <1>4, <1>5, <1>6, <1>7 DEF Next

\* Inv is an invariant of the engine.
THEOREM Invariance == Spec => []Inv
BY InitInv, NextInv, PTL DEF Spec

\* Every variable keeps to its type, for any number of requests and any bounds.
THEOREM TypeCorrect == Spec => []TypeOK
<1>1. Inv => TypeOK
  BY DEF Inv
<1> QED BY <1>1, Invariance, PTL

\* Ids never name two requests: an answer completes the request it is for.
THEOREM IdsAreUnique == Spec => []IdNamesOneRequest
<1>1. Inv => IdNamesOneRequest
  BY DEF Inv
<1> QED BY <1>1, Invariance, PTL

-----------------------------------------------------------------------------
(* The engine keeps the promise of RpcService. *)

\* Nothing is accepted or pending at the start.
LEMMA InitPromise == Init => Service!Init
BY DEF Init, Service!Init

\* The steps that disturb neither lists, arrivals nor completions stutter, but
\* for the call of cancelRpc itself.
LEMMA OthersPromise ==
  ASSUME Inv, Callers \/ Network \/ Server \/ RunIgnoredAnswer \/ RunNewSession
              \/ (\E r \in Requests : TimePasses(r)) \/ UNCHANGED vars
  PROVE  [Service!Next]_(Service!vars)
<1>1. ASSUME UNCHANGED <<queue, running, arrival, calls, revoked>>
      PROVE  UNCHANGED Service!vars
  BY <1>1 DEF Service!vars
<1>2. CASE Callers
  <2>1. ASSUME NEW r \in Requests, NEW ifNotSent \in BOOLEAN, CancelRpc(r, ifNotSent)
        PROVE  Service!Revoke(r)
    BY <2>1 DEF CancelRpc, Service!Revoke, engineVars, histVars
  <2>2. ASSUME NEW r \in Requests, PerformRpc(r) PROVE UNCHANGED Service!vars
    BY <1>1, <2>2 DEF PerformRpc, engineVars, histVars
  <2>3. ASSUME CleanUp PROVE UNCHANGED Service!vars
    BY <1>1, <2>3 DEF CleanUp, engineVars, callerVars, histVars
  <2> QED BY <1>2, <2>1, <2>2, <2>3 DEF Callers, Service!Next
<1>3. CASE Network
  BY <1>1, <1>3 DEF Network, Connect, Disconnect, engineVars, callerVars, histVars
<1>4. CASE Server
  BY <1>1, <1>4 DEF Server, ServerAnswer, ServerAnswerLost, ServerNewSession,
     ServerRepeatsNewSession, ServerBadMsg, ServerBadSalt, engineVars, callerVars, histVars
<1>5. CASE RunIgnoredAnswer
  BY <1>1, <1>5 DEF RunIgnoredAnswer, engineVars, callerVars, histVars
<1>6. CASE RunNewSession
  BY <1>1, <1>6 DEF RunNewSession, callerVars
<1>7. CASE \E r \in Requests : TimePasses(r)
  BY <1>1, <1>7 DEF TimePasses, callerVars, histVars
<1>8. CASE UNCHANGED vars
  BY <1>1, <1>8 DEF vars, engineVars, callerVars, histVars
<1> QED BY <1>2, <1>3, <1>4, <1>5, <1>6, <1>7, <1>8

\* The handlers that end in processRequestQueue.
LEMMA CallsPromise ==
  ASSUME Inv, Inv',
         RunPerform \/ RunDrop \/ RunConnected \/ Tick \/ RunBadSalt
           \/ RunResult \/ RunRetryLater
  PROVE  [Service!Next]_(Service!vars)
<1>1. ASSUME NEW forced, ProcessAsIs(forced),
             UNCHANGED <<arrival, wait, completed, session, seenAnswers, seenSessions,
                         netVars, serverVars, callerVars>>
      PROVE  Service!Serve
  <2>1. completed' \subseteq Requests /\ arrival' = arrival /\ UNCHANGED revoked
    BY <1>1 DEF Inv, TypeOK, callerVars
  <2>2. Ready(queue, running, msgId, chan, due, calls)
    BY <2>1, AlwaysReady
  <2>3. Served(queue, running, msgId, calls)
    BY <1>1, AsIsKeepsInv
  <2>4. \A r \in Requests : calls[r] >= calls[r]
    BY DEF Inv, TypeOK
  <2> QED BY <2>1, <2>2, <2>3, <2>4, ServedPromise
<1>2. CASE RunDrop \/ RunConnected \/ Tick
  <2>1. PICK forced : ProcessAsIs(forced)
    BY <1>2 DEF RunDrop, RunConnected, Tick
  <2>2. UNCHANGED <<arrival, wait, completed, session, seenAnswers, seenSessions,
                    netVars, serverVars, callerVars>>
    BY <1>2 DEF RunDrop, RunConnected, Tick
  <2> QED BY <1>1, <2>1, <2>2 DEF Service!Next
<1>3. CASE RunBadSalt
  <2>1. CASE Head(stage).sess # session
    BY <1>3, <2>1 DEF RunBadSalt, engineVars, histVars, callerVars, Service!vars
  <2>2. CASE Head(stage).sess = session
    <3>1. /\ ProcessAsIs(Classes)
          /\ UNCHANGED <<arrival, wait, completed, session, seenAnswers, seenSessions,
                         netVars, serverVars, callerVars>>
      BY <1>3, <2>2 DEF RunBadSalt
    <3> QED BY <1>1, <3>1 DEF Service!Next
  <2> QED BY <2>1, <2>2
<1>4. CASE RunPerform \/ RunResult \/ RunRetryLater
  BY <1>4, RunPerformKeepsInv, RunResultKeepsInv, RunRetryLaterKeepsInv DEF Service!Next
<1> QED BY <1>2, <1>3, <1>4

\* A cancelled request was revoked: letting go of it withdraws it.
LEMMA RunCancelPromise ==
  ASSUME Inv, RunCancel PROVE [Service!Next]_(Service!vars)
<1>1. PICK r \in Requests : r = Head(stage).r /\ r \in revoked
  BY HeadFacts, RunnableFields DEF RunCancel, HeadIs, PostedRight
<1>2. /\ queue' = queue \ {r}
      /\ running' = running \/ running' = running \ {r}
      /\ arrival' = arrival /\ calls' = calls /\ UNCHANGED revoked
  BY <1>1 DEF RunCancel, callerVars
<1>3. CASE r \in running /\ running' = running
  BY <1>2, <1>3 DEF Inv, OnOneList, Service!vars
<1>4. CASE r \notin queue \cup running
  BY <1>2, <1>4 DEF Service!vars
<1>5. CASE r \in queue \cup running /\ (r \notin running \/ running' # running)
  BY <1>1, <1>2, <1>5 DEF Inv, OnOneList, Service!Withdraw, Service!Next
<1> QED BY <1>3, <1>4, <1>5

\* rpcCompleted lets go only of requests whose block has run.
LEMMA RunRpcCompletedPromise ==
  ASSUME Inv, RunRpcCompleted PROVE Service!Serve
<1>1. /\ stage # <<>> /\ Head(stage).op = "rpcCompleted"
      /\ running' = { r \in running : msgId[r] # Head(stage).id }
      /\ queue' = queue /\ arrival' = arrival /\ calls' = calls /\ UNCHANGED revoked
  BY DEF RunRpcCompleted, HeadIs, callerVars, histVars
<1>2. \A r \in running \ running' : calls[r] > 0
  BY <1>1, HeadFacts DEF PostedRight
<1> QED BY <1>1, <1>2 DEF Inv, TypeOK, Service!Serve

\* Wiping ids lets go of nothing.
LEMMA RunBadMsgPromise ==
  ASSUME Inv, RunBadMsg PROVE UNCHANGED Service!vars
BY DEF RunBadMsg, engineVars, histVars, callerVars, Service!vars

\* cleanUp runs the block of all it lets go.
LEMMA RunCleanUpPromise ==
  ASSUME Inv, RunCleanUp PROVE Service!Serve
<1>1. /\ queue' = {} /\ running' = {} /\ arrival' = arrival /\ UNCHANGED revoked
      /\ calls' = [r \in Requests |->
                     IF r \in queue \cup running THEN calls[r] + 1 ELSE calls[r]]
  BY DEF RunCleanUp, FailAll, callerVars
<1> QED BY <1>1 DEF Inv, TypeOK, Service!Serve

\* Every step is one the promise allows.
LEMMA NextPromise ==
  Inv /\ Inv' /\ [Next]_vars => [Service!Next]_(Service!vars)
<1> SUFFICES ASSUME Inv, Inv', [Next]_vars PROVE [Service!Next]_(Service!vars)
  OBVIOUS
<1>1. CASE RunHead
  BY <1>1, OthersPromise, CallsPromise, RunCancelPromise, RunRpcCompletedPromise,
     RunBadMsgPromise, RunCleanUpPromise DEF RunHead, Service!Next
<1>2. CASE Tick
  BY <1>2, CallsPromise
<1>3. CASE \/ Callers \/ Network \/ Server \/ UNCHANGED vars
           \/ \E r \in Requests : TimePasses(r)
  BY <1>3, OthersPromise
<1> QED BY <1>1, <1>2, <1>3 DEF Next

\* The engine implements RpcService: whatever the network, the server and the
\* callers do, an accepted request stays pending until its completion block has
\* run or its caller withdrew it, and no block runs for one that is not.
THEOREM Refinement == Spec => KeepsPromise
<1>1. Init => Service!Init
  BY InitPromise
<1>2. Inv /\ Inv' /\ [Next]_vars => [Service!Next]_(Service!vars)
  BY NextPromise
<1> QED BY <1>1, <1>2, Invariance, PTL DEF Spec, KeepsPromise, Service!Spec

-----------------------------------------------------------------------------
(* Lists of requests in the order of arrival. *)

\* Of finitely many requests one arrived last.
LEMMA OneIsLast ==
  ASSUME NEW S, IsFiniteSet(S), S # {}, NEW at, \A x \in S : at[x] \in Nat
  PROVE  \E x \in S : \A y \in S : at[y] <= at[x]
<1> DEFINE After(x) == { y \in S : at[y] > at[x] }
           T == { After(x) : x \in S }
           R == StrictSubsetOrdering(S)
<1>1. T # {} /\ T \subseteq FiniteSubsetsOf(S)
  <2>1. \A x \in S : After(x) \in SUBSET S /\ IsFiniteSet(After(x))
    BY FS_Subset
  <2> QED BY <2>1 DEF FiniteSubsetsOf
<1>2. IsWellFoundedOn(R, FiniteSubsetsOf(S))
  BY FS_StrictSubsetOrderingWellFounded
<1>3. PICK U \in T : \A V \in T : <<V, U>> \notin R
  <2> HIDE DEF R, T
  <2> QED BY <1>1, <1>2, WFMin
<1>4. PICK x \in S : U = After(x)
  OBVIOUS
<1>5. ASSUME NEW y \in S, at[y] > at[x] PROVE FALSE
  <2>1. After(y) \subseteq After(x)
    BY <1>5
  <2>2. y \in After(x) /\ y \notin After(y)
    BY <1>5
  <2>3. <<After(y), After(x)>> \in R
    BY <2>1, <2>2 DEF StrictSubsetOrdering
  <2> QED BY <1>3, <1>4, <2>3
<1> QED BY <1>5

-----------------------------------------------------------------------------
(* Slots. *)

\* The requests of rs that are of a class.
Of(c, rs) == { r \in rs : Class[r] = c }

\* Fewer requests take fewer slots.
LEMMA FewerOfClass ==
  ASSUME NEW big \in SUBSET Requests, NEW small, small \subseteq big, NEW c
  PROVE  /\ IsFiniteSet(Of(c, big)) /\ IsFiniteSet(Of(c, small))
         /\ Cardinality(Of(c, small)) \in Nat /\ Cardinality(Of(c, big)) \in Nat
         /\ Cardinality(Of(c, small)) <= Cardinality(Of(c, big))
<1>1. Of(c, big) \subseteq Requests /\ Of(c, small) \subseteq Of(c, big)
  BY DEF Of
<1>2. IsFiniteSet(Of(c, big))
  BY <1>1, FiniteAssumption, FS_Subset
<1> QED BY <1>1, <1>2, FS_Subset, FS_CardinalityType

\* SlotsRespected of a list of running requests.
Fits(run) == \A c \in Classes : Cardinality(Of(c, run)) <= Limit[c]

\* A class that fits its limit still fits when requests leave it.
LEMMA FewerFit ==
  ASSUME NEW big \in SUBSET Requests, NEW small, small \subseteq big, Fits(big)
  PROVE  Fits(small)
<1> SUFFICES ASSUME NEW c \in Classes PROVE Cardinality(Of(c, small)) <= Limit[c]
  BY DEF Fits
<1>1. Cardinality(Of(c, big)) <= Limit[c] /\ Limit[c] \in Nat
  BY ClassAssumption DEF Fits
<1> QED BY <1>1, FewerOfClass

\* processRequestQueue promotes requests only into free slots: the last one it
\* promotes found room for all that came before it.
LEMMA PromotedFit ==
  ASSUME NEW q \in SUBSET Requests, NEW left \in SUBSET Requests, Fits(left),
         arrival' \in [Requests -> Nat]
  PROVE  Fits(left \cup { r \in q : GetsSlot(r, q, left) })
<1> DEFINE promoted == { r \in q : GetsSlot(r, q, left) }
<1> SUFFICES ASSUME NEW c \in Classes
             PROVE  Cardinality(Of(c, left \cup promoted)) <= Limit[c]
  BY DEF Fits
<1>1. Limit[c] \in Nat /\ Cardinality(Of(c, left)) <= Limit[c]
  BY ClassAssumption DEF Fits
<1>2. /\ IsFiniteSet(Of(c, left)) /\ Cardinality(Of(c, left)) \in Nat
      /\ IsFiniteSet(Of(c, promoted)) /\ Cardinality(Of(c, promoted)) \in Nat
  <2>1. promoted \in SUBSET Requests
    OBVIOUS
  <2> QED BY <2>1, FewerOfClass
<1>3. Of(c, left \cup promoted) = Of(c, left) \cup Of(c, promoted)
  BY DEF Of
<1>4. CASE Of(c, promoted) = {}
  <2>1. Of(c, left \cup promoted) = Of(c, left)
    BY <1>3, <1>4
  <2> QED BY <1>1, <2>1
<1>5. CASE Of(c, promoted) # {}
  <2>1. \A x \in Of(c, promoted) : arrival'[x] \in Nat
    BY DEF Of
  <2>2. PICK r \in Of(c, promoted) : \A x \in Of(c, promoted) : arrival'[x] <= arrival'[r]
    <3> HIDE DEF promoted
    <3> QED BY <1>2, <1>5, <2>1, OneIsLast
  <2> DEFINE before == { x \in q : Class[x] = Class[r] /\ arrival'[x] <= arrival'[r] }
  <2>3. r \in q /\ Class[r] = c /\ GetsSlot(r, q, left)
    BY DEF Of
  <2>4. Cardinality(before) + Cardinality(Of(c, left)) <= Limit[c]
    BY <2>3 DEF GetsSlot, Of
  <2>5. Of(c, promoted) \subseteq before
    BY <2>2, <2>3 DEF Of
  <2>6. IsFiniteSet(before) /\ Cardinality(before) \in Nat
    <3>1. before \subseteq Requests
      OBVIOUS
    <3> QED BY <3>1, FiniteAssumption, FS_Subset, FS_CardinalityType
  <2>7. Cardinality(Of(c, promoted)) <= Cardinality(before)
    BY <2>5, <2>6, FS_Subset
  <2>8. Cardinality(Of(c, left) \cup Of(c, promoted)) <=
          Cardinality(Of(c, left)) + Cardinality(Of(c, promoted))
    <3>1. /\ IsFiniteSet(Of(c, left) \cap Of(c, promoted))
          /\ Cardinality(Of(c, left) \cap Of(c, promoted)) \in Nat
      BY <1>2, FS_Subset, FS_CardinalityType
    <3> QED BY <1>2, <3>1, FS_Union
  <2>9. /\ IsFiniteSet(Of(c, left) \cup Of(c, promoted))
        /\ Cardinality(Of(c, left) \cup Of(c, promoted)) \in Nat
    BY <1>2, FS_Union, FS_CardinalityType
  <2> QED BY <1>1, <1>2, <1>3, <2>4, <2>6, <2>7, <2>8, <2>9
<1> QED BY <1>4, <1>5

\* So does the whole call.
LEMMA CallFits ==
  ASSUME NEW q \in SUBSET Requests, NEW run \in SUBSET Requests,
         NEW ids, NEW chans, NEW dues, NEW done, NEW forced, Fits(run),
         arrival' \in [Requests -> Nat],
         ProcessRequestQueue(q, run, ids, chans, dues, done, forced)
  PROVE  Fits(running')
<1>1. PICK left \in SUBSET run : running' = left \cup { r \in q : GetsSlot(r, q, left) }
  BY DEF ProcessRequestQueue
<1>2. left \in SUBSET Requests /\ Fits(left)
  BY FewerFit
<1> QED BY <1>1, <1>2, PromotedFit

\* A step either lets requests go or calls processRequestQueue, with the requests
\* as they run.
LEMMA SlotsStep ==
  ASSUME Inv, Inv', [Next]_vars, Fits(running)
  PROVE  Fits(running')
<1>1. running \in SUBSET Requests /\ queue \in SUBSET Requests /\ arrival' \in [Requests -> Nat]
  BY DEF Inv, TypeOK
<1>2. ASSUME running' \subseteq running PROVE Fits(running')
  BY <1>1, <1>2, FewerFit
<1>3. ASSUME NEW q \in SUBSET Requests, NEW ids, NEW chans, NEW dues, NEW done, NEW forced,
             ProcessRequestQueue(q, running, ids, chans, dues, done, forced)
      PROVE  Fits(running')
  BY <1>1, <1>3, CallFits
<1>4. CASE UNCHANGED vars
  BY <1>2, <1>4 DEF vars, engineVars
<1>5. CASE Callers \/ Network \/ Server
  BY <1>2, <1>5 DEF Callers, PerformRpc, CancelRpc, CleanUp, Network, Connect, Disconnect, Server,
     ServerAnswer, ServerAnswerLost, ServerNewSession, ServerRepeatsNewSession, ServerBadMsg,
     ServerBadSalt, engineVars
<1>6. CASE RunPerform
  <2>1. PICK r \in Requests : r = Head(stage).r
    BY <1>6, HeadFacts, RunnableFields DEF RunPerform, HeadIs
  <2>2. ProcessRequestQueue(queue \cup {r}, running, msgId, chan, due, calls, {})
    BY <1>6, <2>1 DEF RunPerform
  <2>3. queue \cup {r} \in SUBSET Requests
    BY <1>1
  <2> QED BY <1>3, <2>2, <2>3
<1>7. CASE RunDrop \/ RunConnected \/ Tick \/ (RunBadSalt /\ Head(stage).sess = session)
  BY <1>1, <1>3, <1>7 DEF RunDrop, RunConnected, Tick, RunBadSalt, ProcessAsIs
<1>8. CASE RunResult \/ RunRetryLater
  <2>1. PICK ids, chans, dues, done :
          ProcessRequestQueue(queue, running, ids, chans, dues, done, {})
    BY <1>8 DEF RunResult, RunRetryLater
  <2> QED BY <1>1, <1>3, <2>1
<1>9. CASE \/ RunCancel \/ RunIgnoredAnswer \/ RunRpcCompleted \/ RunNewSession \/ RunBadMsg
           \/ RunCleanUp \/ (RunBadSalt /\ Head(stage).sess # session)
           \/ \E r \in Requests : TimePasses(r)
  BY <1>2, <1>9 DEF RunCancel, RunIgnoredAnswer, RunRpcCompleted, RunNewSession, RunBadMsg,
     RunCleanUp, RunBadSalt, TimePasses, engineVars
<1> QED BY <1>4, <1>5, <1>6, <1>7, <1>8, <1>9 DEF Next, RunHead

\* No class ever has more running requests than its limit.
THEOREM SlotsAreRespected == Spec => []SlotsRespected
<1>1. Init => Fits(running)
  <2> SUFFICES ASSUME Init, NEW c \in Classes PROVE Cardinality(Of(c, running)) <= Limit[c]
    BY DEF Fits
  <2>1. Of(c, running) = {} /\ Limit[c] \in Nat
    BY ClassAssumption DEF Init, Of
  <2> QED BY <2>1, FS_EmptySet
<1>2. Fits(running) <=> SlotsRespected
  BY DEF Fits, Of, SlotsRespected
<1>3. Fits(running') <=> SlotsRespected'
  BY DEF Fits, Of, SlotsRespected
<1>4. Inv /\ Inv' /\ [Next]_vars /\ SlotsRespected => SlotsRespected'
  BY <1>2, <1>3, SlotsStep
<1>5. Init => SlotsRespected
  BY <1>1, <1>2
<1> QED BY <1>4, <1>5, Invariance, PTL DEF Spec

-----------------------------------------------------------------------------
(* The end of a request. *)

\* A removal of an id waits in s.
Removes(s, id) == \E i \in 1..Len(s) : s[i].op = "rpcCompleted" /\ s[i].id = id

\* It stays while other runnables run, and while others post theirs.
LEMMA RemovalStays ==
  ASSUME stage \in Seq(Runnables), stage # <<>>, NEW t \in Seq(Runnables), NEW id,
         Removes(stage, id), Head(stage).op # "rpcCompleted" \/ Head(stage).id # id
  PROVE  Removes(Tail(stage) \o t, id)
<1>1. PICK i \in 1..Len(stage) : stage[i].op = "rpcCompleted" /\ stage[i].id = id
  BY DEF Removes
<1>2. i # 1 /\ Len(stage) \in Nat
  BY <1>1
<1>3. i - 1 \in 1..Len(Tail(stage)) /\ Tail(stage)[i - 1] = stage[i]
  BY <1>2
<1>4. /\ i - 1 \in 1..Len(Tail(stage) \o t)
      /\ (Tail(stage) \o t)[i - 1] = Tail(stage)[i - 1]
  BY <1>3
<1> QED BY <1>1, <1>3, <1>4 DEF Removes

\* What is posted behind a removal leaves it on the stage queue.
LEMMA RemovalStaysPosting ==
  ASSUME stage \in Seq(Runnables), NEW e \in Runnables, NEW id, Removes(stage, id)
  PROVE  Removes(Append(stage, e), id)
BY PostElements DEF Removes

\* rpcCompleted, once posted, is on the stage queue.
LEMMA RemovalIsPosted ==
  ASSUME stage \in Seq(Runnables), stage # <<>>, NEW id \in Nat
  PROVE  Removes(Tail(stage) \o RpcCompleted(id), id)
<1>1. PICK t \in Seq(Runnables) :
        t = RpcCompleted(id) /\ Len(t) = 1 /\ t[1] = [op |-> "rpcCompleted", id |-> id]
  BY RemovalElements
<1> DEFINE u == Tail(stage) \o t
<1>2. Len(stage) \in Nat /\ Len(stage) > 0
  OBVIOUS
<1>3. /\ Len(u) = Len(stage) - 1 + Len(t)
      /\ \A i \in 1..Len(u) :
           \/ i < Len(stage) /\ i + 1 \in 1..Len(stage) /\ u[i] = stage[i + 1]
           \/ /\ i >= Len(stage) /\ i + 1 - Len(stage) \in 1..Len(t)
              /\ u[i] = t[i + 1 - Len(stage)]
  BY RunPostingElements
<1> HIDE DEF u
<1>4. u[Len(stage)] = t[1] /\ Len(stage) \in 1..Len(u)
  BY <1>1, <1>2, <1>3
<1> QED BY <1>1, <1>4 DEF Removes, u

\* What was never sent has not ended.
Untouched ==
  \A r \in Requests :
    r \in queue \/ arrival[r] = 0 => calls[r] = 0 /\ r \notin completed

\* What still runs has not ended, or it ended once and was completed.
RanOnce ==
  \A r \in running \ overtaken : calls[r] = 0 \/ (calls[r] = 1 /\ r \in completed)

\* The answer that completed a running request was seen in this session, so it
\* will not be taken again.
AnswerSeen ==
  /\ seenAnswers \subseteq 1..lastId
  /\ \A r \in (running \cap completed) \ overtaken : msgId[r] \in seenAnswers

\* The inductive invariant of CompletesOnce and CompletedIsRemoved.
EndsInv == Untouched /\ RanOnce /\ AnswerSeen /\ CompletesOnce /\ CompletedIsRemoved

\* The same of what a handler has when it calls processRequestQueue.
EndsReady(q, ids, done) ==
  /\ q \subseteq Requests /\ q \cap running = {}
  /\ ids \in [Requests -> Nat] /\ done \in [Requests -> Nat]
  /\ \A r \in Requests :
       r \in q \/ arrival'[r] = 0 => done[r] = 0 /\ r \notin completed'
  /\ \A r \in running \ overtaken : done[r] = 0 \/ (done[r] = 1 /\ r \in completed')
  /\ seenAnswers' \subseteq 1..lastId
  /\ \A r \in (running \cap completed') \ overtaken :
       ids[r] \in seenAnswers' /\ Removes(stage', ids[r])
  /\ \A r \in Requests : done[r] > 1 => r \in overtaken
  /\ \A r \in running : arrival'[r] # 0

\* The call keeps it: a request that has ended keeps its id, and one that is out
\* of attempts leaves.
LEMMA CallEnds ==
  ASSUME Inv, Inv', NEW q, NEW ids, NEW chans, NEW dues, NEW done, NEW forced,
         EndsReady(q, ids, done),
         ProcessRequestQueue(q, running, ids, chans, dues, done, forced)
  PROVE  EndsInv'
<1> DEFINE again    == { r \in running : SendsAgain(r, ids, chans, dues, forced) }
           expired  == { r \in again : OutOfRetries(r) }
           left     == running \ expired
           promoted == { r \in q : GetsSlot(r, q, left) }
           fresh    == promoted \cup { r \in again \ expired : NeedsId(r, ids) }
<1>1. PICK new \in Numberings(fresh) :
       /\ queue'   = q \ promoted
       /\ running' = left \cup promoted
       /\ msgId'   = [r \in Requests |-> IF r \in fresh THEN new[r] ELSE ids[r]]
       /\ calls'   = [r \in Requests |->
                        IF r \in expired THEN done[r] + 1 ELSE done[r]]
       /\ overtaken' = overtaken \cup (expired \cap completed')
       /\ lastId'  = lastId + Cardinality(fresh)
  BY DEF ProcessRequestQueue
<1>2. /\ expired \subseteq running /\ promoted \subseteq q
      /\ \A r \in fresh : r \in promoted \/ (r \in running /\ ids[r] = 0)
  BY DEF NeedsId
<1> HIDE DEF again, expired, promoted, fresh
<1>3. running \subseteq Requests /\ lastId \in Nat /\ overtaken \subseteq Requests
  BY DEF Inv, TypeOK
<1>4. lastId' \in Nat /\ lastId <= lastId'
  <2>1. fresh \subseteq Requests
    BY <1>2, <1>3 DEF EndsReady
  <2>2. Cardinality(fresh) \in Nat
    BY <2>1, FiniteAssumption, FS_Subset, FS_CardinalityType
  <2> QED BY <1>1, <1>3, <2>2
<1>5. Untouched'
  <2> SUFFICES ASSUME NEW r \in Requests, r \in queue' \/ arrival'[r] = 0
               PROVE  calls'[r] = 0 /\ r \notin completed'
    BY DEF Untouched
  <2>1. r \notin expired
    BY <1>1, <1>2 DEF EndsReady
  <2>2. done[r] = 0 /\ r \notin completed'
    BY <1>1 DEF EndsReady
  <2> QED BY <1>1, <2>1, <2>2
<1>6. ASSUME NEW r \in running' \ overtaken'
      PROVE  /\ r \in Requests /\ r \notin expired /\ calls'[r] = done[r]
             /\ r \in completed' => /\ r \in running \ overtaken
                                   /\ msgId'[r] = ids[r] /\ ids[r] \in 1..lastId
             /\ r \notin running => r \in q
  <2>1. r \in Requests /\ r \notin expired
    BY <1>1, <1>2, <1>3 DEF EndsReady
  <2>2. calls'[r] = done[r]
    BY <1>1, <2>1
  <2>3. r \notin running => r \in q
    BY <1>1, <1>2
  <2>4. ASSUME r \in completed'
        PROVE  r \in running \ overtaken /\ msgId'[r] = ids[r] /\ ids[r] \in 1..lastId
    <3>1. r \in running \ overtaken
      BY <1>1, <2>1, <2>3, <2>4 DEF EndsReady
    <3>2. ids[r] \in 1..lastId
      BY <2>4, <3>1 DEF EndsReady
    <3>3. r \notin fresh
      BY <1>2, <3>1, <3>2, <1>3 DEF EndsReady
    <3> QED BY <1>1, <2>1, <3>1, <3>2, <3>3
  <2> QED BY <2>1, <2>2, <2>3, <2>4
<1>7. RanOnce'
  BY <1>1, <1>6 DEF RanOnce, EndsReady
<1>8. AnswerSeen'
  BY <1>3, <1>4, <1>6 DEF AnswerSeen, EndsReady
<1>9. CompletesOnce'
  <2> SUFFICES ASSUME NEW r \in Requests, calls'[r] > 1 PROVE r \in overtaken'
    BY DEF CompletesOnce
  <2>1. CASE r \in expired
    BY <1>1, <1>2, <2>1 DEF EndsReady
  <2>2. CASE r \notin expired
    BY <1>1, <2>2 DEF EndsReady
  <2> QED BY <2>1, <2>2
<1>10. CompletedIsRemoved'
  BY <1>6 DEF CompletedIsRemoved, EndsReady, Removes
<1> QED BY <1>5, <1>7, <1>8, <1>9, <1>10 DEF EndsInv

\* A step that starts no request and runs no block keeps it, if the removals of
\* what has ended go on waiting.
LEMMA QuietEnds ==
  ASSUME Inv, Inv', EndsInv, queue' \subseteq queue, running' \subseteq running,
         UNCHANGED <<calls, completed, arrival, lastId>>, overtaken \subseteq overtaken',
         seenAnswers' \subseteq seenAnswers,
         \A r \in (running' \cap completed) \ overtaken' :
           msgId'[r] = msgId[r] /\ msgId[r] \in seenAnswers' /\ Removes(stage', msgId[r])
  PROVE  EndsInv'
<1>1. Untouched' /\ RanOnce' /\ CompletesOnce'
  BY DEF EndsInv, Untouched, RanOnce, CompletesOnce
<1>2. AnswerSeen'
  BY DEF EndsInv, AnswerSeen
<1>3. CompletedIsRemoved'
  BY DEF CompletedIsRemoved, Removes
<1> QED BY <1>1, <1>2, <1>3 DEF EndsInv

\* What has ended has its removal waiting, before a step and after one that does
\* not run it.
LEMMA RemovalAfterRun ==
  ASSUME Inv, EndsInv, stage # <<>>, NEW t \in Seq(Runnables), RunPosting(t),
         NEW r \in (running \cap completed) \ overtaken,
         Head(stage).op # "rpcCompleted" \/ Head(stage).id # msgId[r]
  PROVE  Removes(stage', msgId[r])
<1>1. Removes(stage, msgId[r]) /\ stage \in Seq(Runnables)
  BY DEF EndsInv, CompletedIsRemoved, Removes, Inv, TypeOK
<1>2. stage' = Tail(stage) \o t
  BY DEF RunPosting
<1> QED BY <1>1, <1>2, RemovalStays

\* The steps of other threads only post.
LEMMA PostsKeepEnds ==
  ASSUME Inv, Inv', EndsInv, Callers \/ Network \/ Server
  PROVE  EndsInv'
<1>1. ASSUME UNCHANGED engineVars, UNCHANGED histVars,
             stage' = stage \/ \E e \in Runnables : stage' = Append(stage, e)
      PROVE  EndsInv'
  <2>1. UNCHANGED <<queue, running, arrival, msgId, completed, lastId, seenAnswers, calls, overtaken>>
    BY <1>1 DEF engineVars, histVars
  <2>2. ASSUME NEW r \in (running \cap completed) \ overtaken
        PROVE  msgId[r] \in seenAnswers /\ Removes(stage', msgId[r])
    <3>1. /\ msgId[r] \in seenAnswers /\ Removes(stage, msgId[r])
          /\ stage \in Seq(Runnables)
      BY DEF EndsInv, AnswerSeen, CompletedIsRemoved, Removes, Inv, TypeOK
    <3> QED BY <1>1, <3>1, RemovalStaysPosting
  <2> QED BY <2>1, <2>2, QuietEnds
<1>2. ASSUME NEW m \in wire
      PROVE  m.id \in Nat /\ m.sess \in Nat /\ Class[m.r] \in Classes
  BY ClassAssumption DEF Inv, TypeOK, Messages
<1>3. CASE Callers
  BY <1>1, <1>3 DEF Callers, PerformRpc, CancelRpc, CleanUp, Post, Runnables
<1>4. CASE Network
  BY <1>1, <1>4 DEF Network, Connect, Disconnect, Post, Runnables
<1>5. CASE Server
  <2>1. ASSUME NEW m \in wire, NEW out \in Outcomes,
               ServerAnswer(m, out) \/ ServerAnswerLost(m, out)
        PROVE  EndsInv'
    BY <1>1, <1>2, <2>1 DEF ServerAnswer, ServerAnswerLost, Post, Runnables
  <2>2. ASSUME NEW m \in wire, ServerBadMsg(m) \/ ServerBadSalt(m)
        PROVE  EndsInv'
    BY <1>1, <1>2, <2>2 DEF ServerBadMsg, ServerBadSalt, Post, Runnables
  <2>3. ASSUME NEW m \in wire, ServerNewSession(m) PROVE EndsInv'
    <3> DEFINE e == [op |-> "newSession", sess |-> m.sess, cls |-> Class[m.r],
                     u |-> Cardinality(announced) + 1, first |-> m.id]
    <3>1. /\ stage' = Append(stage, e) /\ UNCHANGED engineVars /\ UNCHANGED histVars
      BY <2>3 DEF ServerNewSession, NewSession, Post
    <3>2. Cardinality(announced) \in Nat
      BY FS_CardinalityType DEF Inv, TypeOK
    <3>3. e \in Runnables
      BY <1>2, <3>2 DEF Runnables
    <3> QED BY <1>1, <3>1, <3>3
  <2>4. ASSUME NEW note \in announced, ServerRepeatsNewSession(note) PROVE EndsInv'
    <3> DEFINE e == [op |-> "newSession", sess |-> note.sess, cls |-> note.cls,
                     u |-> note.u, first |-> note.first]
    <3>1. /\ stage' = Append(stage, e) /\ UNCHANGED engineVars /\ UNCHANGED histVars
      BY <2>4 DEF ServerRepeatsNewSession, NewSession, Post
    <3>2. e \in Runnables
      BY DEF Runnables, Inv, TypeOK, Announces
    <3> QED BY <1>1, <3>1, <3>2
  <2> QED BY <1>5, <2>1, <2>2, <2>3, <2>4 DEF Server
<1> QED BY <1>3, <1>4, <1>5

\* Handlers that run no block: an answer ignored, a request cancelled or removed.
LEMMA LettingGoKeepsEnds ==
  ASSUME Inv, Inv', EndsInv, RunIgnoredAnswer \/ RunCancel \/ RunRpcCompleted
  PROVE  EndsInv'
<1>1. stage # <<>>
  BY DEF RunIgnoredAnswer, RunCancel, RunRpcCompleted, HeadIs
<1>2. PICK t \in Seq(Runnables) : RunPosting(t)
  <2>1. [op |-> "drop"] \in Runnables
    BY DEF Runnables
  <2>2. <<>> \in Seq(Runnables) /\ <<[op |-> "drop"]>> \in Seq(Runnables)
    BY <2>1
  <2> QED BY <2>2 DEF RunIgnoredAnswer, RunCancel, RunRpcCompleted, Run
<1>3. /\ queue' \subseteq queue /\ running' \subseteq running
      /\ UNCHANGED <<calls, completed, arrival, lastId, overtaken, seenAnswers, msgId>>
  BY DEF RunIgnoredAnswer, RunCancel, RunRpcCompleted, engineVars, histVars
<1>4. ASSUME NEW r \in (running' \cap completed) \ overtaken
      PROVE  msgId[r] \in seenAnswers /\ Removes(stage', msgId[r])
  <2>1. r \in (running \cap completed) \ overtaken
    BY <1>3
  <2>2. Head(stage).op # "rpcCompleted" \/ Head(stage).id # msgId[r]
    BY DEF RunIgnoredAnswer, RunCancel, RunRpcCompleted, HeadIs
  <2>3. msgId[r] \in seenAnswers
    BY <2>1 DEF EndsInv, AnswerSeen
  <2> QED BY <1>1, <1>2, <2>1, <2>2, <2>3, RemovalAfterRun
<1> QED BY <1>3, <1>4, QuietEnds

\* What is wiped while it waits for its removal is overtaken.
LEMMA ForgettingKeepsEnds ==
  ASSUME Inv, Inv', EndsInv, RunNewSession \/ RunBadMsg
  PROVE  EndsInv'
<1>1. /\ stage # <<>> /\ RunPosting(<<>>) /\ <<>> \in Seq(Runnables)
      /\ Head(stage).op # "rpcCompleted"
  BY DEF RunNewSession, RunBadMsg, HeadIs, Run
<1>2. ASSUME NEW r \in (running \cap completed) \ overtaken
      PROVE  msgId[r] \in seenAnswers /\ Removes(stage', msgId[r]) /\ r \in Requests
  BY <1>1, RemovalAfterRun DEF EndsInv, AnswerSeen, Inv, TypeOK
<1>3. ASSUME NEW lost, Forget(lost), seenAnswers' = seenAnswers \/ running \subseteq lost,
             seenAnswers' \subseteq seenAnswers,
             UNCHANGED <<queue, running, calls, completed, arrival, lastId>>
      PROVE  EndsInv'
  <2>1. overtaken' = overtaken \cup (lost \cap completed)
    BY <1>3 DEF Forget
  <2>2. \A r \in (running' \cap completed) \ overtaken' :
          msgId'[r] = msgId[r] /\ msgId[r] \in seenAnswers' /\ Removes(stage', msgId[r])
    BY <1>2, <1>3, <2>1 DEF Forget
  <2> QED BY <1>3, <2>1, <2>2, QuietEnds
<1>4. CASE RunNewSession
  <2>1. PICK lost : Forget(lost)
    BY <1>4 DEF RunNewSession
  <2> QED BY <1>3, <1>4, <2>1 DEF RunNewSession
<1>5. CASE RunBadMsg /\ Head(stage).sess = session
  <2>1. Forget(running) /\ seenAnswers' = {}
    BY <1>5 DEF RunBadMsg, RecreateSessions
  <2> QED BY <1>3, <1>5, <2>1 DEF RunBadMsg
<1>6. CASE RunBadMsg /\ Head(stage).sess # session
  <2>1. UNCHANGED <<queue, running, calls, completed, arrival, lastId, overtaken, seenAnswers, msgId>>
    BY <1>6 DEF RunBadMsg, engineVars, histVars
  <2> QED BY <1>2, <2>1, QuietEnds
<1> QED BY <1>4, <1>5, <1>6

\* Logging out ends what waits for the first time, and overtakes what was ended.
LEMMA CleanUpKeepsEnds ==
  ASSUME Inv, Inv', EndsInv, RunCleanUp
  PROVE  EndsInv'
<1>1. /\ queue' = {} /\ running' = {} /\ calls' = FailAll(queue \cup running)
      /\ overtaken' = overtaken \cup (running \cap completed) /\ seenAnswers' = {}
      /\ UNCHANGED <<arrival, completed>>
  BY DEF RunCleanUp, RecreateSessions
<1>2. /\ queue \subseteq Requests /\ running \subseteq Requests /\ calls \in [Requests -> Nat]
      /\ \A r \in queue \cup running : arrival[r] # 0
  BY DEF Inv, TypeOK, OnOneList
<1>3. Untouched'
  BY <1>1, <1>2 DEF EndsInv, Untouched, FailAll
<1>4. CompletesOnce'
  <2> SUFFICES ASSUME NEW r \in Requests, calls'[r] > 1 PROVE r \in overtaken'
    BY DEF CompletesOnce
  <2>1. calls'[r] = IF r \in queue \cup running THEN calls[r] + 1 ELSE calls[r]
    BY <1>1 DEF FailAll
  <2>2. CASE r \in queue
    BY <2>1, <2>2 DEF EndsInv, Untouched
  <2>3. CASE r \in running
    BY <1>1, <1>2, <2>1, <2>3 DEF EndsInv, RanOnce
  <2>4. CASE r \notin queue \cup running
    BY <1>1, <2>1, <2>4 DEF EndsInv, CompletesOnce
  <2> QED BY <2>2, <2>3, <2>4
<1>5. RanOnce' /\ AnswerSeen' /\ CompletedIsRemoved'
  BY <1>1 DEF RanOnce, AnswerSeen, CompletedIsRemoved
<1> QED BY <1>3, <1>4, <1>5 DEF EndsInv

\* What a handler finds, when it computes nothing of its own.
LEMMA EndsReadyAsIs ==
  ASSUME Inv, EndsInv, UNCHANGED <<arrival, completed, seenAnswers>>,
         \A r \in (running \cap completed) \ overtaken : Removes(stage', msgId[r])
  PROVE  EndsReady(queue, msgId, calls)
<1>1. /\ queue \subseteq Requests /\ running \subseteq Requests /\ queue \cap running = {}
      /\ msgId \in [Requests -> Nat] /\ calls \in [Requests -> Nat]
      /\ \A r \in queue \cup running : arrival[r] # 0
  BY DEF Inv, TypeOK, OnOneList
<1>2. Untouched /\ RanOnce /\ AnswerSeen /\ CompletesOnce
  BY DEF EndsInv
<1> QED BY <1>1, <1>2 DEF EndsReady, Untouched, RanOnce, AnswerSeen, CompletesOnce

\* Handlers that only call processRequestQueue.
LEMMA QuietCallsKeepEnds ==
  ASSUME Inv, Inv', EndsInv, RunDrop \/ RunConnected \/ Tick \/ RunBadSalt
  PROVE  EndsInv'
<1>1. ASSUME NEW r \in (running \cap completed) \ overtaken
      PROVE  msgId[r] \in seenAnswers /\ Removes(stage', msgId[r])
  <2>1. /\ msgId[r] \in seenAnswers /\ Removes(stage, msgId[r])
    BY DEF EndsInv, AnswerSeen, CompletedIsRemoved, Removes
  <2>2. CASE Tick
    BY <2>1, <2>2 DEF Tick
  <2>3. CASE RunDrop \/ RunConnected \/ RunBadSalt
    <3>1. /\ stage # <<>> /\ RunPosting(<<>>) /\ <<>> \in Seq(Runnables)
          /\ Head(stage).op # "rpcCompleted"
      BY <2>3 DEF RunDrop, RunConnected, RunBadSalt, HeadIs, Run
    <3> QED BY <2>1, <3>1, RemovalAfterRun
  <2> QED BY <2>2, <2>3
<1>2. CASE RunBadSalt /\ Head(stage).sess # session
  <2>1. UNCHANGED <<queue, running, calls, completed, arrival, lastId, overtaken, seenAnswers, msgId>>
    BY <1>2 DEF RunBadSalt, engineVars, histVars
  <2> QED BY <1>1, <2>1, QuietEnds
<1>3. CASE RunDrop \/ RunConnected \/ Tick \/ (RunBadSalt /\ Head(stage).sess = session)
  <2>1. PICK forced : ProcessRequestQueue(queue, running, msgId, chan, due, calls, forced)
    BY <1>3 DEF RunDrop, RunConnected, Tick, RunBadSalt, ProcessAsIs
  <2>2. UNCHANGED <<arrival, completed, seenAnswers>>
    BY <1>3 DEF RunDrop, RunConnected, Tick, RunBadSalt
  <2>3. EndsReady(queue, msgId, calls)
    BY <1>1, <2>2, EndsReadyAsIs
  <2> QED BY <2>1, <2>3, CallEnds
<1> QED BY <1>2, <1>3

\* performRpc's runnable adds a request that has not ended.
LEMMA PerformKeepsEnds ==
  ASSUME Inv, Inv', EndsInv, RunPerform
  PROVE  EndsInv'
<1>1. PICK r \in Requests : r = Head(stage).r /\ arrival[r] = 0
  BY HeadFacts, RunnableFields DEF RunPerform, HeadIs, PostedRight
<1>2. /\ ProcessRequestQueue(queue \cup {r}, running, msgId, chan, due, calls, {})
      /\ UNCHANGED <<completed, seenAnswers>>
      /\ arrival' = [arrival EXCEPT
           ![r] = Cardinality({x \in Requests : arrival[x] # 0}) + 1]
  BY <1>1 DEF RunPerform
<1>3. /\ queue \subseteq Requests /\ running \subseteq Requests /\ queue \cap running = {}
      /\ msgId \in [Requests -> Nat] /\ calls \in [Requests -> Nat]
      /\ \A x \in queue \cup running : arrival[x] # 0
      /\ arrival \in [Requests -> Nat]
  BY DEF Inv, TypeOK, OnOneList
<1>4. /\ \A x \in Requests : x # r => arrival'[x] = arrival[x]
      /\ r \notin queue \cup running
  BY <1>1, <1>2, <1>3
<1>5. Untouched /\ RanOnce /\ AnswerSeen /\ CompletesOnce
  BY DEF EndsInv
<1>6. ASSUME NEW x \in (running \cap completed) \ overtaken
      PROVE  Removes(stage', msgId[x])
  <2>1. /\ stage # <<>> /\ RunPosting(<<>>) /\ <<>> \in Seq(Runnables)
        /\ Head(stage).op # "rpcCompleted"
    BY DEF RunPerform, HeadIs, Run
  <2> QED BY <2>1, RemovalAfterRun
<1>7. \A x \in Requests :
        x \in queue \cup {r} \/ arrival'[x] = 0 => calls[x] = 0 /\ x \notin completed
  BY <1>1, <1>4, <1>5 DEF Untouched
<1>8. EndsReady(queue \cup {r}, msgId, calls)
  BY <1>2, <1>3, <1>4, <1>5, <1>6, <1>7 DEF EndsReady, RanOnce, AnswerSeen, CompletesOnce
<1> QED BY <1>2, <1>8, CallEnds

\* rpc_result completes what has not ended: an answer seen before is not taken.
LEMMA ResultKeepsEnds ==
  ASSUME Inv, Inv', EndsInv, RunResult
  PROVE  EndsInv'
<1> DEFINE found == { r \in running : msgId[r] = Head(stage).id }
           ran == [r \in Requests |-> IF r \in found THEN calls[r] + 1 ELSE calls[r]]
<1>1. stage # <<>> /\ Head(stage).op = "answer"
  BY DEF RunResult, HeadIs
<1>2. PICK id \in 1..lastId : id = Head(stage).id
  BY <1>1, HeadFacts DEF PostedRight
<1>3. /\ RunPosting(RpcCompleted(id)) /\ id \notin seenAnswers
      /\ seenAnswers' = seenAnswers \cup {id}
      /\ completed' = completed \cup found /\ arrival' = arrival
      /\ ProcessRequestQueue(queue, running, msgId, chan, due, ran, {})
  BY <1>2 DEF RunResult, IgnoredAnswer
<1>4. /\ queue \subseteq Requests /\ running \subseteq Requests /\ queue \cap running = {}
      /\ msgId \in [Requests -> Nat] /\ calls \in [Requests -> Nat] /\ lastId \in Nat
      /\ \A r \in queue \cup running : arrival[r] # 0 /\ stage \in Seq(Runnables)
  BY DEF Inv, TypeOK, OnOneList
<1>5. Untouched /\ RanOnce /\ AnswerSeen /\ CompletesOnce
  BY DEF EndsInv
<1>6. \A r \in found \ overtaken : r \notin completed /\ calls[r] = 0
  BY <1>2, <1>3, <1>5 DEF AnswerSeen, RanOnce
<1>7. ASSUME NEW r \in (running \cap completed') \ overtaken
      PROVE  msgId[r] \in seenAnswers' /\ Removes(stage', msgId[r])
  <2>1. CASE r \in found
    <3>1. stage' = Tail(stage) \o RpcCompleted(id) /\ id \in Nat
      BY <1>3, <1>4 DEF RunPosting
    <3>2. msgId[r] = id
      BY <1>2, <2>1
    <3> QED BY <1>1, <1>3, <1>4, <3>1, <3>2, RemovalIsPosted
  <2>2. CASE r \notin found
    <3>1. r \in (running \cap completed) \ overtaken
      BY <1>3, <2>2
    <3>2. RpcCompleted(id) \in Seq(Runnables)
      <4>1. id \in Nat
        BY <1>4
      <4> QED BY <4>1, RemovalElements
    <3>3. Removes(stage', msgId[r])
      BY <1>1, <1>3, <3>1, <3>2, RemovalAfterRun
    <3> QED BY <1>3, <1>5, <3>1, <3>3 DEF AnswerSeen
  <2> QED BY <2>1, <2>2
<1>8. /\ ran \in [Requests -> Nat]
      /\ \A r \in Requests : ran[r] = IF r \in found THEN calls[r] + 1 ELSE calls[r]
  BY <1>4
<1> HIDE DEF ran
<1>9. \A r \in Requests :
        r \in queue \/ arrival'[r] = 0 => ran[r] = 0 /\ r \notin completed'
  BY <1>3, <1>4, <1>5, <1>8 DEF Untouched
<1>10. \A r \in running \ overtaken : ran[r] = 0 \/ (ran[r] = 1 /\ r \in completed')
  BY <1>3, <1>4, <1>5, <1>6, <1>8 DEF RanOnce
<1>11. ASSUME NEW r \in Requests, ran[r] > 1 PROVE r \in overtaken
  <2>1. CASE r \in found
    <3>1. calls[r] # 0
      BY <1>4, <1>8, <1>11, <2>1
    <3> QED BY <1>6, <2>1, <3>1
  <2>2. CASE r \notin found
    BY <1>5, <1>8, <1>11, <2>2 DEF CompletesOnce
  <2> QED BY <2>1, <2>2
<1>12. EndsReady(queue, msgId, ran)
  BY <1>3, <1>4, <1>5, <1>7, <1>8, <1>9, <1>10, <1>11 DEF EndsReady, AnswerSeen
<1> QED BY <1>3, <1>12, CallEnds

\* An answer to be retried wipes the id of a request that has not ended.
LEMMA RetryKeepsEnds ==
  ASSUME Inv, Inv', EndsInv, RunRetryLater
  PROVE  EndsInv'
<1> DEFINE found == { r \in running : msgId[r] = Head(stage).id }
           ids0 == [r \in Requests |-> IF r \in found THEN 0 ELSE msgId[r]]
<1>1. stage # <<>> /\ Head(stage).op = "answer"
  BY DEF RunRetryLater, HeadIs
<1>2. PICK id \in 1..lastId : id = Head(stage).id
  BY <1>1, HeadFacts DEF PostedRight
<1>3. /\ RunPosting(IF found = {} THEN RpcCompleted(id) ELSE <<>>) /\ id \notin seenAnswers
      /\ seenAnswers' = seenAnswers \cup {id}
      /\ UNCHANGED <<arrival, completed>>
      /\ \E chans, dues : ProcessRequestQueue(queue, running, ids0, chans, dues, calls, {})
  BY <1>2 DEF RunRetryLater, IgnoredAnswer
<1>4. /\ queue \subseteq Requests /\ running \subseteq Requests /\ queue \cap running = {}
      /\ msgId \in [Requests -> Nat] /\ calls \in [Requests -> Nat] /\ lastId \in Nat
      /\ \A r \in queue \cup running : arrival[r] # 0
  BY DEF Inv, TypeOK, OnOneList
<1>5. Untouched /\ RanOnce /\ AnswerSeen /\ CompletesOnce
  BY DEF EndsInv
<1>6. PICK t \in Seq(Runnables) : RunPosting(t)
  <2>1. id \in Nat
    BY <1>4
  <2>2. RpcCompleted(id) \in Seq(Runnables)
    BY <2>1, RemovalElements
  <2> HIDE DEF found
  <2>3. CASE found = {}
    BY <1>3, <2>2, <2>3 DEF RunPosting
  <2>4. CASE found # {}
    BY <1>3, <2>4, NoRunnables DEF RunPosting
  <2> QED BY <2>3, <2>4
<1>7. ASSUME NEW r \in (running \cap completed) \ overtaken
      PROVE  ids0[r] = msgId[r] /\ msgId[r] \in seenAnswers /\ Removes(stage', msgId[r])
  <2>1. msgId[r] \in seenAnswers
    BY <1>5 DEF AnswerSeen
  <2>2. Removes(stage', msgId[r])
    BY <1>1, <1>6, RemovalAfterRun
  <2> QED BY <1>2, <1>3, <1>4, <2>1, <2>2
<1>8. ids0 \in [Requests -> Nat]
  BY <1>4
<1>9. EndsReady(queue, ids0, calls)
  BY <1>2, <1>3, <1>4, <1>5, <1>7, <1>8
     DEF EndsReady, Untouched, RanOnce, AnswerSeen, CompletesOnce
<1> QED BY <1>3, <1>9, CallEnds

\* Every step keeps EndsInv.
LEMMA EndsStep ==
  ASSUME Inv, Inv', EndsInv, [Next]_vars
  PROVE  EndsInv'
<1>1. CASE UNCHANGED vars \/ \E r \in Requests : TimePasses(r)
  <2>1. UNCHANGED <<stage, queue, running, calls, completed, arrival, lastId, overtaken,
                    seenAnswers, msgId>>
    BY <1>1 DEF vars, engineVars, histVars, TimePasses
  <2> QED BY <2>1 DEF EndsInv, Untouched, RanOnce, AnswerSeen, CompletesOnce, CompletedIsRemoved
<1>2. CASE Callers \/ Network \/ Server
  BY <1>2, PostsKeepEnds
<1>3. CASE RunHead \/ Tick
  BY <1>3, LettingGoKeepsEnds, ForgettingKeepsEnds, CleanUpKeepsEnds, QuietCallsKeepEnds,
     PerformKeepsEnds, ResultKeepsEnds, RetryKeepsEnds DEF RunHead
<1> QED BY <1>1, <1>2, <1>3 DEF Next

\* How often each request that runs has ended, and which answer ended it, stays
\* right in every reachable state.
THEOREM EndsInvariance == Spec => []EndsInv
<1>1. Init => EndsInv
  BY DEF Init, EndsInv, Untouched, RanOnce, AnswerSeen, CompletesOnce, CompletedIsRemoved
<1>2. Inv /\ Inv' /\ [Next]_vars /\ EndsInv => EndsInv'
  BY EndsStep
<1> QED BY <1>1, <1>2, Invariance, PTL DEF Spec

\* A completion block runs once, unless its request is reset, expires or fails
\* between its completion and its removal.
THEOREM BlocksRunOnce == Spec => []CompletesOnce
<1>1. EndsInv => CompletesOnce
  BY DEF EndsInv
<1> QED BY <1>1, EndsInvariance, PTL

\* A completed request that kept its id has its removal waiting.
THEOREM CompletedLeave == Spec => []CompletedIsRemoved
<1>1. EndsInv => CompletedIsRemoved
  BY DEF EndsInv
<1> QED BY <1>1, EndsInvariance, PTL

-----------------------------------------------------------------------------
(* How often the server carries a request out. *)

\* The server told the client to try again.
Retried(id) == \E a \in answered : a.id = id /\ a.out \in {"retry", "flood"}

\* The server answers a message id once.
AnsweredOnce == \A a, b \in answered : a.id = b.id => a = b

\* What waits to be processed was answered, or announced.
FromServer(d) ==
  /\ d.op = "answer" => [id |-> d.id, out |-> d.out] \in answered
  /\ d.op = "newSession" => announced # {}
AllFromServer == \A i \in 1..Len(stage) : FromServer(stage[i])

\* A request that waits to be sent was not sent.
SentLater == \A m \in wire : m.r \notin queue /\ arrival[m.r] # 0

\* As long as no session is lost, a request has been sent under its id and under
\* ids that the server told it to try again.
OneAttempt ==
  session = 0 /\ announced = {} =>
    \A m \in wire : m.id = msgId[m.r] \/ Retried(m.id)

\* The inductive invariant of ExecutesOnce.
OnceInv == AnsweredOnce /\ AllFromServer /\ SentLater /\ OneAttempt

\* As every message of a request has its present id or was refused, two that the
\* server settled have the same.
LEMMA OnceImplies == ASSUME Inv, OnceInv PROVE ExecutesOnce
<1> SUFFICES ASSUME session = 0, announced = {},
                    NEW a \in answered, NEW b \in answered, NEW m \in wire, NEW n \in wire,
                    a.out \in {"ok", "fail"}, b.out \in {"ok", "fail"},
                    m.id = a.id, n.id = b.id, m.r = n.r
             PROVE  a.id = b.id
  BY DEF ExecutesOnce
<1>1. m.id = msgId[m.r] \/ Retried(m.id)
  BY DEF OnceInv, OneAttempt
<1>2. n.id = msgId[n.r] \/ Retried(n.id)
  BY DEF OnceInv, OneAttempt
<1>3. ~Retried(a.id) /\ ~Retried(b.id)
  BY DEF OnceInv, AnsweredOnce, Retried
<1> QED BY <1>1, <1>2, <1>3

\* A handler posts nothing that comes from the server.
LEMMA RunKeepsFromServer ==
  ASSUME Inv, AllFromServer, stage # <<>>, NEW t \in Seq(Runnables), RunPosting(t),
         \A i \in 1..Len(t) : t[i].op \notin {"answer", "newSession"},
         UNCHANGED <<answered, announced>>
  PROVE  AllFromServer'
<1> DEFINE u == Tail(stage) \o t
<1>1. stage \in Seq(Runnables)
  BY DEF Inv, TypeOK
<1>2. \A i \in 1..Len(u) :
           \/ i < Len(stage) /\ i + 1 \in 1..Len(stage) /\ u[i] = stage[i + 1]
           \/ /\ i >= Len(stage) /\ i + 1 - Len(stage) \in 1..Len(t)
              /\ u[i] = t[i + 1 - Len(stage)]
  BY <1>1, RunPostingElements
<1>3. stage' = u
  BY DEF RunPosting
<1> HIDE DEF u
<1>4. ASSUME NEW i \in 1..Len(u) PROVE FromServer(u[i])
  BY <1>2, <1>4 DEF AllFromServer, FromServer
<1>5. \A d : FromServer(d) => FromServer(d)'
  BY DEF FromServer
<1> QED BY <1>3, <1>4 DEF AllFromServer, FromServer

\* Nor does anybody else but the server.
LEMMA PostKeepsFromServer ==
  ASSUME Inv, AllFromServer, NEW e \in Runnables, stage' = Append(stage, e),
         answered \subseteq answered', announced \subseteq announced',
         e.op = "answer" => [id |-> e.id, out |-> e.out] \in answered',
         e.op = "newSession" => announced' # {}
  PROVE  AllFromServer'
<1>1. /\ stage \in Seq(Runnables)
      /\ Len(stage') = Len(stage) + 1 /\ stage'[Len(stage) + 1] = e
      /\ \A i \in 1..Len(stage) : stage'[i] = stage[i]
  BY PostElements DEF Inv, TypeOK
<1>2. ASSUME NEW i \in 1..Len(stage') PROVE i \in 1..Len(stage) \/ stage'[i] = e
  BY <1>1
<1>3. ASSUME NEW i \in 1..Len(stage') PROVE FromServer(stage[i])' 
  BY <1>1, <1>2, <1>3 DEF AllFromServer, FromServer
<1> QED BY <1>3 DEF AllFromServer

\* The call sends what was not sent under new ids, and the rest again.
LEMMA CallOnce ==
  ASSUME Inv, NEW q, NEW ids, NEW chans, NEW dues, NEW done, NEW forced,
         ProcessRequestQueue(q, running, ids, chans, dues, done, forced),
         q \subseteq Requests, q \cap running = {}, ids \in [Requests -> Nat],
         \A m \in wire : m.r \notin q /\ arrival'[m.r] # 0,
         \A r \in q \cup running : arrival'[r] # 0,
         UNCHANGED <<session, answered, announced>>,
         session = 0 /\ announced = {} =>
           \A m \in wire : m.id = ids[m.r] \/ Retried(m.id)
  PROVE  SentLater' /\ OneAttempt'
<1> DEFINE again    == { r \in running : SendsAgain(r, ids, chans, dues, forced) }
           expired  == { r \in again : OutOfRetries(r) }
           left     == running \ expired
           promoted == { r \in q : GetsSlot(r, q, left) }
           sent     == (again \ expired) \cup promoted
           fresh    == promoted \cup { r \in again \ expired : NeedsId(r, ids) }
<1>1. PICK new \in Numberings(fresh) :
       /\ queue'   = q \ promoted
       /\ msgId'   = [r \in Requests |-> IF r \in fresh THEN new[r] ELSE ids[r]]
       /\ wire'    = wire \cup
            { [id |-> msgId'[r], r |-> r, sess |-> session,
               chan |-> channel[Class[r]]] : r \in sent }
  BY DEF ProcessRequestQueue
<1>2. /\ promoted \subseteq q /\ sent \subseteq running \cup promoted
      /\ \A r \in fresh : r \in q \/ ids[r] = 0
  BY DEF NeedsId
<1> HIDE DEF again, expired, promoted, sent, fresh
<1>3. \A m \in wire' : m \in wire \/ (m.r \in sent /\ m.id = msgId'[m.r])
  BY <1>1
<1>4. SentLater'
  BY <1>1, <1>2, <1>3 DEF SentLater
<1>5. ASSUME session = 0, announced = {}, NEW m \in wire
      PROVE  m.id = msgId'[m.r] \/ Retried(m.id)
  <2>1. m.r \in Requests /\ m.id # 0
    BY DEF Inv, TypeOK, Messages, IdsIssued
  <2>2. CASE m.r \in fresh
    BY <1>2, <1>5, <2>1, <2>2
  <2>3. CASE m.r \notin fresh
    BY <1>1, <1>5, <2>1, <2>3
  <2> QED BY <2>2, <2>3
<1>6. OneAttempt'
  BY <1>3, <1>5 DEF OneAttempt, Retried
<1> QED BY <1>4, <1>6

\* The server's own steps.
LEMMA ServerKeepsOnce ==
  ASSUME Inv, OnceInv, Server PROVE OnceInv'
<1>1. /\ \A m \in wire : m.id \in Nat /\ m.sess \in Nat /\ Class[m.r] \in Classes
      /\ UNCHANGED <<queue, arrival, msgId, session, wire>>
  BY ClassAssumption DEF Inv, TypeOK, Messages, Server, ServerAnswer, ServerAnswerLost,
     ServerNewSession, ServerRepeatsNewSession, ServerBadMsg, ServerBadSalt, engineVars
<1>2. SentLater'
  BY <1>1 DEF OnceInv, SentLater
<1>3. ASSUME answered \subseteq answered', announced \subseteq announced' PROVE OneAttempt'
  BY <1>1, <1>3 DEF OnceInv, OneAttempt, Retried
<1>4. ASSUME NEW m \in wire, NEW out \in Outcomes, ServerAnswer(m, out) PROVE OnceInv'
  <2> DEFINE a == [id |-> m.id, out |-> out]
             e == [op |-> "answer", sess |-> m.sess, id |-> m.id, out |-> out]
  <2>1. /\ answered' = answered \cup {a} /\ stage' = Append(stage, e) /\ announced' = announced
        /\ Answered(m.id) => a \in answered
    BY <1>4 DEF ServerAnswer, Post
  <2>2. AnsweredOnce'
    BY <2>1 DEF OnceInv, AnsweredOnce, Answered
  <2>3. e \in Runnables
    BY <1>1 DEF Runnables
  <2>4. AllFromServer'
    BY <2>1, <2>3, PostKeepsFromServer DEF OnceInv
  <2> QED BY <1>2, <1>3, <2>1, <2>2, <2>4 DEF OnceInv
<1>5. ASSUME NEW m \in wire, NEW out \in Outcomes, ServerAnswerLost(m, out) PROVE OnceInv'
  <2> DEFINE a == [id |-> m.id, out |-> out]
  <2>1. /\ answered' = answered \cup {a} /\ stage' = stage /\ announced' = announced
        /\ ~Answered(m.id)
    BY <1>5 DEF ServerAnswerLost
  <2>2. AnsweredOnce'
    BY <2>1 DEF OnceInv, AnsweredOnce, Answered
  <2>3. AllFromServer'
    BY <2>1 DEF OnceInv, AllFromServer, FromServer
  <2> QED BY <1>2, <1>3, <2>1, <2>2, <2>3 DEF OnceInv
<1>6. ASSUME NEW e \in Runnables, stage' = Append(stage, e), e.op # "answer",
             e.op = "newSession" => announced' # {},
             answered' = answered, announced \subseteq announced'
      PROVE  OnceInv'
  <2>1. AnsweredOnce'
    BY <1>6 DEF OnceInv, AnsweredOnce
  <2>2. AllFromServer'
    BY <1>6, PostKeepsFromServer DEF OnceInv
  <2> QED BY <1>2, <1>3, <1>6, <2>1, <2>2 DEF OnceInv
<1>7. ASSUME NEW m \in wire, ServerNewSession(m) PROVE OnceInv'
  <2> DEFINE e == [op |-> "newSession", sess |-> m.sess, cls |-> Class[m.r],
                   u |-> Cardinality(announced) + 1, first |-> m.id]
  <2>1. /\ stage' = Append(stage, e) /\ answered' = answered
        /\ announced \subseteq announced' /\ announced' # {}
    BY <1>7 DEF ServerNewSession, NewSession, Post
  <2>2. Cardinality(announced) \in Nat
    BY FS_CardinalityType DEF Inv, TypeOK
  <2>3. e \in Runnables
    BY <1>1, <2>2 DEF Runnables
  <2> QED BY <1>6, <2>1, <2>3
<1>8. ASSUME NEW note \in announced, ServerRepeatsNewSession(note) PROVE OnceInv'
  <2> DEFINE e == [op |-> "newSession", sess |-> note.sess, cls |-> note.cls,
                   u |-> note.u, first |-> note.first]
  <2>1. stage' = Append(stage, e) /\ answered' = answered /\ announced' = announced
    BY <1>8 DEF ServerRepeatsNewSession, NewSession, Post, serverVars
  <2>2. e \in Runnables
    BY DEF Runnables, Inv, TypeOK, Announces
  <2> QED BY <1>6, <2>1, <2>2
<1>9. ASSUME NEW m \in wire, ServerBadMsg(m) \/ ServerBadSalt(m) PROVE OnceInv'
  <2>1. PICK op \in {"badMsg", "badSalt"} :
          stage' = Append(stage, [op |-> op, sess |-> m.sess])
    BY <1>9 DEF ServerBadMsg, ServerBadSalt, Post
  <2>2. [op |-> op, sess |-> m.sess] \in Runnables
    BY <1>1 DEF Runnables
  <2>3. answered' = answered /\ announced' = announced
    BY <1>9 DEF ServerBadMsg, ServerBadSalt, serverVars
  <2> QED BY <1>6, <2>1, <2>2, <2>3
<1> QED BY <1>4, <1>5, <1>7, <1>8, <1>9 DEF Server

\* The callers and the network post what is not from the server.
LEMMA OthersKeepOnce ==
  ASSUME Inv, OnceInv, Callers \/ Network PROVE OnceInv'
<1>1. UNCHANGED engineVars /\ UNCHANGED serverVars /\ UNCHANGED wire
  BY DEF Callers, PerformRpc, CancelRpc, CleanUp, Network, Connect, Disconnect
<1>2. AnsweredOnce' /\ SentLater' /\ OneAttempt'
  BY <1>1 DEF OnceInv, AnsweredOnce, SentLater, OneAttempt, Retried, engineVars, serverVars
<1>3. AllFromServer'
  <2>1. CASE stage' = stage
    BY <1>1, <2>1 DEF OnceInv, AllFromServer, FromServer, serverVars
  <2>2. ASSUME NEW e \in Runnables, stage' = Append(stage, e),
               e.op \notin {"answer", "newSession"}
        PROVE  AllFromServer'
    BY <1>1, <2>2, PostKeepsFromServer DEF OnceInv, serverVars
  <2>3. CASE Callers
    BY <2>2, <2>3 DEF Callers, PerformRpc, CancelRpc, CleanUp, Post, Runnables
  <2>4. CASE Network
    BY <2>1, <2>2, <2>4 DEF Network, Connect, Disconnect, Post, Runnables
  <2> QED BY <2>3, <2>4
<1> QED BY <1>2, <1>3 DEF OnceInv

\* What every handler leaves alone, and what it posts.
LEMMA HandlersAndServer ==
  ASSUME Inv, OnceInv, RunHead PROVE AnsweredOnce' /\ AllFromServer'
<1>1. stage # <<>> /\ UNCHANGED serverVars
  BY DEF RunHead, RunPerform, RunCancel, RunDrop, RunConnected, RunIgnoredAnswer, RunResult,
     RunRetryLater, RunRpcCompleted, RunNewSession, RunBadMsg, RunBadSalt, RunCleanUp, HeadIs
<1>2. AnsweredOnce'
  BY <1>1 DEF OnceInv, AnsweredOnce, serverVars
<1>3. PICK t \in Seq(Runnables) :
        RunPosting(t) /\ \A i \in 1..Len(t) : t[i].op \notin {"answer", "newSession"}
  <2>1. \A i \in 1..Len(<<>>) : FALSE
    BY NoRunnables
  <2>2. CASE Run
    BY <2>1, <2>2, NoRunnables DEF Run
  <2>3. CASE RunCancel
    <3>1. [op |-> "drop"] \in Runnables
      BY DEF Runnables
    <3>2. RunPosting(<<[op |-> "drop"]>>) \/ RunPosting(<<>>)
      BY <2>3 DEF RunCancel
    <3>3. CASE RunPosting(<<>>)
      BY <2>1, <3>3, NoRunnables
    <3>4. CASE RunPosting(<<[op |-> "drop"]>>)
      <4>1. PICK d \in Runnables : d = [op |-> "drop"]
        BY <3>1
      <4> DEFINE t == <<d>>
      <4>2. t \in Seq(Runnables)
        OBVIOUS
      <4>3. \A i \in 1..Len(t) : t[i] = d
        OBVIOUS
      <4>4. RunPosting(t)
        BY <3>4, <4>1
      <4> HIDE DEF t
      <4> QED BY <4>1, <4>2, <4>3, <4>4
    <3> QED BY <3>2, <3>3, <3>4
  <2>4. CASE RunResult \/ RunRetryLater
    <3>1. Head(stage).op = "answer"
      BY <2>4 DEF RunResult, RunRetryLater, HeadIs
    <3>2. PICK id \in 1..lastId : id = Head(stage).id
      BY <1>1, <3>1, HeadFacts DEF PostedRight
    <3>3. id \in Nat
      BY DEF Inv, TypeOK
    <3>4. RunPosting(RpcCompleted(id)) \/ RunPosting(<<>>)
      BY <2>4, <3>2 DEF RunResult, RunRetryLater
    <3>5. CASE RunPosting(<<>>)
      BY <2>1, <3>5, NoRunnables
    <3>6. CASE RunPosting(RpcCompleted(id))
      <4>1. PICK t \in Seq(Runnables) :
              t = RpcCompleted(id) /\ Len(t) = 1 /\ t[1] = [op |-> "rpcCompleted", id |-> id]
        BY <3>3, RemovalElements
      <4>2. \A i \in 1..Len(t) : t[i].op = "rpcCompleted"
        BY <4>1
      <4>3. RunPosting(t)
        BY <3>6, <4>1
      <4> QED BY <4>2, <4>3
    <3> QED BY <3>4, <3>5, <3>6
  <2> QED BY <2>2, <2>3, <2>4 DEF RunHead, RunPerform, RunDrop, RunConnected, RunIgnoredAnswer,
             RunRpcCompleted, RunNewSession, RunBadMsg, RunBadSalt, RunCleanUp
<1>4. AllFromServer'
  BY <1>1, <1>3, RunKeepsFromServer DEF OnceInv, serverVars
<1> QED BY <1>2, <1>4

\* Handlers that send nothing.
LEMMA SilentKeepOnce ==
  ASSUME Inv, Inv', OnceInv,
         RunIgnoredAnswer \/ RunCancel \/ RunRpcCompleted \/ RunNewSession \/ RunBadMsg
           \/ RunCleanUp \/ (\E r \in Requests : TimePasses(r)) \/ UNCHANGED vars
           \/ (RunBadSalt /\ Head(stage).sess # session)
  PROVE  SentLater' /\ OneAttempt'
<1>1. queue' \subseteq queue /\ UNCHANGED <<arrival, wire, answered, announced>>
  BY DEF RunIgnoredAnswer, RunCancel, RunRpcCompleted, RunNewSession, RunBadMsg, RunCleanUp,
     RunBadSalt, TimePasses, vars, engineVars, serverVars
<1>2. SentLater'
  BY <1>1 DEF OnceInv, SentLater
<1>3. CASE msgId' = msgId /\ session' = session
  BY <1>1, <1>2, <1>3 DEF OnceInv, OneAttempt, Retried
<1>4. CASE RunNewSession
  <2>1. announced # {}
    <3>1. Head(stage) = stage[1] /\ 1 \in 1..Len(stage) /\ Head(stage).op = "newSession"
      BY <1>4 DEF RunNewSession, HeadIs, Inv, TypeOK
    <3> QED BY <3>1 DEF OnceInv, AllFromServer, FromServer
  <2> QED BY <1>1, <1>2, <2>1 DEF OneAttempt
<1>5. CASE session' = session + 1
  <2>1. session' # 0
    BY <1>5 DEF Inv, TypeOK
  <2> QED BY <1>2, <2>1 DEF OneAttempt
<1>6. CASE RunBadMsg \/ RunCleanUp
  BY <1>2, <1>3, <1>5, <1>6 DEF RunBadMsg, RunCleanUp, RecreateSessions, engineVars
<1>7. CASE RunIgnoredAnswer \/ RunCancel \/ RunRpcCompleted \/ (\E r \in Requests : TimePasses(r))
           \/ UNCHANGED vars \/ (RunBadSalt /\ Head(stage).sess # session)
  BY <1>2, <1>3, <1>7 DEF RunIgnoredAnswer, RunCancel, RunRpcCompleted, TimePasses, RunBadSalt,
     vars, engineVars
<1> QED BY <1>2, <1>4, <1>6, <1>7

\* Handlers that end in processRequestQueue.
LEMMA CallersKeepOnce ==
  ASSUME Inv, Inv', OnceInv,
         RunPerform \/ RunDrop \/ RunConnected \/ Tick \/ RunResult \/ RunRetryLater
           \/ (RunBadSalt /\ Head(stage).sess = session)
  PROVE  SentLater' /\ OneAttempt'
<1>1. /\ queue \subseteq Requests /\ running \subseteq Requests /\ queue \cap running = {}
      /\ msgId \in [Requests -> Nat] /\ arrival \in [Requests -> Nat]
      /\ \A r \in queue \cup running : arrival[r] # 0
      /\ \A m \in wire : m.r \in Requests
  BY DEF Inv, TypeOK, OnOneList, Messages
<1>2. UNCHANGED <<session, answered, announced>>
  BY DEF RunPerform, RunDrop, RunConnected, Tick, RunResult, RunRetryLater, RunBadSalt, serverVars
<1>3. SentLater /\ OneAttempt
  BY DEF OnceInv
<1>4. CASE RunDrop \/ RunConnected \/ Tick \/ RunResult
           \/ (RunBadSalt /\ Head(stage).sess = session)
  <2>1. PICK done, forced : ProcessRequestQueue(queue, running, msgId, chan, due, done, forced)
    BY <1>4 DEF RunDrop, RunConnected, Tick, RunResult, RunBadSalt, ProcessAsIs
  <2>2. arrival' = arrival
    BY <1>4 DEF RunDrop, RunConnected, Tick, RunResult, RunBadSalt
  <2> QED BY <1>1, <1>2, <1>3, <2>1, <2>2, CallOnce DEF SentLater, OneAttempt
<1>5. CASE RunPerform
  <2>1. PICK r \in Requests : r = Head(stage).r /\ arrival[r] = 0
    BY <1>5, HeadFacts, RunnableFields DEF RunPerform, HeadIs, PostedRight
  <2>2. /\ ProcessRequestQueue(queue \cup {r}, running, msgId, chan, due, calls, {})
        /\ arrival' = [arrival EXCEPT
             ![r] = Cardinality({x \in Requests : arrival[x] # 0}) + 1]
    BY <1>5, <2>1 DEF RunPerform
  <2>3. Cardinality({x \in Requests : arrival[x] # 0}) \in Nat
    BY FiniteAssumption, FS_Subset, FS_CardinalityType
  <2>4. /\ \A x \in Requests : x # r => arrival'[x] = arrival[x]
        /\ arrival'[r] # 0 /\ r \notin queue \cup running
    BY <1>1, <2>1, <2>2, <2>3
  <2>5. /\ \A m \in wire : m.r \notin queue \cup {r} /\ arrival'[m.r] # 0
        /\ \A x \in (queue \cup {r}) \cup running : arrival'[x] # 0
    BY <1>1, <1>3, <2>1, <2>4 DEF SentLater
  <2> QED BY <1>1, <1>2, <1>3, <2>2, <2>4, <2>5, CallOnce DEF OneAttempt
<1>6. CASE RunRetryLater
  <2> DEFINE found == { r \in running : msgId[r] = Head(stage).id }
             ids0 == [r \in Requests |-> IF r \in found THEN 0 ELSE msgId[r]]
  <2>1. PICK chans, dues : ProcessRequestQueue(queue, running, ids0, chans, dues, calls, {})
    BY <1>6 DEF RunRetryLater
  <2>2. Retried(Head(stage).id)
    <3>1. /\ Head(stage) = stage[1] /\ 1 \in 1..Len(stage) /\ Head(stage).op = "answer"
          /\ Head(stage).out \in {"retry", "flood"}
      BY <1>6 DEF RunRetryLater, HeadIs, Inv, TypeOK
    <3>2. [id |-> Head(stage).id, out |-> Head(stage).out] \in answered
      BY <3>1 DEF OnceInv, AllFromServer, FromServer
    <3> QED BY <3>1, <3>2 DEF Retried
  <2>3. \A m \in wire : m.id = msgId[m.r] \/ Retried(m.id) => m.id = ids0[m.r] \/ Retried(m.id)
    BY <1>1, <2>2
  <2>4. ids0 \in [Requests -> Nat]
    BY <1>1
  <2>5. arrival' = arrival
    BY <1>6 DEF RunRetryLater
  <2> HIDE DEF ids0
  <2> QED BY <1>1, <1>2, <1>3, <2>1, <2>3, <2>4, <2>5, CallOnce DEF SentLater, OneAttempt
<1> QED BY <1>4, <1>5, <1>6

\* Every step keeps OnceInv.
LEMMA OnceStep ==
  ASSUME Inv, Inv', OnceInv, [Next]_vars
  PROVE  OnceInv'
<1>1. CASE Callers \/ Network \/ Server
  BY <1>1, ServerKeepsOnce, OthersKeepOnce
<1>2. CASE RunHead
  <2>1. AnsweredOnce' /\ AllFromServer'
    BY <1>2, HandlersAndServer
  <2>2. SentLater' /\ OneAttempt'
    BY <1>2, SilentKeepOnce, CallersKeepOnce DEF RunHead
  <2> QED BY <2>1, <2>2 DEF OnceInv
<1>3. CASE Tick \/ (\E r \in Requests : TimePasses(r)) \/ UNCHANGED vars
  <2>1. SentLater' /\ OneAttempt'
    BY <1>3, SilentKeepOnce, CallersKeepOnce
  <2>2. UNCHANGED <<stage, answered, announced>>
    BY <1>3 DEF Tick, TimePasses, vars, serverVars
  <2> QED BY <2>1, <2>2 DEF OnceInv, AnsweredOnce, AllFromServer, FromServer
<1> QED BY <1>1, <1>2, <1>3 DEF Next

\* The server settles a request under one id only, while it loses no session,
\* refuses nothing and nobody logs out.
THEOREM RequestsExecuteOnce == Spec => []ExecutesOnce
<1>1. Init => OnceInv
  BY DEF Init, OnceInv, AnsweredOnce, AllFromServer, SentLater, OneAttempt
<1>2. Inv /\ Inv' /\ [Next]_vars /\ OnceInv => OnceInv'
  BY OnceStep
<1>3. Inv /\ OnceInv => ExecutesOnce
  BY OnceImplies
<1> QED BY <1>1, <1>2, <1>3, Invariance, PTL DEF Spec
=============================================================================
