------------------------ MODULE DispatchQueue_proofs ------------------------
(***************************************************************************)
(* What a caller that comes before the handler can rely on: nobody begins  *)
(* to wait after the notify, and a call is dropped only if its thread was  *)
(* woken by nobody.  Both follow from one invariant about the threads that *)
(* have left the wait before the handler is there.  A second one is about  *)
(* the messages: the queue runs them in the order the rest of the program  *)
(* counts on.                                                              *)
(* The other parts are about two components that may be beside the queue:  *)
(* the lists of observers of the notification center (Center), and the     *)
(* requests of each screen (Guids).                                        *)
(***************************************************************************)
EXTENDS MCBookkeeping, SequenceLemmas

Places == {"out", "checked", "waiting", "woken", "through"}

\* A thread that has left wait, or passed it, while there is no handler was
\* woken by nobody.
PassedEarly ==
  \A t \in Threads : (~handler /\ pc[t] \in {"woken", "through"}) => call[t].n \in spurious

StartInv ==
  /\ handler \in BOOLEAN
  /\ pc \in [Threads -> Places]
  /\ DOMAIN call = Threads
  /\ WaitsOnlyInCrowd
  /\ PassedEarly
  /\ DroppedOnlyIfWokenEarly

\* Before the queue has a handler nobody has passed the wait.
LEMMA InitStart == Init => StartInv
  BY DEF Init, StartInv, WaitsOnlyInCrowd, PassedEarly, DroppedOnlyIfWokenEarly, Waiting,
         Places

\* No step of the program, its callers or the clock breaks StartInv.
LEMMA NextStart == StartInv /\ [Next]_vars => StartInv'
<1> SUFFICES ASSUME StartInv, [Next]_vars
             PROVE  StartInv'
  OBVIOUS
<1> USE DEF StartInv, WaitsOnlyInCrowd, PassedEarly, DroppedOnlyIfWokenEarly, Waiting, Places
<1>1. CASE \E t \in Threads : Lock(t) \/ WakeUp(t)
  BY <1>1 DEF Lock, WakeUp, past
<1>2. ASSUME NEW t \in Threads, CallDropped(t)
      PROVE  StartInv'
  BY <1>2 DEF CallDropped, Returns
<1>3. ASSUME NEW t \in Threads, Post(t) \/ Cancel(t)
      PROVE  StartInv'
  BY <1>3 DEF Post, Cancel, Returns
<1>4. ASSUME NEW t \in Threads, WakesByItself(t)
      PROVE  StartInv'
  BY <1>4 DEF WakesByItself
<1>5. ASSUME NEW t \in Threads, NEW c \in Calls, Enter(t, c)
      PROVE  StartInv'
  BY <1>5 DEF Enter
<1>6. CASE Run
  BY <1>6 DEF Run
<1>7. CASE CleanupQueue \/ Loop \/ TimePasses \/ UNCHANGED vars
  BY <1>7 DEF CleanupQueue, Loop, TimePasses, monitor, past, vars
<1>8. QED
  BY <1>1, <1>2, <1>3, <1>4, <1>5, <1>6, <1>7 DEF Next, Step

\* Whatever the number of callers, of calls and of early returns of wait, the
\* threads that wait once the handler is there are those another was notified
\* before: nobody begins to wait too late, and of those who waited one is woken.
THEOREM WaitsOnlyInCrowdHolds == Spec => []WaitsOnlyInCrowd
<1>1. StartInv => WaitsOnlyInCrowd
  BY DEF StartInv
<1>2. QED
  BY <1>1, InitStart, NextStart, PTL DEF Spec

\* A call returns without having done anything only if its thread was woken
\* before there was a handler.
THEOREM DroppedOnlyIfWokenEarlyHolds == Spec => []DroppedOnlyIfWokenEarly
<1>1. StartInv => DroppedOnlyIfWokenEarly
  BY DEF StartInv
<1>2. QED
  BY <1>1, InitStart, NextStart, PTL DEF Spec
-----------------------------------------------------------------------------
(* What the order of the messages rests on.  The queue, the messages run and *)
(* those given up, cancelled or dropped, are q, b and gone below.            *)

Threaded == [t : Threads, op : {"post", "cancel"}, r : Runnables, delay : {0, Delay}]
InCall   == [op : {"post", "cancel"}, r : Runnables, delay : {0, Delay}, n : Nat]
Messages == [n : Nat, r : Runnables, when : Nat]

\* A thread is in the last of its calls.
Doing(t, n) == pc[t] # "out" /\ call[t].n = n

CallsRight ==
  \A t \in Threads :
    IF pc[t] = "out" THEN call[t] = NoCall
    ELSE /\ call[t] \in InCall /\ call[t].n \in DOMAIN made
         /\ made[call[t].n] = [t |-> t, op |-> call[t].op, r |-> call[t].r, delay |-> call[t].delay]
         /\ \A n \in DOMAIN made : made[n].t = t => n <= call[t].n

\* The messages are in the order of their times.
ByTime(q) == \A i, j \in DOMAIN q : i <= j => q[i].when <= q[j].when

\* A message is of a post that was made, and due no later than if it were posted now.
MessagesRight(q, time) ==
  \A k \in DOMAIN q :
    /\ q[k].n \in DOMAIN made /\ made[q[k].n].op = "post" /\ made[q[k].n].r = q[k].r
    /\ q[k].when <= time + made[q[k].n].delay

Queued(q, n) == \E k \in DOMAIN q : q[k].n = n
RanOf(b, n)  == \E k \in DOMAIN b : b[k] = n

\* What was posted waits, has run or was given up, once its call is over.
Accounted(q, b, gone) ==
  \A n \in DOMAIN made : made[n].op = "post" /\ ~Doing(made[n].t, n) =>
    Queued(q, n) \/ RanOf(b, n) \/ n \in gone

\* i is to run before j.
First(i, j) ==
  /\ i < j /\ made[i].t = made[j].t /\ made[i].op = "post" /\ made[j].op = "post"
  /\ made[i].delay <= made[j].delay

QueueOrder(q, b, gone) ==
  \A i, j \in DOMAIN made, l \in DOMAIN q : First(i, j) /\ q[l].n = j =>
    i \in gone \/ RanOf(b, i) \/ \E k \in 1..(l - 1) : q[k].n = i

RunOrder(b, gone) ==
  \A i, j \in DOMAIN made, l \in DOMAIN b : First(i, j) /\ b[l] = j =>
    i \in gone \/ \E k, m \in DOMAIN b : k < m /\ b[k] = i /\ b[m] = j

\* A cancel that is over has left of what its thread posted only what came later.
CancelsRight(q) ==
  \A j \in DOMAIN made, k \in DOMAIN q :
    /\ made[j].op = "cancel" /\ ~Doing(made[j].t, j) /\ j \notin dropped
    /\ q[k].r = made[j].r /\ made[q[k].n].t = made[j].t
    => q[k].n > j

Typed ==
  /\ handler \in BOOLEAN /\ now \in Nat /\ pc \in [Threads -> Places] /\ DOMAIN call = Threads
  /\ made \in Seq(Threaded) /\ queue \in Seq(Messages) /\ began \in Seq(Nat)
  /\ \A k \in DOMAIN began : began[k] \in DOMAIN made
  /\ removed \cup dropped \cup spurious \subseteq DOMAIN made /\ crowd \subseteq Threads

OrderInv ==
  /\ Typed /\ CallsRight /\ ByTime(queue) /\ MessagesRight(queue, now)
  /\ Accounted(queue, began, removed \cup dropped)
  /\ QueueOrder(queue, began, removed \cup dropped)
  /\ RunOrder(began, removed \cup dropped)
  /\ CancelsRight(queue)
-----------------------------------------------------------------------------
(* The queue by itself. *)

\* u is q with e put behind its first a messages.
PutAt(u, q, e, a) ==
  /\ DOMAIN q = 1..Len(q) /\ DOMAIN u = 1..(Len(q) + 1)
  /\ \A i \in 1..a : u[i] = q[i]
  /\ u[a + 1] = e
  /\ \A i \in (a + 1)..Len(q) : u[i + 1] = q[i] /\ q[i].when > e.when

\* A message is put behind those that are due no later, before the others.
LEMMA Enqueued ==
  ASSUME NEW q \in Seq(Messages), ByTime(q), NEW e \in Messages
  PROVE  /\ Enqueue(q, e) \in Seq(Messages) /\ ByTime(Enqueue(q, e))
         /\ \E a \in 0..Len(q) : PutAt(Enqueue(q, e), q, e, a)
<1> DEFINE A == { i \in 1..Len(q) : q[i].when <= e.when }
           a == Cardinality(A)
           n == Len(q)
           u == Enqueue(q, e)
<1>1. /\ n \in Nat /\ DOMAIN q = 1..n
      /\ \A i \in 1..n : q[i] \in Messages /\ q[i].when \in Nat
      /\ e.when \in Nat
  <2>1. n \in Nat /\ DOMAIN q = 1..n /\ \A i \in 1..n : q[i] \in Messages
    OBVIOUS
  <2> QED BY <2>1 DEF Messages
<1>2. a \in 0..n /\ A = 1..a
  <2>1. \A i \in A : \A j \in 1..i : j \in A
    BY <1>1 DEF ByTime
  <2>2. A \in SUBSET (1..n)
    OBVIOUS
  <2> HIDE DEF A
  <2> QED BY <1>1, <2>1, <2>2, FirstPlaces
<1>3. \A i \in 1..n : i \in 1..a <=> q[i].when <= e.when
  <2>1. \A i \in 1..n : i \in A <=> q[i].when <= e.when
    OBVIOUS
  <2> HIDE DEF A, a
  <2> QED BY <1>2, <2>1
<1>4. u = SubSeq(q, 1, a) \o <<e>> \o SubSeq(q, a + 1, n)
  BY DEF Enqueue
<1> HIDE DEF A, a, u
<1>5. a \in Nat /\ a <= n /\ n \in Nat
  BY <1>1, <1>2
<1>6. \A i \in (a + 1)..n : q[i].when > e.when
  <2> TAKE i \in (a + 1)..n
  <2>1. i \in 1..n /\ i \notin 1..a
    BY <1>5
  <2>2. ~(q[i].when <= e.when) /\ q[i].when \in Nat
    BY <1>1, <1>3, <2>1
  <2> QED BY <1>1, <2>2
<1>7. \A i \in 1..a : q[i].when <= e.when
  <2> TAKE i \in 1..a
  <2>1. i \in 1..n
    BY <1>5
  <2> QED BY <1>3, <2>1
<1> DEFINE x == SubSeq(q, 1, a)
           z == SubSeq(q, a + 1, n)
<1>8. x \in Seq(Messages) /\ Len(x) = a /\ \A i \in 1..a : x[i] = q[i]
  BY <1>1, <1>5
<1>9. z \in Seq(Messages) /\ Len(z) = n - a /\ \A i \in 1..(n - a) : z[i] = q[a + i]
  <2>1. a + 1 \in 1..(n + 1) /\ n \in a..n /\ n - (a + 1) + 1 = n - a
    BY <1>1, <1>5
  <2>2. /\ z \in Seq(Messages)
        /\ Len(z) = IF a + 1 <= n THEN n - (a + 1) + 1 ELSE 0
        /\ \A i \in 1..(n - (a + 1) + 1) : z[i] = q[a + 1 + i - 1]
    BY <1>1, <2>1, SubSeqProperties
  <2>3. \A i \in 1..(n - a) : a + 1 + i - 1 = a + i
    BY <1>1, <1>5
  <2> HIDE DEF z
  <2>4. Len(z) = n - a
    <3>1. n \in Nat /\ a \in Nat /\ a <= n
      BY <1>1, <1>5
    <3>2. (IF a + 1 <= n THEN n - (a + 1) + 1 ELSE 0) = n - a
      BY <3>1
    <3>3. Len(z) = IF a + 1 <= n THEN n - (a + 1) + 1 ELSE 0
      BY <2>2
    <3> QED BY <3>2, <3>3
  <2>5. \A i \in 1..(n - a) : z[i] = q[a + i]
    <3> TAKE i \in 1..(n - a)
    <3>1. i \in 1..(n - (a + 1) + 1)
      BY <2>1
    <3>2. a + 1 + i - 1 = a + i
      BY <2>3
    <3>3. z[i] = q[a + 1 + i - 1]
      BY <2>2, <3>1
    <3> QED BY <3>2, <3>3
  <2> QED BY <2>2, <2>4, <2>5
<1> HIDE DEF x, z
<1>10. u = x \o <<e>> \o z
  BY <1>4 DEF x, z
<1> DEFINE y == x \o <<e>>
<1>11. y \in Seq(Messages) /\ Len(y) = a + 1 /\ y[a + 1] = e /\ \A i \in 1..a : y[i] = x[i]
  BY <1>5, <1>8
<1> HIDE DEF y
<1>12. /\ u \in Seq(Messages) /\ Len(u) = n + 1
       /\ \A i \in 1..(a + 1) : u[i] = y[i]
       /\ \A i \in 1..(n - a) : u[a + 1 + i] = z[i]
  BY <1>1, <1>5, <1>9, <1>10, <1>11 DEF y
<1>13. /\ \A i \in 1..a : u[i] = q[i]
       /\ u[a + 1] = e
       /\ DOMAIN u = 1..(n + 1)
  BY <1>1, <1>5, <1>8, <1>11, <1>12
<1>14. \A i \in (a + 1)..n : u[i + 1] = q[i]
  <2> TAKE i \in (a + 1)..n
  <2>1. i - a \in 1..(n - a) /\ a + 1 + (i - a) = i + 1 /\ a + (i - a) = i
    BY <1>1, <1>5
  <2> QED BY <1>9, <1>12, <2>1
<1>15. ByTime(u)
  <2> SUFFICES ASSUME NEW i \in 1..(n + 1), NEW j \in 1..(n + 1), i <= j
               PROVE  u[i].when <= u[j].when
    BY <1>13 DEF ByTime
  <2>1. \A k \in 1..(n + 1) : k \in 1..a \/ k = a + 1 \/ (k - 1 \in (a + 1)..n /\ (k - 1) + 1 = k)
    BY <1>1, <1>5
  <2>2. \A k \in (a + 1)..n : k \in 1..n
    BY <1>5
  <2>3. \A k \in 1..a : k \in 1..n
    BY <1>1, <1>5
  <2>4. \A k, m \in 1..n : k <= m => q[k].when <= q[m].when
    BY <1>1 DEF ByTime
  <2>5. CASE i \in 1..a
    <3>1. CASE j \in 1..a
      BY <1>13, <2>3, <2>4, <2>5, <3>1
    <3>2. CASE j = a + 1
      BY <1>7, <1>13, <2>5, <3>2
    <3>3. CASE j - 1 \in (a + 1)..n /\ (j - 1) + 1 = j
      <4>1. u[i] = q[i] /\ u[j] = q[j - 1] /\ i <= j - 1
        BY <1>5, <1>13, <1>14, <2>5, <3>3
      <4> QED BY <2>2, <2>3, <2>4, <2>5, <3>3, <4>1
    <3> QED BY <2>1, <3>1, <3>2, <3>3
  <2>6. CASE i = a + 1
    <3>1. CASE j = a + 1
      BY <1>1, <1>13, <2>6, <3>1
    <3>2. CASE j - 1 \in (a + 1)..n /\ (j - 1) + 1 = j
      <4>1. u[i] = e /\ u[j] = q[j - 1] /\ q[j - 1].when > e.when /\ q[j - 1].when \in Nat
        BY <1>1, <1>6, <1>13, <1>14, <2>2, <2>6, <3>2
      <4> QED BY <1>1, <4>1
    <3> QED BY <1>5, <2>1, <2>6, <3>1, <3>2
  <2>7. CASE i - 1 \in (a + 1)..n /\ (i - 1) + 1 = i
    <3>1. j - 1 \in (a + 1)..n /\ (j - 1) + 1 = j /\ i - 1 <= j - 1
      BY <1>1, <1>5, <2>7
    <3>2. u[i] = q[i - 1] /\ u[j] = q[j - 1]
      BY <1>14, <2>7, <3>1
    <3> QED BY <2>2, <2>4, <2>7, <3>1, <3>2
  <2> QED BY <2>1, <2>5, <2>6, <2>7
<1>16. a \in 0..n
  BY <1>1, <1>5
<1>17. PutAt(u, q, e, a)
  <2> HIDE DEF a, u
  <2> QED BY <1>1, <1>6, <1>13, <1>14 DEF PutAt
<1> HIDE DEF a, n, u
<1> QED BY <1>12, <1>15, <1>16, <1>17 DEF n, u

\* What is left when some messages are taken out keeps its order, if those are
\* counted as given up.
LEMMA TakingOutKeepsOrder ==
  ASSUME queue \in Seq(Messages), ByTime(queue), NEW P \in SUBSET (DOMAIN queue),
         NEW b, NEW gone, NEW lost, QueueOrder(queue, b, gone),
         gone \subseteq lost, \A k \in DOMAIN queue : k \in P \/ queue[k].n \in lost
  PROVE  LET u == SelectAt(queue, P)
         IN  /\ u \in Seq(Messages) /\ ByTime(u) /\ QueueOrder(u, b, lost)
             /\ \A k \in DOMAIN u : \E m \in P : u[k] = queue[m]
             /\ \A n : Queued(queue, n) => Queued(u, n) \/ n \in lost
<1> DEFINE u == SelectAt(queue, P)
<1>1. PICK p \in [DOMAIN u -> P] :
        /\ \A i \in DOMAIN u : u[i] = queue[p[i]]
        /\ \A i, j \in DOMAIN u : i < j => p[i] < p[j]
        /\ \A x \in P : \E i \in DOMAIN u : p[i] = x
  <2>1. TakenAt(u, queue, P)
    BY Selected
  <2> HIDE DEF u
  <2> QED BY <2>1 DEF TakenAt
<1>2. u \in Seq(Messages)
  BY Selected
<1>3. /\ Len(u) \in Nat /\ DOMAIN u = 1..Len(u)
      /\ Len(queue) \in Nat /\ DOMAIN queue = 1..Len(queue)
  <2> HIDE DEF u
  <2> QED BY <1>2
<1> HIDE DEF u
<1>4. \A i \in DOMAIN u : i \in Nat /\ p[i] \in P /\ p[i] \in DOMAIN queue /\ p[i] \in Nat
  BY <1>1, <1>3
<1>5. ByTime(u)
  <2> SUFFICES ASSUME NEW i \in DOMAIN u, NEW j \in DOMAIN u, i <= j
               PROVE  u[i].when <= u[j].when
    BY DEF ByTime
  <2>1. i = j \/ i < j
    BY <1>4
  <2>2. p[i] <= p[j]
    BY <1>1, <1>4, <2>1
  <2>3. u[i] = queue[p[i]] /\ u[j] = queue[p[j]]
    BY <1>1
  <2> QED BY <1>4, <2>2, <2>3 DEF ByTime
<1>6. QueueOrder(u, b, lost)
  <2> SUFFICES ASSUME NEW i \in DOMAIN made, NEW j \in DOMAIN made, NEW l \in DOMAIN u,
                      First(i, j), u[l].n = j, i \notin lost, ~RanOf(b, i)
               PROVE  \E k \in 1..(l - 1) : u[k].n = i
    BY DEF QueueOrder
  <2>1. p[l] \in DOMAIN queue /\ queue[p[l]].n = j
    BY <1>1, <1>4
  <2>2. PICK k \in 1..(p[l] - 1) : queue[k].n = i
    BY <2>1 DEF QueueOrder
  <2>3. k \in P /\ k \in Nat
    BY <1>3, <1>4, <2>2
  <2>4. PICK m \in DOMAIN u : p[m] = k
    BY <1>1, <2>3
  <2>5. p[m] < p[l]
    BY <1>4, <2>2, <2>4
  <2>6. m < l
    <3>1. ~(l < m) /\ l # m
      BY <1>1, <1>4, <2>5
    <3> QED BY <1>4, <3>1
  <2>7. m \in 1..(l - 1) /\ u[m].n = i
    BY <1>1, <1>3, <2>2, <2>4, <2>6
  <2> QED BY <2>7
<1>7. \A n : Queued(queue, n) => Queued(u, n) \/ n \in lost
  BY <1>1 DEF Queued
<1> QED BY <1>1, <1>2, <1>4, <1>5, <1>6, <1>7 DEF u

\* A thread that goes out of its call leaves the calls of the others as they are.
LEMMA ReturnsEffect ==
  ASSUME Typed, CallsRight, NEW t \in Threads, pc[t] # "out", Returns(t), made' = made
  PROVE  /\ pc' \in [Threads -> Places] /\ DOMAIN call' = Threads /\ CallsRight'
         /\ call[t].n \in DOMAIN made /\ Doing(t, call[t].n)
         /\ made[call[t].n] = [t |-> t, op |-> call[t].op, r |-> call[t].r, delay |-> call[t].delay]
         /\ call[t].op \in {"post", "cancel"} /\ call[t].r \in Runnables /\ call[t].delay \in {0, Delay}
         /\ \A n \in DOMAIN made : made[n].t = t => n <= call[t].n
         /\ \A n : Doing(t, n) <=> n = call[t].n
         /\ \A u \in Threads : \A n : Doing(u, n)' <=> Doing(u, n) /\ u # t
<1>1. /\ pc' = [pc EXCEPT ![t] = "out"] /\ call' = [call EXCEPT ![t] = NoCall]
      /\ pc \in [Threads -> Places] /\ DOMAIN call = Threads
  BY DEF Returns, Typed
<1>2. /\ pc' \in [Threads -> Places] /\ DOMAIN call' = Threads
      /\ \A u \in Threads : IF u = t THEN pc'[u] = "out" /\ call'[u] = NoCall
                            ELSE pc'[u] = pc[u] /\ call'[u] = call[u]
  BY <1>1 DEF Places
<1>3. CallsRight'
  BY <1>2 DEF CallsRight
<1>4. \A u \in Threads : \A n : Doing(u, n)' <=> Doing(u, n) /\ u # t
  BY <1>2 DEF Doing
<1>5. /\ call[t] \in InCall /\ call[t].n \in DOMAIN made
      /\ made[call[t].n] = [t |-> t, op |-> call[t].op, r |-> call[t].r, delay |-> call[t].delay]
      /\ \A n \in DOMAIN made : made[n].t = t => n <= call[t].n
  BY DEF CallsRight
<1>6. call[t].op \in {"post", "cancel"} /\ call[t].r \in Runnables /\ call[t].delay \in {0, Delay}
  BY <1>5 DEF InCall
<1>7. \A n : Doing(t, n) <=> n = call[t].n
  BY DEF Doing
<1> QED BY <1>2, <1>3, <1>4, <1>5, <1>6, <1>7
-----------------------------------------------------------------------------
(* The steps. *)

\* Before the first call there is nothing to keep in order.
LEMMA InitOrder == Init => OrderInv
<1> SUFFICES ASSUME Init PROVE OrderInv
  OBVIOUS
<1>1. /\ made = <<>> /\ queue = <<>> /\ began = <<>> /\ removed = {} /\ dropped = {}
      /\ DOMAIN made = {} /\ DOMAIN queue = {} /\ DOMAIN began = {}
  BY DEF Init
<1>2. /\ made \in Seq(Threaded) /\ queue \in Seq(Messages) /\ began \in Seq(Nat)
  BY <1>1
<1>3. Typed
  BY <1>1, <1>2 DEF Init, Typed, Places
<1>4. CallsRight
  BY DEF Init, CallsRight
<1>5. ByTime(queue) /\ MessagesRight(queue, now) /\ CancelsRight(queue)
  BY <1>1 DEF ByTime, MessagesRight, CancelsRight
<1>6. /\ Accounted(queue, began, removed \cup dropped) /\ RunOrder(began, removed \cup dropped)
      /\ QueueOrder(queue, began, removed \cup dropped)
  BY <1>1 DEF Accounted, QueueOrder, RunOrder
<1> QED BY <1>3, <1>4, <1>5, <1>6 DEF OrderInv

\* Steps that begin and end no call, and touch no message.
LEMMA QuietKeepsOrder ==
  ASSUME OrderInv, UNCHANGED <<call, made, queue, began, removed, dropped>>,
         pc' \in [Threads -> Places], \A u \in Threads : pc'[u] = "out" <=> pc[u] = "out",
         now' \in Nat, now <= now', handler' \in BOOLEAN, crowd' \subseteq Threads,
         spurious' \subseteq DOMAIN made
  PROVE  OrderInv'
<1>1. Typed' /\ CallsRight' /\ ByTime(queue)'
  BY DEF OrderInv, Typed, CallsRight, ByTime
<1>2. MessagesRight(queue, now)'
  <2>1. \A k \in DOMAIN queue :
          /\ queue[k].n \in DOMAIN made /\ queue[k].when \in Nat
          /\ made[queue[k].n].delay \in Nat
    <3>1. \A k \in DOMAIN queue : queue[k] \in Messages /\ queue[k].n \in DOMAIN made
      BY DEF OrderInv, Typed, MessagesRight
    <3>2. \A n \in DOMAIN made : made[n] \in Threaded
      BY DEF OrderInv, Typed
    <3> QED BY <3>1, <3>2, ParameterAssumption DEF Messages, Threaded
  <2>2. now \in Nat
    BY DEF OrderInv, Typed
  <2> QED BY <2>1, <2>2 DEF OrderInv, MessagesRight
<1>3. \A n \in DOMAIN made : Doing(made[n].t, n)' <=> Doing(made[n].t, n)
  <2>1. \A n \in DOMAIN made : made[n].t \in Threads
    <3>1. \A n \in DOMAIN made : made[n] \in Threaded
      BY DEF OrderInv, Typed
    <3> QED BY <3>1 DEF Threaded
  <2> QED BY <2>1 DEF Doing
<1>4. Accounted(queue, began, removed \cup dropped)'
  BY <1>3 DEF OrderInv, Accounted, Queued, RanOf
<1>5. QueueOrder(queue, began, removed \cup dropped)' /\ RunOrder(began, removed \cup dropped)'
  BY DEF OrderInv, QueueOrder, RunOrder, First, RanOf
<1>6. CancelsRight(queue)'
  BY <1>3 DEF OrderInv, CancelsRight
<1> QED BY <1>1, <1>2, <1>4, <1>5, <1>6 DEF OrderInv

LEMMA EnterKeepsOrder ==
  ASSUME OrderInv, NEW t \in Threads, NEW c \in Calls, Enter(t, c)
  PROVE  OrderInv'
<1> DEFINE n == Len(made')
           r == [t |-> t, op |-> c.op, r |-> c.r, delay |-> c.delay]
<1>1. /\ pc[t] = "out" /\ made' = Append(made, r)
      /\ call' = [call EXCEPT ![t] = [op |-> c.op, r |-> c.r, delay |-> c.delay, n |-> n]]
      /\ pc' = [pc EXCEPT ![t] = IF handler THEN "through" ELSE "checked"]
      /\ UNCHANGED <<handler, queue, now, began, removed, crowd, dropped, spurious>>
  BY DEF Enter
<1>2. Typed /\ CallsRight /\ made \in Seq(Threaded)
  BY DEF OrderInv, Typed
<1>3. c.op \in {"post", "cancel"} /\ c.r \in Runnables /\ c.delay \in {0, Delay}
  BY DEF Calls
<1>4. r \in Threaded
  BY <1>3 DEF Threaded
<1>5. /\ made' \in Seq(Threaded) /\ n = Len(made) + 1 /\ n \in Nat \ {0}
      /\ DOMAIN made = 1..(n - 1) /\ DOMAIN made' = 1..n
      /\ \A i \in 1..(n - 1) : made'[i] = made[i]
      /\ made'[n] = r
  <2> HIDE DEF r
  <2> QED BY <1>1, <1>2, <1>4
<1>6. /\ pc' \in [Threads -> Places] /\ DOMAIN call' = Threads
      /\ pc'[t] # "out" /\ call'[t] = [op |-> c.op, r |-> c.r, delay |-> c.delay, n |-> n]
      /\ \A u \in Threads \ {t} : pc'[u] = pc[u] /\ call'[u] = call[u]
  <2> HIDE DEF n
  <2> QED BY <1>1, <1>2 DEF Typed, Places
<1>7. call'[t] \in InCall /\ call'[t].n = n
      /\ made'[n] = [t |-> t, op |-> call'[t].op, r |-> call'[t].r, delay |-> call'[t].delay]
  <2> HIDE DEF n
  <2> QED BY <1>3, <1>5, <1>6 DEF InCall, r
<1>8. made'[n].t = t
  BY <1>5
<1> HIDE DEF n, r
<1>9. \A i \in DOMAIN made : i \in DOMAIN made' /\ i # n /\ i \in Nat /\ i < n /\ made'[i] = made[i]
  BY <1>5
<1>10. \A i \in DOMAIN made' : i \in Nat /\ i <= n /\ (i = n \/ i \in DOMAIN made)
  BY <1>5
<1>11. n \in DOMAIN made'
  BY <1>5
<1>12. Typed'
  BY <1>1, <1>2, <1>5, <1>6, <1>9 DEF Typed
<1>13. CallsRight'
  <2> SUFFICES ASSUME NEW u \in Threads
               PROVE  IF pc'[u] = "out" THEN call'[u] = NoCall
                      ELSE /\ call'[u] \in InCall /\ call'[u].n \in DOMAIN made'
                           /\ made'[call'[u].n] = [t |-> u, op |-> call'[u].op, r |-> call'[u].r,
                                                   delay |-> call'[u].delay]
                           /\ \A i \in DOMAIN made' : made'[i].t = u => i <= call'[u].n
    BY DEF CallsRight, InCall, NoCall
  <2>1. CASE u = t
    BY <1>6, <1>7, <1>10, <1>11, <2>1
  <2>2. CASE u # t /\ pc[u] = "out"
    BY <1>2, <1>6, <2>2 DEF CallsRight
  <2>3. CASE u # t /\ pc[u] # "out"
    <3>1. pc'[u] = pc[u] /\ call'[u] = call[u]
      BY <1>6, <2>3
    <3>2. /\ call[u] \in InCall /\ call[u].n \in DOMAIN made
          /\ made[call[u].n] = [t |-> u, op |-> call[u].op, r |-> call[u].r, delay |-> call[u].delay]
          /\ \A i \in DOMAIN made : made[i].t = u => i <= call[u].n
      BY <1>2, <2>3 DEF CallsRight
    <3>3. \A i \in DOMAIN made' : made'[i].t = u => i <= call[u].n
      BY <1>8, <1>9, <1>10, <2>3, <3>2
    <3> QED BY <1>9, <2>3, <3>1, <3>2, <3>3
  <2> QED BY <2>1, <2>2, <2>3
<1>14. \A i : i = n => Doing(made[i].t, i)'
  BY <1>6, <1>7, <1>8 DEF Doing
<1>15. \A i \in DOMAIN made : Doing(made[i].t, i)' <=> Doing(made[i].t, i)
  <2> TAKE i \in DOMAIN made
  <2>1. made[i].t \in Threads /\ made'[i] = made[i] /\ i # n
    <3>1. made[i] \in Threaded
      BY <1>2
    <3> QED BY <1>9, <3>1 DEF Threaded
  <2>2. CASE made[i].t = t
    BY <1>1, <1>6, <1>7, <2>1, <2>2 DEF Doing
  <2>3. CASE made[i].t # t
    BY <1>6, <2>1, <2>3 DEF Doing
  <2> QED BY <2>2, <2>3
<1>16. ByTime(queue)' /\ MessagesRight(queue, now)'
  BY <1>1, <1>9 DEF OrderInv, ByTime, MessagesRight
<1>17. Accounted(queue, began, removed \cup dropped)'
  <2> SUFFICES ASSUME NEW i \in DOMAIN made', made'[i].op = "post", ~Doing(made[i].t, i)'
               PROVE  Queued(queue, i) \/ RanOf(began, i) \/ i \in removed \cup dropped
    BY <1>1 DEF Accounted, Queued, RanOf
  <2>1. i \in DOMAIN made
    BY <1>10, <1>14
  <2>2. made[i].op = "post" /\ ~Doing(made[i].t, i)
    BY <1>9, <1>15, <2>1
  <2> QED BY <2>1, <2>2 DEF OrderInv, Accounted
<1>18. \A i, j \in DOMAIN made : First(i, j)' <=> First(i, j)
  BY <1>9 DEF First
<1>19. \A i, j \in DOMAIN made' : First(i, j)' /\ j \in DOMAIN made => i \in DOMAIN made
  BY <1>9, <1>10 DEF First
<1>20. QueueOrder(queue, began, removed \cup dropped)'
  <2> SUFFICES ASSUME NEW i \in DOMAIN made', NEW j \in DOMAIN made', NEW l \in DOMAIN queue,
                      First(i, j)', queue[l].n = j
               PROVE  \/ i \in removed \cup dropped \/ RanOf(began, i)
                      \/ \E k \in 1..(l - 1) : queue[k].n = i
    BY <1>1 DEF QueueOrder, RanOf
  <2>1. j \in DOMAIN made
    BY DEF OrderInv, MessagesRight
  <2>2. i \in DOMAIN made /\ First(i, j)
    BY <1>18, <1>19, <2>1
  <2> QED BY <2>1, <2>2 DEF OrderInv, QueueOrder
<1>21. RunOrder(began, removed \cup dropped)'
  <2> SUFFICES ASSUME NEW i \in DOMAIN made', NEW j \in DOMAIN made', NEW l \in DOMAIN began,
                      First(i, j)', began[l] = j
               PROVE  \/ i \in removed \cup dropped
                      \/ \E k, m \in DOMAIN began : k < m /\ began[k] = i /\ began[m] = j
    BY <1>1 DEF RunOrder
  <2>1. j \in DOMAIN made
    BY <1>2 DEF Typed
  <2>2. i \in DOMAIN made /\ First(i, j)
    BY <1>18, <1>19, <2>1
  <2> QED BY <2>1, <2>2 DEF OrderInv, RunOrder
<1>22. CancelsRight(queue)'
  <2> SUFFICES ASSUME NEW j \in DOMAIN made', NEW k \in DOMAIN queue, made'[j].op = "cancel",
                      ~Doing(made[j].t, j)', j \notin dropped, queue[k].r = made'[j].r,
                      made'[queue[k].n].t = made'[j].t
               PROVE  queue[k].n > j
    BY <1>1 DEF CancelsRight
  <2>1. j \in DOMAIN made
    BY <1>10, <1>14
  <2>2. queue[k].n \in DOMAIN made
    BY DEF OrderInv, MessagesRight
  <2>3. /\ made[j].op = "cancel" /\ ~Doing(made[j].t, j) /\ queue[k].r = made[j].r
        /\ made[queue[k].n].t = made[j].t
    BY <1>9, <1>15, <2>1, <2>2
  <2> QED BY <2>1, <2>3 DEF OrderInv, CancelsRight
<1> QED BY <1>12, <1>13, <1>16, <1>17, <1>20, <1>21, <1>22 DEF OrderInv

LEMMA PostKeepsOrder ==
  ASSUME OrderInv, NEW t \in Threads, Post(t)
  PROVE  OrderInv'
<1> DEFINE e == [n |-> call[t].n, r |-> call[t].r, when |-> now + call[t].delay]
           g == removed \cup dropped
<1>1. /\ pc[t] # "out" /\ call[t].op = "post" /\ queue' = Enqueue(queue, e) /\ Returns(t)
      /\ UNCHANGED <<handler, now, made, began, removed, crowd, dropped, spurious>>
  BY DEF Post
<1>2. Typed /\ CallsRight /\ queue \in Seq(Messages) /\ now \in Nat /\ ByTime(queue)
  BY DEF OrderInv, Typed
<1>3. /\ pc' \in [Threads -> Places] /\ DOMAIN call' = Threads /\ CallsRight'
      /\ call[t].n \in DOMAIN made
      /\ made[call[t].n] = [t |-> t, op |-> call[t].op, r |-> call[t].r, delay |-> call[t].delay]
      /\ call[t].r \in Runnables /\ call[t].delay \in {0, Delay}
      /\ \A n \in DOMAIN made : made[n].t = t => n <= call[t].n
      /\ \A n : Doing(t, n) <=> n = call[t].n
      /\ \A u \in Threads : \A n : Doing(u, n)' <=> Doing(u, n) /\ u # t
  BY <1>1, <1>2, ReturnsEffect
<1>4. \A n \in DOMAIN made : n \in Nat /\ made[n].t \in Threads /\ made[n].delay \in Nat
  <2>1. \A n \in DOMAIN made : n \in Nat /\ made[n] \in Threaded
    BY <1>2 DEF Typed
  <2> QED BY <2>1, ParameterAssumption DEF Threaded
<1>0. \A n \in DOMAIN made : Doing(made[n].t, n)' <=> Doing(made[n].t, n) /\ made[n].t # t
  BY <1>1, <1>3, <1>4 DEF Doing
<1>5. e \in Messages /\ e.n = call[t].n /\ e.r = call[t].r /\ e.when = now + call[t].delay
  BY <1>2, <1>3, <1>4, ParameterAssumption DEF Messages
<1>6. /\ made[e.n].t = t /\ made[e.n].op = "post" /\ made[e.n].r = e.r
      /\ e.when = now + made[e.n].delay /\ e.n \in DOMAIN made
  BY <1>1, <1>3, <1>5
<1> HIDE DEF e
<1>e. queue' = Enqueue(queue, e) /\ queue \in Seq(Messages) /\ ByTime(queue) /\ e \in Messages
  BY <1>1, <1>2, <1>5
<1>7. queue' \in Seq(Messages) /\ ByTime(queue')
  BY <1>e, Enqueued
<1>8. PICK a \in 0..Len(queue) :
        /\ DOMAIN queue = 1..Len(queue) /\ DOMAIN queue' = 1..(Len(queue) + 1)
        /\ \A i \in 1..a : queue'[i] = queue[i]
        /\ queue'[a + 1] = e
        /\ \A i \in (a + 1)..Len(queue) : queue'[i + 1] = queue[i] /\ queue[i].when > e.when
  <2>1. PICK a \in 0..Len(queue) : PutAt(queue', queue, e, a)
    BY <1>e, Enqueued
  <2> QED BY <2>1 DEF PutAt
<1>9. Len(queue) \in Nat /\ a \in Nat /\ a <= Len(queue)
  BY <1>2, <1>8
\* Where a message was it is, or one place behind.
<1>10. \A k \in DOMAIN queue :
         \/ k <= a /\ k \in DOMAIN queue' /\ queue'[k] = queue[k]
         \/ k > a /\ k + 1 \in DOMAIN queue' /\ queue'[k + 1] = queue[k] /\ queue[k].when > e.when
  BY <1>8, <1>9
<1>11. \A l \in DOMAIN queue' :
         \/ l <= a /\ l \in DOMAIN queue /\ queue'[l] = queue[l]
         \/ l = a + 1 /\ queue'[l] = e
         \/ l > a + 1 /\ l - 1 \in DOMAIN queue /\ queue'[l] = queue[l - 1]
  <2> TAKE l \in DOMAIN queue'
  <2>1. l \in Nat /\ 1 <= l /\ l <= Len(queue) + 1
    BY <1>8, <1>9
  <2>2. CASE l <= a
    BY <1>8, <1>9, <2>1, <2>2
  <2>3. CASE l = a + 1
    BY <1>8, <2>3
  <2>4. CASE l > a + 1
    <3>1. l - 1 \in (a + 1)..Len(queue) /\ (l - 1) + 1 = l
      BY <1>9, <2>1, <2>4
    <3> QED BY <1>8, <1>9, <2>4, <3>1
  <2> QED BY <1>9, <2>1, <2>2, <2>3, <2>4
<1>12. a + 1 \in DOMAIN queue' /\ queue'[a + 1] = e
  BY <1>8, <1>9
<1>13. Typed'
  BY <1>1, <1>2, <1>3, <1>7 DEF Typed
<1>14. MessagesRight(queue, now)'
  <2>1. MessagesRight(queue, now)
    BY DEF OrderInv
  <2>2. \A l \in DOMAIN queue' :
          /\ queue'[l].n \in DOMAIN made /\ made[queue'[l].n].op = "post"
          /\ made[queue'[l].n].r = queue'[l].r
          /\ queue'[l].when <= now + made[queue'[l].n].delay
    <3> TAKE l \in DOMAIN queue'
    <3>1. CASE queue'[l] = e
      BY <1>2, <1>4, <1>6, <3>1
    <3>2. ASSUME NEW k \in DOMAIN queue, queue'[l] = queue[k]
          PROVE  /\ queue'[l].n \in DOMAIN made /\ made[queue'[l].n].op = "post"
                 /\ made[queue'[l].n].r = queue'[l].r
                 /\ queue'[l].when <= now + made[queue'[l].n].delay
      BY <2>1, <3>2 DEF MessagesRight
    <3> QED BY <1>11, <3>1, <3>2
  <2> QED BY <1>1, <2>2 DEF MessagesRight
<1>15. \A n : Queued(queue, n) => Queued(queue', n)
  <2> SUFFICES ASSUME NEW k \in DOMAIN queue
               PROVE  \E l \in DOMAIN queue' : queue'[l].n = queue[k].n
    BY DEF Queued
  <2> QED BY <1>10
<1>16. Queued(queue', e.n)
  BY <1>12 DEF Queued
<1>17. Accounted(queue, began, removed \cup dropped)'
  <2> SUFFICES ASSUME NEW n \in DOMAIN made, made[n].op = "post", ~Doing(made[n].t, n)'
               PROVE  Queued(queue', n) \/ RanOf(began, n) \/ n \in g
    BY <1>1 DEF Accounted, Queued, RanOf
  <2>1. CASE Doing(made[n].t, n)
    <3>1. made[n].t = t
      BY <1>0, <2>1
    <3>2. n = e.n
      BY <1>3, <1>5, <2>1, <3>1
    <3> QED BY <1>16, <3>2
  <2>2. CASE ~Doing(made[n].t, n)
    BY <1>15, <2>2 DEF OrderInv, Accounted
  <2> QED BY <2>1, <2>2
<1>18. QueueOrder(queue, began, removed \cup dropped)'
  <2> SUFFICES ASSUME NEW i \in DOMAIN made, NEW j \in DOMAIN made, NEW l \in DOMAIN queue',
                      First(i, j), queue'[l].n = j, i \notin g, ~RanOf(began, i)
               PROVE  \E k \in 1..(l - 1) : queue'[k].n = i
    BY <1>1 DEF QueueOrder, RanOf, First
  <2>1. l \in Nat
    BY <1>8, <1>9
  <2>2. CASE queue'[l] = e /\ l = a + 1
    \* The message is put behind the ones it has to follow.
    <3>1. j = e.n /\ made[i].t = t /\ made[i].op = "post" /\ i < j /\ made[i].delay <= made[j].delay
      BY <1>6, <2>2 DEF First
    <3>2. ~Doing(made[i].t, i)
      BY <1>3, <1>4, <1>5, <3>1
    <3>3. Queued(queue, i)
      BY <3>1, <3>2 DEF OrderInv, Accounted
    <3>4. PICK k \in DOMAIN queue : queue[k].n = i
      BY <3>3 DEF Queued
    <3>5. queue[k].when <= now + made[i].delay /\ queue[k].when \in Nat
      <4>1. queue[k] \in Messages
        BY <1>2
      <4> QED BY <3>4, <4>1 DEF OrderInv, MessagesRight, Messages
    <3>6. ~(queue[k].when > e.when)
      BY <1>2, <1>4, <1>6, <3>1, <3>5
    <3>7. k <= a /\ queue'[k] = queue[k]
      BY <1>10, <3>6
    <3>8. k \in 1..(l - 1)
      BY <1>8, <1>9, <2>2, <3>7
    <3> QED BY <3>4, <3>7, <3>8
  <2>3. ASSUME NEW m \in DOMAIN queue, queue'[l] = queue[m],
               (l <= a /\ l = m) \/ (l > a + 1 /\ m = l - 1)
        PROVE  \E k \in 1..(l - 1) : queue'[k].n = i
    <3>1. PICK k \in 1..(m - 1) : queue[k].n = i
      BY <2>3 DEF OrderInv, QueueOrder
    <3>2. k \in DOMAIN queue /\ k \in Nat /\ m \in Nat /\ k < m
      BY <1>8, <1>9, <3>1
    <3>3. CASE k <= a /\ queue'[k] = queue[k]
      <4>1. k \in 1..(l - 1)
        BY <2>1, <2>3, <3>1, <3>2
      <4> QED BY <3>1, <3>3, <4>1
    <3>4. CASE k > a /\ queue'[k + 1] = queue[k]
      <4>1. k + 1 \in 1..(l - 1)
        BY <1>9, <2>1, <2>3, <3>2, <3>4
      <4> QED BY <3>1, <3>4, <4>1
    <3> QED BY <1>10, <3>2, <3>3, <3>4
  <2>4. \/ l <= a /\ l \in DOMAIN queue /\ queue'[l] = queue[l]
        \/ l = a + 1 /\ queue'[l] = e
        \/ l > a + 1 /\ l - 1 \in DOMAIN queue /\ queue'[l] = queue[l - 1]
    BY <1>11
  <2> QED BY <2>2, <2>3, <2>4
<1>19. RunOrder(began, removed \cup dropped)'
  BY <1>1 DEF OrderInv, RunOrder, First
<1>20. CancelsRight(queue)'
  <2> SUFFICES ASSUME NEW j \in DOMAIN made, NEW l \in DOMAIN queue', made[j].op = "cancel",
                      ~Doing(made[j].t, j)', j \notin dropped, queue'[l].r = made[j].r,
                      made[queue'[l].n].t = made[j].t
               PROVE  queue'[l].n > j
    BY <1>1 DEF CancelsRight
  <2>1. ~Doing(made[j].t, j)
    <3>1. made[j].t = t => j # call[t].n
      BY <1>1, <1>3
    <3> QED BY <1>0, <1>3, <3>1
  <2>2. CASE queue'[l] = e
    <3>1. made[j].t = t /\ j <= e.n /\ j # e.n
      BY <1>3, <1>5, <1>6, <2>2
    <3> QED BY <1>4, <1>6, <2>2, <3>1
  <2>3. ASSUME NEW k \in DOMAIN queue, queue'[l] = queue[k]
        PROVE  queue'[l].n > j
    BY <2>1, <2>3 DEF OrderInv, CancelsRight
  <2> QED BY <1>11, <2>2, <2>3
<1>21. ByTime(queue)'
  BY <1>7 DEF ByTime
<1> QED BY <1>3, <1>13, <1>14, <1>17, <1>18, <1>19, <1>20, <1>21 DEF OrderInv

\* A call that ends and leaves of the queue what is selected, the rest of it and
\* the call itself being given up, or a cancel.
LEMMA TakingOutKeepsInv ==
  ASSUME OrderInv, NEW P \in SUBSET (DOMAIN queue), queue' = SelectAt(queue, P),
         UNCHANGED <<handler, now, made, began, crowd, spurious>>,
         pc' \in [Threads -> Places], DOMAIN call' = Threads, CallsRight',
         removed \cup dropped \subseteq removed' \cup dropped', dropped \subseteq dropped',
         removed' \cup dropped' \subseteq DOMAIN made,
         \A k \in DOMAIN queue : k \in P \/ queue[k].n \in removed' \cup dropped',
         \A n \in DOMAIN made :
           Doing(made[n].t, n) /\ ~Doing(made[n].t, n)' =>
             \/ n \in dropped'
             \/ made[n].op = "cancel" /\ \A k \in P : queue[k].r # made[n].r
  PROVE  OrderInv'
<1> DEFINE lost == removed' \cup dropped'
<1>1. /\ Typed /\ queue \in Seq(Messages) /\ ByTime(queue)
      /\ QueueOrder(queue, began, removed \cup dropped)
  BY DEF OrderInv, Typed
<1>2. /\ queue' \in Seq(Messages) /\ ByTime(queue') /\ QueueOrder(queue', began, lost)
      /\ \A k \in DOMAIN queue' : \E m \in P : queue'[k] = queue[m]
      /\ \A n : Queued(queue, n) => Queued(queue', n) \/ n \in lost
  BY <1>1, TakingOutKeepsOrder
<1>3. Typed'
  BY <1>1, <1>2 DEF Typed
<1>4. ByTime(queue)' /\ QueueOrder(queue, began, removed \cup dropped)'
  BY <1>2 DEF ByTime, QueueOrder, RanOf, First
<1>5. MessagesRight(queue, now)'
  BY <1>2 DEF OrderInv, MessagesRight
<1>6. Accounted(queue, began, removed \cup dropped)'
  <2> SUFFICES ASSUME NEW n \in DOMAIN made, made[n].op = "post", ~Doing(made[n].t, n)'
               PROVE  Queued(queue', n) \/ RanOf(began, n) \/ n \in lost
    BY DEF Accounted, Queued, RanOf
  <2>1. CASE Doing(made[n].t, n)
    BY <2>1
  <2>2. CASE ~Doing(made[n].t, n)
    <3>1. Queued(queue, n) \/ RanOf(began, n) \/ n \in removed \cup dropped
      BY <2>2 DEF OrderInv, Accounted
    <3> QED BY <1>2, <3>1
  <2> QED BY <2>1, <2>2
<1>7. RunOrder(began, removed \cup dropped)'
  <2>1. RunOrder(began, removed \cup dropped)
    BY DEF OrderInv
  <2> QED BY <2>1 DEF RunOrder, First
<1>8. CancelsRight(queue)'
  <2> SUFFICES ASSUME NEW j \in DOMAIN made, NEW l \in DOMAIN queue', made[j].op = "cancel",
                      ~Doing(made[j].t, j)', j \notin dropped', queue'[l].r = made[j].r,
                      made[queue'[l].n].t = made[j].t
               PROVE  queue'[l].n > j
    BY DEF CancelsRight
  <2>1. PICK k \in P : queue'[l] = queue[k]
    BY <1>2
  <2>2. ~Doing(made[j].t, j)
    BY <2>1
  <2> QED BY <2>1, <2>2 DEF OrderInv, CancelsRight
<1> QED BY <1>3, <1>4, <1>5, <1>6, <1>7, <1>8 DEF OrderInv

\* cancelRunnable takes out the messages of its runnable.
LEMMA CancelKeepsOrder ==
  ASSUME OrderInv, NEW t \in Threads, Cancel(t)
  PROVE  OrderInv'
<1> DEFINE P == { i \in DOMAIN queue : queue[i].r # call[t].r }
<1>1. /\ pc[t] # "out" /\ call[t].op = "cancel" /\ queue' = SelectAt(queue, P) /\ Returns(t)
      /\ removed' = removed \cup { e.n : e \in { x \in ToSet(queue) : x.r = call[t].r } }
      /\ UNCHANGED <<handler, now, made, began, crowd, dropped, spurious>>
  BY DEF Cancel
<1>2. Typed /\ CallsRight /\ MessagesRight(queue, now)
  BY DEF OrderInv
<1>3. /\ pc' \in [Threads -> Places] /\ DOMAIN call' = Threads /\ CallsRight'
      /\ made[call[t].n] = [t |-> t, op |-> call[t].op, r |-> call[t].r, delay |-> call[t].delay]
      /\ \A n : Doing(t, n) <=> n = call[t].n
      /\ \A u \in Threads : \A n : Doing(u, n)' <=> Doing(u, n) /\ u # t
  BY <1>1, <1>2, ReturnsEffect
<1>4. \A k \in DOMAIN queue : queue[k] \in ToSet(queue)
  BY DEF ToSet
<1>5. \A e \in ToSet(queue) : e.n \in DOMAIN made
  BY <1>2 DEF ToSet, MessagesRight
<1>6. removed \cup dropped \subseteq DOMAIN made
  BY <1>2 DEF Typed
<1>7. removed' \cup dropped' \subseteq DOMAIN made /\ removed \subseteq removed'
  BY <1>1, <1>5, <1>6
<1>8. \A k \in DOMAIN queue : k \in P \/ queue[k].n \in removed'
  BY <1>1, <1>4
<1>9. \A n \in DOMAIN made :
        Doing(made[n].t, n) /\ ~Doing(made[n].t, n)' =>
          made[n].op = "cancel" /\ \A k \in P : queue[k].r # made[n].r
  <2> SUFFICES ASSUME NEW n \in DOMAIN made, Doing(made[n].t, n), ~Doing(made[n].t, n)'
               PROVE  made[n].op = "cancel" /\ \A k \in P : queue[k].r # made[n].r
    OBVIOUS
  <2>1. made[n].t \in Threads
    <3>1. made[n] \in Threaded
      BY <1>2 DEF Typed
    <3> QED BY <3>1 DEF Threaded
  <2>2. made[n].t = t
    BY <1>1, <1>3, <2>1 DEF Doing
  <2>3. n = call[t].n
    BY <1>3, <2>2
  <2> QED BY <1>1, <1>3, <2>3
<1> HIDE DEF P
<1>10. P \in SUBSET (DOMAIN queue)
  BY DEF P
<1> QED BY <1>1, <1>3, <1>7, <1>8, <1>9, <1>10, TakingOutKeepsInv

LEMMA CallDroppedKeepsOrder ==
  ASSUME OrderInv, NEW t \in Threads, CallDropped(t)
  PROVE  OrderInv'
<1>1. /\ pc[t] # "out" /\ dropped' = dropped \cup {call[t].n} /\ Returns(t)
      /\ UNCHANGED <<handler, queue, now, made, began, removed, crowd, spurious>>
  BY DEF CallDropped
<1>2. Typed /\ CallsRight
  BY DEF OrderInv
<1>3. /\ pc' \in [Threads -> Places] /\ DOMAIN call' = Threads /\ CallsRight'
      /\ call[t].n \in DOMAIN made
      /\ \A n : Doing(t, n) <=> n = call[t].n
      /\ \A u \in Threads : \A n : Doing(u, n)' <=> Doing(u, n) /\ u # t
  BY <1>1, <1>2, ReturnsEffect
<1>4. \A n \in DOMAIN made : made[n].t \in Threads
  <2>1. \A n \in DOMAIN made : made[n] \in Threaded
    BY <1>2 DEF Typed
  <2> QED BY <2>1 DEF Threaded
<1>5. \A n \in DOMAIN made : Doing(made[n].t, n)' <=> Doing(made[n].t, n) /\ made[n].t # t
  BY <1>1, <1>3, <1>4 DEF Doing
<1>6. \A n \in DOMAIN made : Doing(made[n].t, n) /\ ~Doing(made[n].t, n)' => n \in dropped'
  BY <1>1, <1>3, <1>5
<1>7. Typed'
  BY <1>1, <1>2, <1>3 DEF Typed
<1>8. ByTime(queue)' /\ MessagesRight(queue, now)'
  BY <1>1 DEF OrderInv, ByTime, MessagesRight
<1>9. Accounted(queue, began, removed \cup dropped)'
  BY <1>1, <1>6 DEF OrderInv, Accounted, Queued, RanOf
<1>10. QueueOrder(queue, began, removed \cup dropped)' /\ RunOrder(began, removed \cup dropped)'
  BY <1>1 DEF OrderInv, QueueOrder, RunOrder, First, RanOf
<1>11. CancelsRight(queue)'
  BY <1>1, <1>6 DEF OrderInv, CancelsRight
<1> QED BY <1>3, <1>7, <1>8, <1>9, <1>10, <1>11 DEF OrderInv

LEMMA CleanupKeepsOrder ==
  ASSUME OrderInv, CleanupQueue
  PROVE  OrderInv'
<1>1. /\ queue' = <<>> /\ removed' = removed \cup { e.n : e \in ToSet(queue) }
      /\ UNCHANGED <<handler, call, pc, now, made, began, crowd, dropped, spurious>>
  BY DEF CleanupQueue, monitor
<1>2. \A k \in DOMAIN queue : queue[k].n \in removed'
  BY <1>1 DEF ToSet
<1>3. removed' \subseteq DOMAIN made
  <2>1. \A e \in ToSet(queue) : e.n \in DOMAIN made
    BY DEF OrderInv, MessagesRight, ToSet
  <2>2. removed \subseteq DOMAIN made
    BY DEF OrderInv, Typed
  <2> QED BY <1>1, <2>1, <2>2
<1>4. queue' \in Seq(Messages) /\ DOMAIN queue' = {}
  BY <1>1
<1>5. Typed'
  BY <1>1, <1>3, <1>4 DEF OrderInv, Typed
<1>6. CallsRight'
  BY <1>1 DEF OrderInv, CallsRight
<1>7. /\ ByTime(queue)' /\ MessagesRight(queue, now)' /\ CancelsRight(queue)'
      /\ QueueOrder(queue, began, removed \cup dropped)'
  BY <1>4 DEF ByTime, MessagesRight, CancelsRight, QueueOrder
<1>8. Accounted(queue, began, removed \cup dropped)'
  <2>1. \A n : Queued(queue, n) => n \in removed'
    BY <1>2 DEF Queued
  <2>2. \A n \in DOMAIN made : Doing(made[n].t, n)' <=> Doing(made[n].t, n)
    BY <1>1 DEF Doing
  <2>3. removed \subseteq removed'
    BY <1>1
  <2> QED BY <1>1, <2>1, <2>2, <2>3 DEF OrderInv, Accounted, RanOf
<1>9. RunOrder(began, removed \cup dropped)'
  BY <1>1 DEF OrderInv, RunOrder, First
<1> QED BY <1>5, <1>6, <1>7, <1>8, <1>9 DEF OrderInv

LEMMA LoopKeepsOrder ==
  ASSUME OrderInv, Loop
  PROVE  OrderInv'
<1> DEFINE h == queue[1].n
           m == Len(began) + 1
           g == removed \cup dropped
<1>1. /\ queue # <<>> /\ queue' = Tail(queue) /\ began' = Append(began, h)
      /\ UNCHANGED <<handler, call, pc, now, made, removed, crowd, dropped, spurious>>
  BY DEF Loop, monitor
<1>2. Typed /\ queue \in Seq(Messages) /\ began \in Seq(Nat)
  BY DEF OrderInv, Typed
<1>3. /\ queue' \in Seq(Messages) /\ Len(queue) \in Nat \ {0}
      /\ DOMAIN queue = 1..Len(queue) /\ DOMAIN queue' = 1..(Len(queue) - 1)
      /\ \A i \in 1..(Len(queue) - 1) : queue'[i] = queue[i + 1]
      /\ queue[1] \in Messages
  BY <1>1, <1>2, HeadTaken
<1>4. h \in DOMAIN made /\ h \in Nat
  <2>1. 1 \in DOMAIN queue
    BY <1>3
  <2> QED BY <1>3, <2>1 DEF OrderInv, MessagesRight, Messages
<1> HIDE DEF h
<1>5. /\ began' \in Seq(Nat) /\ m \in Nat /\ DOMAIN began = 1..(m - 1) /\ DOMAIN began' = 1..m
      /\ \A i \in 1..(m - 1) : began'[i] = began[i]
      /\ began'[m] = h
  BY <1>1, <1>2, <1>4
<1> HIDE DEF m
<1>6. \A k \in DOMAIN queue' : k \in Nat /\ k + 1 \in DOMAIN queue /\ queue'[k] = queue[k + 1]
  BY <1>3
<1>7. \A k \in DOMAIN queue : \/ k = 1 /\ queue[k].n = h
                              \/ k - 1 \in DOMAIN queue' /\ queue'[k - 1] = queue[k]
  <2> TAKE k \in DOMAIN queue
  <2>1. CASE k = 1
    BY <2>1 DEF h
  <2>2. CASE k # 1
    <3>1. k - 1 \in 1..(Len(queue) - 1) /\ (k - 1) + 1 = k
      BY <1>3, <2>2
    <3> QED BY <1>3, <3>1
  <2> QED BY <2>1, <2>2
<1>8. /\ \A k \in DOMAIN began : k \in DOMAIN began' /\ began'[k] = began[k] /\ k \in Nat /\ k < m
      /\ \A k \in DOMAIN began' : k = m \/ k \in DOMAIN began
      /\ m \in DOMAIN began'
  <2>1. \A k \in DOMAIN began' : k = m \/ k \in DOMAIN began
    BY <1>5
  <2>2. \A k \in DOMAIN began : k \in DOMAIN began' /\ began'[k] = began[k] /\ k \in Nat /\ k < m
    BY <1>5
  <2>3. m \in DOMAIN began'
    <3>1. m \in Nat /\ m - 1 \in Nat
      BY <1>2 DEF m
    <3> QED BY <1>5, <3>1
  <2> QED BY <2>1, <2>2, <2>3
<1>9. \A n : RanOf(began, n) => RanOf(began', n)
  BY <1>8 DEF RanOf
<1>10. RanOf(began', h)
  BY <1>5, <1>8 DEF RanOf
<1>11. \A n : Queued(queue, n) => Queued(queue', n) \/ n = h
  BY <1>7 DEF Queued
<1>12. Typed'
  <2>1. \A k \in DOMAIN began' : began'[k] \in DOMAIN made
    BY <1>2, <1>4, <1>5, <1>8 DEF Typed
  <2> QED BY <1>1, <1>2, <1>3, <1>5, <2>1 DEF Typed
<1>13. CallsRight'
  BY <1>1 DEF OrderInv, CallsRight
<1>14. ByTime(queue)'
  <2> SUFFICES ASSUME NEW i \in DOMAIN queue', NEW j \in DOMAIN queue', i <= j
               PROVE  queue'[i].when <= queue'[j].when
    BY DEF ByTime
  <2>1. i + 1 <= j + 1
    BY <1>6
  <2> QED BY <1>6, <2>1 DEF OrderInv, ByTime
<1>15. MessagesRight(queue, now)' /\ CancelsRight(queue)'
  <2>1. MessagesRight(queue, now)'
    BY <1>1, <1>6 DEF OrderInv, MessagesRight
  <2>2. \A n \in DOMAIN made : Doing(made[n].t, n)' <=> Doing(made[n].t, n)
    BY <1>1 DEF Doing
  <2>3. CancelsRight(queue)'
    BY <1>1, <1>6, <2>2 DEF OrderInv, CancelsRight
  <2> QED BY <2>1, <2>3
<1>16. Accounted(queue, began, removed \cup dropped)'
  <2> SUFFICES ASSUME NEW n \in DOMAIN made, made[n].op = "post", ~Doing(made[n].t, n)
               PROVE  Queued(queue', n) \/ RanOf(began', n) \/ n \in g
    BY <1>1 DEF Accounted, Queued, RanOf, Doing
  <2>1. Queued(queue, n) \/ RanOf(began, n) \/ n \in g
    BY DEF OrderInv, Accounted
  <2> QED BY <1>9, <1>10, <1>11, <2>1
<1>17. QueueOrder(queue, began, removed \cup dropped)'
  <2> SUFFICES ASSUME NEW i \in DOMAIN made, NEW j \in DOMAIN made, NEW l \in DOMAIN queue',
                      First(i, j), queue'[l].n = j, i \notin g, ~RanOf(began', i)
               PROVE  \E k \in 1..(l - 1) : queue'[k].n = i
    BY <1>1 DEF QueueOrder, RanOf, First
  <2>1. l \in Nat /\ l + 1 \in DOMAIN queue /\ queue[l + 1].n = j
    BY <1>6
  <2>2. PICK k \in 1..((l + 1) - 1) : queue[k].n = i
    BY <1>9, <2>1 DEF OrderInv, QueueOrder
  <2>3. i # h
    BY <1>10
  <2>4. k \in DOMAIN queue /\ k # 1
    BY <1>3, <1>7, <2>1, <2>2, <2>3
  <2>5. queue'[k - 1].n = i
    BY <1>7, <2>2, <2>4
  <2>6. k - 1 \in 1..(l - 1)
    BY <1>3, <2>1, <2>2, <2>4
  <2> QED BY <2>5, <2>6
<1>18. RunOrder(began, removed \cup dropped)'
  <2> SUFFICES ASSUME NEW i \in DOMAIN made, NEW j \in DOMAIN made, NEW l \in DOMAIN began',
                      First(i, j), began'[l] = j, i \notin g
               PROVE  \E k, x \in DOMAIN began' : k < x /\ began'[k] = i /\ began'[x] = j
    BY <1>1 DEF RunOrder, First
  <2>1. CASE l \in DOMAIN began
    <3>1. began[l] = j
      BY <1>8, <2>1
    <3>2. PICK k \in DOMAIN began, x \in DOMAIN began : k < x /\ began[k] = i /\ began[x] = j
      BY <2>1, <3>1 DEF OrderInv, RunOrder
    <3> QED BY <1>8, <3>2
  <2>2. CASE l = m
    \* The first message has nothing before it, so what was to run has run.
    <3>1. 1 \in DOMAIN queue /\ queue[1].n = j
      BY <1>3, <1>5, <2>2 DEF h
    <3>2. RanOf(began, i)
      <4>1. \A k \in 1..(1 - 1) : FALSE
        OBVIOUS
      <4>2. i \in g \/ RanOf(began, i) \/ \E k \in 1..(1 - 1) : queue[k].n = i
        BY <3>1 DEF OrderInv, QueueOrder
      <4> QED BY <4>1, <4>2
    <3>3. PICK k \in DOMAIN began : began[k] = i
      BY <3>2 DEF RanOf
    <3> QED BY <1>8, <2>2, <3>3
  <2> QED BY <1>8, <2>1, <2>2
<1> QED BY <1>12, <1>13, <1>14, <1>15, <1>16, <1>17, <1>18 DEF OrderInv

\* No step of the program, its callers or the clock breaks OrderInv.
LEMMA NextOrder == OrderInv /\ [Next]_vars => OrderInv'
<1> SUFFICES ASSUME OrderInv, [Next]_vars
             PROVE  OrderInv'
  OBVIOUS
<1>1. Typed /\ CallsRight
  BY DEF OrderInv
<1>2. ASSUME NEW t \in Threads, Lock(t) \/ WakeUp(t)
      PROVE  OrderInv'
  <2>1. /\ UNCHANGED <<handler, call, queue, now, made, began, removed, crowd, dropped, spurious>>
        /\ pc[t] \in {"checked", "woken"}
        /\ \E p \in {"through", "waiting"} : pc' = [pc EXCEPT ![t] = p]
    BY <1>2 DEF Lock, WakeUp, past
  <2>2. pc' \in [Threads -> Places] /\ \A u \in Threads : pc'[u] = "out" <=> pc[u] = "out"
    BY <1>1, <2>1 DEF Typed, Places
  <2> QED BY <1>1, <2>1, <2>2, QuietKeepsOrder DEF Typed
<1>3. ASSUME NEW t \in Threads, WakesByItself(t)
      PROVE  OrderInv'
  <2>1. /\ UNCHANGED <<handler, call, queue, now, made, began, removed, crowd, dropped>>
        /\ pc[t] = "waiting" /\ pc' = [pc EXCEPT ![t] = "woken"]
        /\ spurious' = spurious \cup {call[t].n}
    BY <1>3 DEF WakesByItself
  <2>2. pc' \in [Threads -> Places] /\ \A u \in Threads : pc'[u] = "out" <=> pc[u] = "out"
    BY <1>1, <2>1 DEF Typed, Places
  <2>3. spurious' \subseteq DOMAIN made
    BY <1>1, <2>1 DEF Typed, CallsRight
  <2> QED BY <1>1, <2>1, <2>2, <2>3, QuietKeepsOrder DEF Typed
<1>4. CASE Run
  <2>1. /\ UNCHANGED <<call, queue, now, made, began, removed, dropped, spurious>> /\ handler' = TRUE
        /\ pc' \in [Threads -> Places] /\ \A u \in Threads : pc'[u] = "out" <=> pc[u] = "out"
        /\ crowd' \subseteq Threads
    BY <1>1, <1>4 DEF Run, Waiting, Typed, Places
  <2> QED BY <1>1, <2>1, QuietKeepsOrder DEF Typed
<1>5. CASE TimePasses
  <2>1. now' = now + 1
        /\ UNCHANGED <<handler, call, pc, queue, made, began, removed, crowd, dropped, spurious>>
    BY <1>5 DEF TimePasses, monitor, past
  <2> QED BY <1>1, <2>1, QuietKeepsOrder DEF Typed
<1>6. CASE UNCHANGED vars
  <2>1. UNCHANGED <<handler, call, pc, queue, now, made, began, removed, crowd, dropped, spurious>>
    BY <1>6 DEF vars, monitor, past
  <2> QED BY <1>1, <2>1, QuietKeepsOrder DEF Typed
<1> QED BY <1>2, <1>3, <1>4, <1>5, <1>6, EnterKeepsOrder, PostKeepsOrder, CancelKeepsOrder,
           CallDroppedKeepsOrder, CleanupKeepsOrder, LoopKeepsOrder
        DEF Next, Step

\* The invariant gives the types, the order of what runs and the one timer.
LEMMA OrderIsSafe == OrderInv => TypeOK /\ RunsInOrder /\ OneTimerAtATime
<1> SUFFICES ASSUME OrderInv PROVE TypeOK /\ RunsInOrder /\ OneTimerAtATime
  OBVIOUS
<1>1. /\ Typed /\ CallsRight /\ MessagesRight(queue, now) /\ ByTime(queue)
      /\ made \in Seq(Threaded) /\ queue \in Seq(Messages) /\ began \in Seq(Nat)
  BY DEF OrderInv, Typed
<1>2. /\ DOMAIN made = 1..Len(made) /\ DOMAIN began = 1..Len(began)
      /\ DOMAIN queue = 1..Len(queue) /\ Len(queue) \in Nat
  BY <1>1
<1>3. TypeOK
  <2>1. \A t \in Threads : pc[t] \in Places /\ ((pc[t] = "out") <=> (call[t] = NoCall))
    <3> TAKE t \in Threads
    <3>1. pc[t] # "out" => call[t].op \in {"post", "cancel"}
      BY <1>1 DEF CallsRight, InCall
    <3>2. NoCall.op = "none"
      BY DEF NoCall
    <3> QED BY <1>1, <3>1, <3>2 DEF CallsRight, Typed
  <2>2. \A i \in 1..Len(queue) :
          /\ queue[i].n \in 1..Len(made) /\ queue[i].r \in Runnables
          /\ \A j \in 1..i : queue[j].when <= queue[i].when
    <3> TAKE i \in 1..Len(queue)
    <3>1. queue[i] \in Messages /\ queue[i].n \in DOMAIN made
      BY <1>1, <1>2 DEF MessagesRight
    <3>2. \A j \in 1..i : j \in DOMAIN queue /\ j <= i
      BY <1>2
    <3> QED BY <1>1, <1>2, <3>1, <3>2 DEF Messages, ByTime
  <2> QED BY <1>1, <1>2, <2>1, <2>2 DEF TypeOK, Typed, Places
<1>4. RunsInOrder
  <2> SUFFICES ASSUME NEW i \in 1..Len(made), NEW j \in 1..Len(made), First(i, j), j \in ToSet(began)
               PROVE  \/ i \in removed \cup dropped
                      \/ \E k, l \in 1..Len(began) : k < l /\ began[k] = i /\ began[l] = j
    BY DEF RunsInOrder, First
  <2>1. PICK l \in DOMAIN began : began[l] = j
    BY DEF ToSet
  <2> QED BY <1>2, <2>1 DEF OrderInv, RunOrder
<1>5. OneTimerAtATime
  <2> SUFFICES ASSUME NEW j \in 1..Len(made), made[j].op = "cancel", pc[made[j].t] = "out",
                      \A i \in 1..Len(made) : made[i].r = made[j].r => made[i].t = made[j].t,
                      NEW e \in ToSet(queue), e.r = made[j].r, j \notin dropped
               PROVE  e.n > j
    BY DEF OneTimerAtATime
  <2>1. PICK k \in DOMAIN queue : queue[k] = e
    BY DEF ToSet
  <2>2. e.n \in DOMAIN made /\ made[e.n].r = e.r
    BY <1>1, <2>1 DEF MessagesRight
  <2>3. made[e.n].t = made[j].t /\ ~Doing(made[j].t, j)
    BY <1>2, <2>2 DEF Doing
  <2> QED BY <1>2, <2>1, <2>3 DEF OrderInv, CancelsRight
<1> QED BY <1>3, <1>4, <1>5

\* What a thread posts runs in the order it was posted, unless it was taken out or
\* dropped; of a timer that its thread cancels before it posts it again there is
\* one; and a call is dropped only if its thread was woken by nobody: postRunnable,
\* cancelRunnable, cleanupQueue and run keep it for any callers, runnables, delays
\* and early returns of wait.
THEOREM QueueIsSafe == Spec => []QueueSafe
<1>1. OrderInv /\ StartInv => QueueSafe
  BY OrderIsSafe DEF StartInv, QueueSafe
<1> QED BY <1>1, InitStart, NextStart, InitOrder, NextOrder, PTL DEF Spec

-----------------------------------------------------------------------------
(* The notification center.                                                 *)

\* The observers of a list.
Listed(list) == { list[i] : i \in DOMAIN list }

\* Nobody, or one observer.
AtMostOne(os) == os = {} \/ \E o \in Observers : os = {o}

ListsRight == \A n \in Names : observers[n] \in Seq(Observers) /\ Distinct(observers[n])

\* One change of each kind waits for a notification, and only in a broadcast.
ChangesRight ==
  /\ addAfterBroadcast \in [Names -> SUBSET Observers]
  /\ removeAfterBroadcast \in [Names -> SUBSET Observers]
  /\ \A n \in Names : AtMostOne(addAfterBroadcast[n]) /\ AtMostOne(removeAfterBroadcast[n])
  /\ broadcasts = <<>> => \A n \in Names : addAfterBroadcast[n] = {} /\ removeAfterBroadcast[n] = {}

\* The list of a notification as it will be when what waits has been done is the
\* one the calls made, but for pairs gone astray.
Foreseen ==
  \A n \in Names, o \in Observers :
    <<n, o>> \notin undone =>
      (o \in wished[n] <=> \/ o \in addAfterBroadcast[n]
                           \/ o \in Listed(observers[n]) /\ o \notin removeAfterBroadcast[n])

CenterInv ==
  /\ Center!TypeOK
  /\ ListsRight /\ ChangesRight /\ Foreseen
  /\ Center!NotChangedUnderway

-----------------------------------------------------------------------------
(* The operators of the center, which it has from the library, and its own. *)

\* The operators of the library are those of the center's modules.
LEMMA CenterCounts == ASSUME NEW S PROVE Center!Cardinality(S) = Cardinality(S)
BY DEF Center!Cardinality, Cardinality

\* And so is the selection of the queue's module.
LEMMA CenterSelects == ASSUME NEW s, NEW P PROVE Center!SelectAt(s, P) = SelectAt(s, P)
<1>1. Center!Ascending(P) = Ascending(P)
  BY CenterCounts DEF Center!Ascending, Ascending
<1> QED BY <1>1, CenterCounts DEF Center!SelectAt, SelectAt

\* A list without some observers.
LEMMA ListWithout ==
  ASSUME NEW list \in Seq(Observers), Distinct(list), NEW os
  PROVE  /\ Center!Removed(list, os) \in Seq(Observers)
         /\ Distinct(Center!Removed(list, os))
         /\ \A o : o \in Listed(Center!Removed(list, os)) <=> o \in Listed(list) /\ o \notin os
<1> DEFINE P == { i \in DOMAIN list : list[i] \notin os }
           t == Center!Removed(list, os)
<1>1. t = SelectAt(list, P)
  BY CenterSelects DEF Center!Removed
<1>2. P \in SUBSET (DOMAIN list)
  OBVIOUS
<1>3. t \in Seq(Observers) /\ TakenAt(t, list, P)
  <2> HIDE DEF P, t
  <2> QED BY <1>1, <1>2, Selected
<1>4. \A i \in P : i \in DOMAIN list /\ list[i] \notin os
  OBVIOUS
<1>5. \A i \in DOMAIN list : list[i] \notin os => i \in P
  OBVIOUS
<1> HIDE DEF P, t
<1>6. PICK p \in [DOMAIN t -> P] :
        /\ \A i \in DOMAIN t : t[i] = list[p[i]]
        /\ \A i, j \in DOMAIN t : i < j => p[i] < p[j]
        /\ \A x \in P : \E i \in DOMAIN t : p[i] = x
  BY <1>3 DEF TakenAt
<1>7. DOMAIN t \subseteq Nat /\ DOMAIN list \subseteq Nat
  BY <1>3
<1>8. Distinct(t)
  <2> SUFFICES ASSUME NEW i \in DOMAIN t, NEW j \in DOMAIN t, t[i] = t[j] PROVE i = j
    BY DEF Distinct
  <2>1. p[i] \in DOMAIN list /\ p[j] \in DOMAIN list /\ list[p[i]] = list[p[j]]
    BY <1>4, <1>6
  <2>2. p[i] = p[j]
    BY <2>1 DEF Distinct
  <2>3. i \in Nat /\ j \in Nat /\ p[i] \in Nat
    BY <1>7, <2>1
  <2> QED BY <1>6, <2>2, <2>3
<1>9. \A o : o \in Listed(t) <=> o \in Listed(list) /\ o \notin os
  <2>1. ASSUME NEW o, o \in Listed(t) PROVE o \in Listed(list) /\ o \notin os
    <3>1. PICK i \in DOMAIN t : t[i] = o
      BY <2>1 DEF Listed
    <3>2. p[i] \in DOMAIN list /\ list[p[i]] = o /\ o \notin os
      BY <1>4, <1>6, <3>1
    <3> QED BY <3>2 DEF Listed
  <2>2. ASSUME NEW o, o \in Listed(list), o \notin os PROVE o \in Listed(t)
    <3>1. PICK i \in DOMAIN list : list[i] = o
      BY <2>2 DEF Listed
    <3>2. PICK k \in DOMAIN t : p[k] = i
      BY <1>5, <1>6, <2>2, <3>1
    <3>3. t[k] = o
      BY <1>6, <3>1, <3>2
    <3> QED BY <3>3 DEF Listed
  <2> QED BY <2>1, <2>2
<1> QED BY <1>3, <1>8, <1>9 DEF t

\* The list of one observer, and of none.
LEMMA ListOfFew ==
  ASSUME NEW os, AtMostOne(os)
  PROVE  Center!SetToSeq(os) = IF os = {} THEN <<>> ELSE <<CHOOSE o : o \in os>>
<1>1. CASE os = {}
  <2>1. Center!Cardinality(os) = 0
    BY <1>1, CenterCounts, FS_EmptySet
  <2>2. [1..0 -> os] = {<<>>}
    <3>1. \A f \in [1..0 -> os] : f \in Seq(os) /\ Len(f) = 0
      OBVIOUS
    <3>2. \A f \in [1..0 -> os] : f = <<>>
      BY <3>1, EmptySeq
    <3>3. <<>> \in [1..0 -> os]
      OBVIOUS
    <3> QED BY <3>2, <3>3
  <2>3. Center!IsInjective(<<>>)
    BY DEF Center!IsInjective
  <2> QED BY <1>1, <2>1, <2>2, <2>3 DEF Center!SetToSeq
<1>2. CASE os # {}
  <2>1. PICK o \in Observers : os = {o}
    BY <1>2 DEF AtMostOne
  <2>2. Center!Cardinality(os) = 1
    BY <2>1, CenterCounts, FS_Singleton
  <2>3. /\ <<o>> \in [1..1 -> os]
        /\ \A f \in [1..1 -> os] : f = <<o>>
    BY <2>1
  <2>4. Center!IsInjective(<<o>>)
    BY DEF Center!IsInjective
  <2>5. (CHOOSE x : x \in os) = o
    BY <2>1
  <2> QED BY <1>2, <2>2, <2>3, <2>4, <2>5 DEF Center!SetToSeq
<1> QED BY <1>1, <1>2

\* A list with at most one observer more.
LEMMA ListWith ==
  ASSUME NEW list \in Seq(Observers), Distinct(list), NEW os, AtMostOne(os)
  PROVE  /\ Center!Added(list, os) \in Seq(Observers)
         /\ Distinct(Center!Added(list, os))
         /\ \A o : o \in Listed(Center!Added(list, os)) <=> o \in Listed(list) \/ o \in os
<1> DEFINE more == os \ Listed(list)
<1>1. Center!Added(list, os) = list \o Center!SetToSeq(more)
  BY DEF Center!Added, Center!ToSet, Listed
<1>2. AtMostOne(more)
  BY DEF AtMostOne
<1>3. CASE more = {}
  <2>1. Center!SetToSeq(more) = <<>>
    BY <1>2, <1>3, ListOfFew
  <2>2. Center!Added(list, os) = list
    BY <1>1, <2>1, ConcatEmptySeq
  <2> QED BY <1>3, <2>2
<1>4. CASE more # {}
  <2>1. PICK o \in Observers : more = {o} /\ os = {o} /\ o \notin Listed(list)
    BY <1>4 DEF AtMostOne
  <2>2. Center!SetToSeq(more) = <<o>>
    BY <1>2, <1>4, <2>1, ListOfFew
  <2>3. Center!Added(list, os) = Append(list, o)
    BY <1>1, <2>2, AppendIsConcat
  <2>4. \A x : x \in Listed(list) <=> Contains(list, x)
    BY DEF Listed, Contains
  <2>5. \A x : x \in Listed(Append(list, o)) <=> Contains(Append(list, o), x)
    BY DEF Listed, Contains
  <2>6. Append(list, o) \in Seq(Observers)
    OBVIOUS
  <2>7. /\ Distinct(Append(list, o))
        /\ \A x : Contains(Append(list, o), x) <=> Contains(list, x) \/ x = o
    BY <2>1, <2>4, AppendedDistinct
  <2> QED BY <2>1, <2>3, <2>4, <2>5, <2>6, <2>7
<1> QED BY <1>3, <1>4

\* One change made when no broadcast is under way, and all that waited.
LEMMA ChangedList ==
  ASSUME NEW list \in Seq(Observers), Distinct(list), NEW rs, NEW as, AtMostOne(as)
  PROVE  LET t == Center!Added(Center!Removed(list, rs), as)
         IN  /\ t \in Seq(Observers) /\ Distinct(t)
             /\ \A o : o \in Listed(t) <=> (o \in Listed(list) /\ o \notin rs) \/ o \in as
<1> DEFINE r == Center!Removed(list, rs)
<1>1. /\ r \in Seq(Observers) /\ Distinct(r)
      /\ \A o : o \in Listed(r) <=> o \in Listed(list) /\ o \notin rs
  BY ListWithout
<1> HIDE DEF r
<1>2. /\ Center!Added(r, as) \in Seq(Observers) /\ Distinct(Center!Added(r, as))
      /\ \A o : o \in Listed(Center!Added(r, as)) <=> o \in Listed(r) \/ o \in as
  BY <1>1, ListWith
<1> QED BY <1>1, <1>2 DEF r

-----------------------------------------------------------------------------
(* The steps of the center. *)

Broadcasts == [name : Names, called : Nat, list : Seq(Observers)]

\* Before the first call nobody is registered.
LEMMA CenterStarts == Center!Init => CenterInv
<1> SUFFICES ASSUME Center!Init PROVE CenterInv
  OBVIOUS
<1> USE DEF Center!Init, Center!NoChange
<1>1. <<>> \in Seq(Observers) /\ <<>> \in Seq(Broadcasts) /\ Distinct(<<>>) /\ Listed(<<>>) = {}
  BY DEF Distinct, Listed
<1>2. Center!TypeOK
  BY <1>1 DEF Center!TypeOK, Broadcasts
<1>3. ListsRight
  BY <1>1 DEF ListsRight
<1>4. ChangesRight
  BY DEF ChangesRight, AtMostOne
<1>5. Foreseen
  BY <1>1 DEF Foreseen
<1>6. Center!NotChangedUnderway
  BY DEF Center!NotChangedUnderway
<1> QED BY <1>2, <1>3, <1>4, <1>5, <1>6 DEF CenterInv

\* A broadcast begins with the list it will walk.
LEMMA PostKeeps == ASSUME CenterInv, NEW n \in Names, Center!Post(n) PROVE CenterInv'
<1>0. Center!TypeOK /\ ListsRight /\ ChangesRight /\ Foreseen /\ Center!NotChangedUnderway
  BY DEF CenterInv
<1> DEFINE b == [name |-> n, called |-> 0, list |-> observers[n]]
<1>a. /\ broadcasts' = Append(broadcasts, b)
      /\ UNCHANGED <<observers, addAfterBroadcast, removeAfterBroadcast, wished, undone, changes>>
  BY DEF Center!Post
<1>b. broadcasts \in Seq(Broadcasts) /\ observers[n] \in Seq(Observers) /\ b \in Broadcasts
  BY <1>0 DEF Center!TypeOK, Broadcasts
<1>c. b.name = n /\ b.called = 0 /\ b.list = observers[n]
  OBVIOUS
<1> HIDE DEF b
<1>d. /\ broadcasts' \in Seq(Broadcasts) /\ broadcasts' # <<>>
      /\ \A i \in DOMAIN broadcasts' : \/ i \in DOMAIN broadcasts /\ broadcasts'[i] = broadcasts[i]
                                       \/ broadcasts'[i] = b
  BY <1>a, <1>b, Appended
<1>1. Center!TypeOK'
  <2>1. \A i \in DOMAIN broadcasts' : broadcasts'[i].called <= Len(observers[broadcasts'[i].name])
    <3> SUFFICES ASSUME NEW i \in DOMAIN broadcasts'
                 PROVE  broadcasts'[i].called <= Len(observers[broadcasts'[i].name])
      OBVIOUS
    <3>1. Len(observers[n]) \in Nat
      BY <1>b
    <3>2. 0 <= Len(observers[n])
      BY <3>1
    <3>3. CASE broadcasts'[i] = b
      BY <1>c, <3>2, <3>3
    <3>4. CASE i \in DOMAIN broadcasts /\ broadcasts'[i] = broadcasts[i]
      BY <1>0, <3>4 DEF Center!TypeOK
    <3> QED BY <1>d, <3>3, <3>4
  <2> QED BY <1>0, <1>a, <1>d, <2>1 DEF Center!TypeOK, Broadcasts
<1>2. ListsRight' /\ Foreseen'
  BY <1>0, <1>a DEF ListsRight, Foreseen
<1>3. ChangesRight'
  BY <1>0, <1>a, <1>d DEF ChangesRight
<1>4. Center!NotChangedUnderway'
  BY <1>0, <1>a, <1>c, <1>d DEF Center!NotChangedUnderway
<1> QED BY <1>1, <1>2, <1>3, <1>4 DEF CenterInv

\* The innermost broadcast goes on.
LEMMA CallKeeps == CenterInv /\ Center!Call => CenterInv'
<1> SUFFICES ASSUME CenterInv, Center!Call PROVE CenterInv'
  OBVIOUS
<1>0. Center!TypeOK /\ ListsRight /\ ChangesRight /\ Foreseen /\ Center!NotChangedUnderway
  BY DEF CenterInv
<1> DEFINE n == Len(broadcasts)
<1>a. /\ broadcasts # <<>> /\ broadcasts[n].called < Len(observers[broadcasts[n].name])
      /\ broadcasts' = [broadcasts EXCEPT ![n].called = @ + 1]
      /\ UNCHANGED <<observers, addAfterBroadcast, removeAfterBroadcast, wished, undone, changes>>
  BY DEF Center!Call, Center!Last
<1>b. broadcasts \in Seq(Broadcasts) /\ n \in DOMAIN broadcasts
  BY <1>0, <1>a DEF Center!TypeOK, Broadcasts
<1>e. /\ broadcasts[n] \in Broadcasts /\ broadcasts[n].called \in Nat /\ broadcasts[n].name \in Names
      /\ broadcasts[n].list \in Seq(Observers)
  <2>1. broadcasts[n] \in Broadcasts
    BY <1>b
  <2> HIDE DEF n
  <2> QED BY <2>1 DEF Broadcasts
<1> DEFINE b == [broadcasts[n] EXCEPT !.called = @ + 1]
<1>c. /\ b.name = broadcasts[n].name /\ b.called = broadcasts[n].called + 1 /\ b.list = broadcasts[n].list
      /\ b \in Broadcasts
  <2> DEFINE c == broadcasts[n]
  <2>1. c \in Broadcasts /\ b = [c EXCEPT !.called = @ + 1]
    BY <1>e
  <2> HIDE DEF b, c
  <2>2. /\ b.name = c.name /\ b.called = c.called + 1 /\ b.list = c.list
        /\ b \in Broadcasts
    BY <2>1 DEF Broadcasts
  <2> QED BY <2>2 DEF c
<1>d. /\ broadcasts' \in Seq(Broadcasts) /\ DOMAIN broadcasts' = DOMAIN broadcasts
      /\ \A i \in DOMAIN broadcasts : broadcasts'[i] = IF i = n THEN b ELSE broadcasts[i]
      /\ broadcasts' # <<>>
  BY <1>a, <1>b, <1>c
<1> HIDE DEF b, n
<1>f. Len(observers[broadcasts[n].name]) \in Nat
  BY <1>0, <1>e DEF ListsRight
<1>1. Center!TypeOK'
  <2>1. \A i \in DOMAIN broadcasts' : broadcasts'[i].called <= Len(observers[broadcasts'[i].name])
    <3> SUFFICES ASSUME NEW i \in DOMAIN broadcasts
                 PROVE  broadcasts'[i].called <= Len(observers[broadcasts'[i].name])
      BY <1>d
    <3>1. CASE i = n
      <4>1. broadcasts'[i].called = broadcasts[n].called + 1 /\ broadcasts'[i].name = broadcasts[n].name
        BY <1>c, <1>d, <3>1
      <4>2. broadcasts[n].called + 1 <= Len(observers[broadcasts[n].name])
        BY <1>e, <1>f, <1>a
      <4> QED BY <4>1, <4>2
    <3>2. CASE i # n
      BY <1>0, <1>d, <3>2 DEF Center!TypeOK
    <3> QED BY <3>1, <3>2
  <2> QED BY <1>0, <1>a, <1>d, <2>1 DEF Center!TypeOK, Broadcasts
<1>2. ListsRight' /\ Foreseen'
  BY <1>0, <1>a DEF ListsRight, Foreseen
<1>3. ChangesRight'
  BY <1>0, <1>a, <1>d DEF ChangesRight
<1>4. Center!NotChangedUnderway'
  <2> SUFFICES ASSUME NEW i \in DOMAIN broadcasts PROVE observers[broadcasts'[i].name] = broadcasts'[i].list
    BY <1>a, <1>d DEF Center!NotChangedUnderway
  <2>1. broadcasts'[i].name = broadcasts[i].name /\ broadcasts'[i].list = broadcasts[i].list
    BY <1>c, <1>d
  <2> QED BY <1>0, <2>1 DEF Center!NotChangedUnderway
<1> QED BY <1>1, <1>2, <1>3, <1>4 DEF CenterInv

\* A broadcast ends; with the last one what waited is done.
LEMMA EndPostKeeps == CenterInv /\ Center!EndPost => CenterInv'
<1> SUFFICES ASSUME CenterInv, Center!EndPost PROVE CenterInv'
  OBVIOUS
<1>0. Center!TypeOK /\ ListsRight /\ ChangesRight /\ Foreseen /\ Center!NotChangedUnderway
  BY DEF CenterInv
<1>a. /\ broadcasts # <<>> /\ broadcasts' = SubSeq(broadcasts, 1, Len(broadcasts) - 1)
      /\ UNCHANGED <<wished, undone, changes>>
  BY DEF Center!EndPost, Center!Front
<1>b. broadcasts \in Seq(Broadcasts)
  BY <1>0 DEF Center!TypeOK, Broadcasts
<1>c. /\ broadcasts' \in Seq(Broadcasts)
      /\ \A i \in DOMAIN broadcasts' : i \in DOMAIN broadcasts /\ broadcasts'[i] = broadcasts[i]
  BY <1>a, <1>b
<1>1. CASE broadcasts' # <<>>
  <2>1. UNCHANGED <<observers, addAfterBroadcast, removeAfterBroadcast>>
    BY <1>1 DEF Center!EndPost
  <2>2. Center!TypeOK'
    BY <1>0, <1>a, <1>c, <2>1 DEF Center!TypeOK, Broadcasts
  <2>3. ListsRight' /\ Foreseen'
    BY <1>0, <1>a, <2>1 DEF ListsRight, Foreseen
  <2>4. ChangesRight'
    BY <1>0, <1>1, <2>1 DEF ChangesRight
  <2>5. Center!NotChangedUnderway'
    BY <1>0, <1>c, <2>1 DEF Center!NotChangedUnderway
  <2> QED BY <2>2, <2>3, <2>4, <2>5 DEF CenterInv
<1>2. CASE broadcasts' = <<>>
  <2>1. /\ observers' = [n \in Names |-> Center!Added(Center!Removed(observers[n], removeAfterBroadcast[n]),
                                                     addAfterBroadcast[n])]
        /\ addAfterBroadcast' = [n \in Names |-> {}] /\ removeAfterBroadcast' = [n \in Names |-> {}]
    BY <1>2 DEF Center!EndPost, Center!Changed, Center!NoChange
  <2>2. \A n \in Names :
          /\ observers'[n] \in Seq(Observers) /\ Distinct(observers'[n])
          /\ \A o : o \in Listed(observers'[n]) <=>
               (o \in Listed(observers[n]) /\ o \notin removeAfterBroadcast[n]) \/ o \in addAfterBroadcast[n]
    <3> SUFFICES ASSUME NEW n \in Names
                 PROVE  /\ observers'[n] \in Seq(Observers) /\ Distinct(observers'[n])
                        /\ \A o : o \in Listed(observers'[n]) <=>
                             (o \in Listed(observers[n]) /\ o \notin removeAfterBroadcast[n])
                             \/ o \in addAfterBroadcast[n]
      OBVIOUS
    <3>1. observers[n] \in Seq(Observers) /\ Distinct(observers[n]) /\ AtMostOne(addAfterBroadcast[n])
      BY <1>0 DEF ListsRight, ChangesRight
    <3>2. observers'[n] = Center!Added(Center!Removed(observers[n], removeAfterBroadcast[n]),
                                       addAfterBroadcast[n])
      BY <2>1
    <3> QED BY <3>1, <3>2, ChangedList
  <2>3. observers' \in [Names -> Seq(Observers)]
    BY <2>1, <2>2
  <2>4. \A n \in Names : addAfterBroadcast'[n] = {} /\ removeAfterBroadcast'[n] = {}
    BY <2>1
  <2>5. Center!TypeOK'
    BY <1>0, <1>2, <1>a, <1>c, <2>1, <2>3 DEF Center!TypeOK, Broadcasts
  <2>6. ListsRight'
    BY <2>2 DEF ListsRight
  <2>7. ChangesRight'
    BY <1>2, <2>1, <2>4 DEF ChangesRight, AtMostOne
  <2>8. Foreseen'
    BY <1>0, <1>a, <2>2, <2>4 DEF Foreseen
  <2>9. Center!NotChangedUnderway'
    BY <1>2 DEF Center!NotChangedUnderway
  <2> QED BY <2>5, <2>6, <2>7, <2>8, <2>9 DEF CenterInv
<1> QED BY <1>1, <1>2

\* addObserver, in a broadcast and outside.
LEMMA AddKeeps ==
  ASSUME CenterInv, NEW n \in Names, NEW o \in Observers, Center!AddObserver(o, n)
  PROVE  CenterInv'
<1>0. Center!TypeOK /\ ListsRight /\ ChangesRight /\ Foreseen /\ Center!NotChangedUnderway
  BY DEF CenterInv
<1>a. /\ changes' = changes + 1 /\ wished' = [wished EXCEPT ![n] = @ \cup {o}]
      /\ UNCHANGED <<broadcasts, removeAfterBroadcast>>
  BY DEF Center!AddObserver
<1>b. changes \in Nat /\ wished \in [Names -> SUBSET Observers] /\ undone \subseteq Names \X Observers
  BY <1>0 DEF Center!TypeOK, Center!Pairs
<1>c. /\ wished' \in [Names -> SUBSET Observers] /\ changes' \in Nat
      /\ \A m \in Names : wished'[m] = IF m = n THEN wished[n] \cup {o} ELSE wished[m]
  BY <1>a, <1>b
<1>1. CASE broadcasts # <<>>
  <2>1. /\ addAfterBroadcast' = [addAfterBroadcast EXCEPT ![n] = {o}] /\ observers' = observers
        /\ undone' = (undone \ {<<n, o>>}) \cup ({n} \X (addAfterBroadcast[n] \ {o}))
    BY <1>1 DEF Center!AddObserver, Center!Lost
  <2>2. /\ addAfterBroadcast' \in [Names -> SUBSET Observers]
        /\ \A m \in Names : addAfterBroadcast'[m] = IF m = n THEN {o} ELSE addAfterBroadcast[m]
    BY <1>0, <2>1 DEF ChangesRight
  <2>3. undone' \subseteq Names \X Observers
    BY <1>0, <1>b, <2>1 DEF ChangesRight
  <2>4. Center!TypeOK'
    BY <1>0, <1>a, <1>c, <2>1, <2>2, <2>3 DEF Center!TypeOK, Center!Pairs
  <2>5. ListsRight'
    BY <1>0, <2>1 DEF ListsRight
  <2>6. ChangesRight'
    BY <1>0, <1>1, <1>a, <2>2 DEF ChangesRight, AtMostOne
  <2>7. Foreseen'
    <3> SUFFICES ASSUME NEW m \in Names, NEW p \in Observers, <<m, p>> \notin undone'
                 PROVE  p \in wished'[m] <=>
                          \/ p \in addAfterBroadcast'[m]
                          \/ p \in Listed(observers[m]) /\ p \notin removeAfterBroadcast[m]
      BY <1>a, <2>1 DEF Foreseen
    <3>1. CASE m = n /\ p = o
      BY <1>c, <2>2, <3>1
    <3>2. CASE ~(m = n /\ p = o)
      <4>1. <<m, p>> \notin undone /\ ~(m = n /\ p \in addAfterBroadcast[n])
        BY <2>1, <3>2
      <4>2. p \in wished[m] <=>
              \/ p \in addAfterBroadcast[m]
              \/ p \in Listed(observers[m]) /\ p \notin removeAfterBroadcast[m]
        BY <1>0, <4>1 DEF Foreseen
      <4> QED BY <1>c, <2>2, <3>2, <4>1, <4>2
    <3> QED BY <3>1, <3>2
  <2>8. Center!NotChangedUnderway'
    BY <1>0, <1>a, <2>1 DEF Center!NotChangedUnderway
  <2> QED BY <2>4, <2>5, <2>6, <2>7, <2>8 DEF CenterInv
<1>2. CASE broadcasts = <<>>
  <2>1. /\ observers' = [observers EXCEPT ![n] = Center!Added(@, {o})]
        /\ undone' = undone \ {<<n, o>>} /\ addAfterBroadcast' = addAfterBroadcast
    BY <1>2 DEF Center!AddObserver
  <2>2. observers \in [Names -> Seq(Observers)] /\ Distinct(observers[n]) /\ AtMostOne({o})
    BY <1>0 DEF Center!TypeOK, ListsRight, AtMostOne
  <2>3. /\ Center!Added(observers[n], {o}) \in Seq(Observers)
        /\ Distinct(Center!Added(observers[n], {o}))
        /\ \A p : p \in Listed(Center!Added(observers[n], {o})) <=> p \in Listed(observers[n]) \/ p = o
    <3>1. observers[n] \in Seq(Observers)
      BY <2>2
    <3>2. /\ Center!Added(observers[n], {o}) \in Seq(Observers)
          /\ Distinct(Center!Added(observers[n], {o}))
          /\ \A p : p \in Listed(Center!Added(observers[n], {o})) <=> p \in Listed(observers[n]) \/ p \in {o}
      BY <2>2, <3>1, ListWith
    <3> QED BY <3>2
  <2>4. /\ observers' \in [Names -> Seq(Observers)]
        /\ observers'[n] = Center!Added(observers[n], {o})
        /\ \A m \in Names \ {n} : observers'[m] = observers[m]
    BY <2>1, <2>2, <2>3
  <2>5. Center!TypeOK'
    BY <1>0, <1>2, <1>a, <1>c, <2>1, <2>4 DEF Center!TypeOK, Center!Pairs
  <2>6. ListsRight'
    BY <1>0, <2>3, <2>4 DEF ListsRight
  <2>7. ChangesRight'
    BY <1>0, <1>a, <2>1 DEF ChangesRight
  <2>8. Foreseen'
    <3> SUFFICES ASSUME NEW m \in Names, NEW p \in Observers, <<m, p>> \notin undone'
                 PROVE  p \in wished'[m] <=>
                          \/ p \in addAfterBroadcast[m]
                          \/ p \in Listed(observers'[m]) /\ p \notin removeAfterBroadcast[m]
      BY <1>a, <2>1 DEF Foreseen
    <3>0. addAfterBroadcast[m] = {} /\ removeAfterBroadcast[m] = {}
      BY <1>0, <1>2 DEF ChangesRight
    <3>1. CASE m = n /\ p = o
      BY <1>c, <2>3, <2>4, <3>0, <3>1
    <3>2. CASE ~(m = n /\ p = o)
      <4>1. <<m, p>> \notin undone
        BY <2>1, <3>2
      <4>2. p \in wished[m] <=>
              \/ p \in addAfterBroadcast[m]
              \/ p \in Listed(observers[m]) /\ p \notin removeAfterBroadcast[m]
        BY <1>0, <4>1 DEF Foreseen
      <4>3. p \in Listed(observers'[m]) <=> p \in Listed(observers[m])
        BY <2>3, <2>4, <3>2
      <4> QED BY <1>c, <3>2, <4>2, <4>3
    <3> QED BY <3>1, <3>2
  <2>9. Center!NotChangedUnderway'
    BY <1>2, <1>a DEF Center!NotChangedUnderway
  <2> QED BY <2>5, <2>6, <2>7, <2>8, <2>9 DEF CenterInv
<1> QED BY <1>1, <1>2

\* removeObserver, in a broadcast and outside.
LEMMA RemoveKeeps ==
  ASSUME CenterInv, NEW n \in Names, NEW o \in Observers, Center!RemoveObserver(o, n)
  PROVE  CenterInv'
<1>0. Center!TypeOK /\ ListsRight /\ ChangesRight /\ Foreseen /\ Center!NotChangedUnderway
  BY DEF CenterInv
<1>a. /\ changes' = changes + 1 /\ wished' = [wished EXCEPT ![n] = @ \ {o}]
      /\ UNCHANGED <<broadcasts, addAfterBroadcast>>
  BY DEF Center!RemoveObserver
<1>b. changes \in Nat /\ wished \in [Names -> SUBSET Observers] /\ undone \subseteq Names \X Observers
  BY <1>0 DEF Center!TypeOK, Center!Pairs
<1>c. /\ wished' \in [Names -> SUBSET Observers] /\ changes' \in Nat
      /\ \A m \in Names : wished'[m] = IF m = n THEN wished[n] \ {o} ELSE wished[m]
  BY <1>a, <1>b
<1>1. CASE broadcasts # <<>>
  <2>1. /\ removeAfterBroadcast' = [removeAfterBroadcast EXCEPT ![n] = {o}] /\ observers' = observers
        /\ undone' = (undone \ {<<n, o>>}) \cup ({n} \X (removeAfterBroadcast[n] \ {o}))
                       \cup ({n} \X (addAfterBroadcast[n] \cap {o}))
    BY <1>1 DEF Center!RemoveObserver, Center!Lost, Center!InVain
  <2>2. /\ removeAfterBroadcast' \in [Names -> SUBSET Observers]
        /\ \A m \in Names : removeAfterBroadcast'[m] = IF m = n THEN {o} ELSE removeAfterBroadcast[m]
    BY <1>0, <2>1 DEF ChangesRight
  <2>3. undone' \subseteq Names \X Observers
    BY <1>0, <1>b, <2>1 DEF ChangesRight
  <2>4. Center!TypeOK'
    BY <1>0, <1>a, <1>c, <2>1, <2>2, <2>3 DEF Center!TypeOK, Center!Pairs
  <2>5. ListsRight'
    BY <1>0, <2>1 DEF ListsRight
  <2>6. ChangesRight'
    BY <1>0, <1>1, <1>a, <2>2 DEF ChangesRight, AtMostOne
  <2>7. Foreseen'
    <3> SUFFICES ASSUME NEW m \in Names, NEW p \in Observers, <<m, p>> \notin undone'
                 PROVE  p \in wished'[m] <=>
                          \/ p \in addAfterBroadcast[m]
                          \/ p \in Listed(observers[m]) /\ p \notin removeAfterBroadcast'[m]
      BY <1>a, <2>1 DEF Foreseen
    <3>1. CASE m = n /\ p = o
      <4>1. p \notin addAfterBroadcast[m]
        BY <2>1, <3>1
      <4> QED BY <1>c, <2>2, <3>1, <4>1
    <3>2. CASE ~(m = n /\ p = o)
      <4>1. <<m, p>> \notin undone /\ ~(m = n /\ p \in removeAfterBroadcast[n])
        BY <2>1, <3>2
      <4>2. p \in wished[m] <=>
              \/ p \in addAfterBroadcast[m]
              \/ p \in Listed(observers[m]) /\ p \notin removeAfterBroadcast[m]
        BY <1>0, <4>1 DEF Foreseen
      <4> QED BY <1>c, <2>2, <3>2, <4>1, <4>2
    <3> QED BY <3>1, <3>2
  <2>8. Center!NotChangedUnderway'
    BY <1>0, <1>a, <2>1 DEF Center!NotChangedUnderway
  <2> QED BY <2>4, <2>5, <2>6, <2>7, <2>8 DEF CenterInv
<1>2. CASE broadcasts = <<>>
  <2>1. /\ observers' = [observers EXCEPT ![n] = Center!Removed(@, {o})]
        /\ undone' = undone \ {<<n, o>>} /\ removeAfterBroadcast' = removeAfterBroadcast
    BY <1>2 DEF Center!RemoveObserver
  <2>2. observers \in [Names -> Seq(Observers)] /\ Distinct(observers[n])
    BY <1>0 DEF Center!TypeOK, ListsRight
  <2>3. /\ Center!Removed(observers[n], {o}) \in Seq(Observers)
        /\ Distinct(Center!Removed(observers[n], {o}))
        /\ \A p : p \in Listed(Center!Removed(observers[n], {o})) <=> p \in Listed(observers[n]) /\ p # o
    BY <2>2, ListWithout
  <2>4. /\ observers' \in [Names -> Seq(Observers)]
        /\ observers'[n] = Center!Removed(observers[n], {o})
        /\ \A m \in Names \ {n} : observers'[m] = observers[m]
    BY <2>1, <2>2, <2>3
  <2>5. Center!TypeOK'
    BY <1>0, <1>2, <1>a, <1>c, <2>1, <2>4 DEF Center!TypeOK, Center!Pairs
  <2>6. ListsRight'
    BY <1>0, <2>3, <2>4 DEF ListsRight
  <2>7. ChangesRight'
    BY <1>0, <1>a, <2>1 DEF ChangesRight
  <2>8. Foreseen'
    <3> SUFFICES ASSUME NEW m \in Names, NEW p \in Observers, <<m, p>> \notin undone'
                 PROVE  p \in wished'[m] <=>
                          \/ p \in addAfterBroadcast[m]
                          \/ p \in Listed(observers'[m]) /\ p \notin removeAfterBroadcast[m]
      BY <1>a, <2>1 DEF Foreseen
    <3>0. addAfterBroadcast[m] = {} /\ removeAfterBroadcast[m] = {}
      BY <1>0, <1>2 DEF ChangesRight
    <3>1. CASE m = n /\ p = o
      BY <1>c, <2>3, <2>4, <3>0, <3>1
    <3>2. CASE ~(m = n /\ p = o)
      <4>1. <<m, p>> \notin undone
        BY <2>1, <3>2
      <4>2. p \in wished[m] <=>
              \/ p \in addAfterBroadcast[m]
              \/ p \in Listed(observers[m]) /\ p \notin removeAfterBroadcast[m]
        BY <1>0, <4>1 DEF Foreseen
      <4>3. p \in Listed(observers'[m]) <=> p \in Listed(observers[m])
        BY <2>3, <2>4, <3>2
      <4> QED BY <1>c, <3>2, <4>2, <4>3
    <3> QED BY <3>1, <3>2
  <2>9. Center!NotChangedUnderway'
    BY <1>2, <1>a DEF Center!NotChangedUnderway
  <2> QED BY <2>5, <2>6, <2>7, <2>8, <2>9 DEF CenterInv
<1> QED BY <1>1, <1>2

\* Every step keeps the invariant.
LEMMA CenterStepKeeps == CenterInv /\ [Center!Next]_(Center!vars) => CenterInv'
<1> SUFFICES ASSUME CenterInv, [Center!Next]_(Center!vars) PROVE CenterInv'
  OBVIOUS
<1>1. CASE Center!Next
  BY <1>1, CallKeeps, EndPostKeeps, PostKeeps, AddKeeps, RemoveKeeps DEF Center!Next
<1>2. CASE UNCHANGED Center!vars
  <2> USE <1>2 DEF Center!vars, CenterInv
  <2>1. Center!TypeOK'
    BY DEF Center!TypeOK, Center!Pairs
  <2>2. ListsRight' /\ ChangesRight' /\ Foreseen'
    BY DEF ListsRight, ChangesRight, Foreseen
  <2>3. Center!NotChangedUnderway'
    BY DEF Center!NotChangedUnderway
  <2> QED BY <2>1, <2>2, <2>3
<1> QED BY <1>1, <1>2

\* It gives what the center promises.
LEMMA CenterInvIsSafe == CenterInv => Center!ObserversSafe
<1> SUFFICES ASSUME CenterInv PROVE Center!ObserversSafe
  OBVIOUS
<1>1. Center!AsWished
  <2>1. \A n \in Names : Center!ToSet(observers[n]) = Listed(observers[n])
    BY DEF Center!ToSet, Listed
  <2> QED BY <2>1 DEF CenterInv, Foreseen, ChangesRight, Center!AsWished
<1>2. Center!CalledOnce
  BY DEF CenterInv, ListsRight, Distinct, Center!CalledOnce, Center!IsInjective
<1> QED BY <1>1, <1>2 DEF CenterInv, Center!ObserversSafe

\* For any notifications and observers, and whatever is added, removed and posted
\* inside broadcasts: outside of them the lists are those the calls made, but for
\* changes that took one another's place; an observer is in a list once; and no
\* list is changed while it is walked.
THEOREM CenterIsSafe == Center!Spec => []Center!ObserversSafe /\ []ObserversAreSafe
<1>1. Center!Init => CenterInv
  BY CenterStarts
<1>2. CenterInv /\ [Center!Next]_(Center!vars) => CenterInv'
  BY CenterStepKeeps
<1>3. CenterInv => Center!ObserversSafe /\ ObserversAreSafe
  BY CenterInvIsSafe DEF ObserversAreSafe
<1> QED BY <1>1, <1>2, <1>3, PTL DEF Center!Spec

-----------------------------------------------------------------------------
(* The requests of a screen. *)

\* What waits on the stage queue, and for the UI thread.
StageOps ==
  [op : {"perform", "completed"}, r : Requests] \cup
  [op : {"cancel"}, token : Guids!Tokens, guid : Screens]
UiOps ==
  [op : {"bind"}, token : Guids!Tokens, guid : Screens] \cup
  [op : {"remove"}, token : Guids!Tokens]

Performing(r) == \E o \in Listed(stage) : o.op = "perform" /\ o.r = r
Binding(t)    == \E o \in Listed(ui) : o.op = "bind" /\ o.token = t
Removing(t)   == \E o \in Listed(ui) : o.op = "remove" /\ o.token = t

\* A request is performed once by what is in the queue s, a token bound once.
PerformsOnce(s) ==
  \A i, j \in DOMAIN s : s[i].op = "perform" /\ s[j].op = "perform" /\ s[i].r = s[j].r => i = j
BindsOnce(s, t) ==
  \A i, j \in DOMAIN s :
    s[i].op = "bind" /\ s[j].op = "bind" /\ s[i].token = t /\ s[j].token = t => i = j

\* In the queue s the cancellation of token t waits, behind the performing of r.
CancelFollows(s, t, r) ==
  \E i \in DOMAIN s :
    /\ s[i].op = "cancel" /\ s[i].token = t
    /\ \A j \in DOMAIN s : s[j].op = "perform" /\ s[j].r = r => j < i

\* Requests that have a token, those that were cancelled, and those on their way.
Written == { r \in Requests : token[r] # 0 }
Gone    == { r \in Requests : \E g \in Screens : <<r, g>> \in cancelled }
Alive(r) == Performing(r) \/ r \in Listed(waiting) \/ r \in Listed(running)

\* A request whose token is nobody else's.
Alone(r) == token[r] # 0 /\ \A q \in Requests \ {r} : token[q] # token[r]

\* A token of some request, and of a request of a screen.
Known(t)    == \E r \in Requests : token[r] = t
Owned(t, g) == \E r \in Requests : token[r] = t /\ Screen[r] = g

\* It is in the list once at most.
Once(list, t) == \A i, j \in DOMAIN list : list[i] = t /\ list[j] = t => i = j

GuidTypes ==
  /\ nextCallToken \in Nat \ {0}
  /\ read \in [Requests -> Guids!Tokens \cup {0}] /\ token \in [Requests -> Guids!Tokens \cup {0}]
  /\ unbound \subseteq Written
  /\ stage \in Seq(StageOps) /\ ui \in Seq(UiOps)
  /\ waiting \in Seq(Requests) /\ running \in Seq(Requests)
  /\ requestsByGuids \in [Screens -> Seq(Guids!Tokens)]
  /\ requestsByClass \in [Guids!Tokens -> SUBSET Screens]
  /\ answered \subseteq Requests /\ closed \subseteq Screens
  /\ cancelled \subseteq Requests \X Screens
  /\ \A g \in closed : requestsByGuids[g] = <<>>

\* The counter has counted the requests performed and the answers dropped.
CounterRight ==
  LET drawn == Cardinality(Written) + Cardinality(Gone) IN
  /\ nextCallToken <= drawn + 1
  /\ \A r \in Requests : token[r] = 0 => read[r] <= drawn + 1

\* A request is in one place at a time.
PlacesRight ==
  /\ Distinct(waiting)
  /\ Listed(waiting) \cap Listed(running) = {}
  /\ \A r \in Requests : Performing(r) => r \notin Listed(waiting) \cup Listed(running)
  /\ PerformsOnce(stage)
  /\ \A r \in Requests : Alive(r) => r \in Written \ Gone
  /\ Gone \subseteq Written

\* Where tokens come from.
OwnersRight ==
  /\ \A o \in Listed(ui) : Known(o.token) /\ (o.op = "bind" => Owned(o.token, o.guid))
  /\ \A g \in Screens : \A t \in Listed(requestsByGuids[g]) : Owned(t, g)
  /\ \A t \in Guids!Tokens : requestsByClass[t] # {} => Known(t)
  /\ \A o \in Listed(stage) : o.op = "cancel" => Owned(o.token, o.guid) /\ o.guid \in closed

\* A token that is nobody else's is bound once, to its screen.
BoundOnce(r) ==
  LET t == token[r]
      list == requestsByGuids[Screen[r]]
  IN /\ r \in unbound => ~Binding(t)
     /\ r \in unbound \/ Binding(t) => t \notin Listed(list) /\ requestsByClass[t] = {}
     /\ BindsOnce(ui, t)
     /\ Once(list, t)
     /\ t \in Listed(list) => requestsByClass[t] = {Screen[r]}

\* Its screen will cancel it, unless it was loosed, or bound too late.
WillBeCancelled(r) ==
  Alive(r) => \/ r \in unbound \/ Binding(token[r]) \/ token[r] \in late \cup loosed
              \/ token[r] \in Listed(requestsByGuids[Screen[r]])
              \/ CancelFollows(stage, token[r], r)

\* It is removed because it ended, or because it was loosed.
RemovedRight(r) == Removing(token[r]) => token[r] \in loosed \/ ~Alive(r)

\* When it has ended it leaves the list of its screen.
WillBeRemoved(r) ==
  ~Alive(r) /\ Screen[r] \notin closed =>
    \/ token[r] \in early \/ Removing(token[r])
    \/ /\ r \notin unbound /\ ~Binding(token[r])
       /\ token[r] \notin Listed(requestsByGuids[Screen[r]])

RequestRight(r) ==
  BoundOnce(r) /\ WillBeCancelled(r) /\ RemovedRight(r) /\ WillBeRemoved(r)

GuidInv ==
  /\ GuidTypes /\ CounterRight /\ PlacesRight /\ OwnersRight
  /\ \A r \in Requests : Alone(r) => RequestRight(r)
  /\ Guids!OnlyItsOwn

-----------------------------------------------------------------------------
(* Queues: what is in them, and in what order. *)

\* The operators of the library are those of the module.
LEMMA GuidsSelects ==
  /\ \A S : Guids!Cardinality(S) = Cardinality(S)
  /\ \A s, P : Guids!SelectAt(s, P) = SelectAt(s, P)
  /\ \A s : Guids!ToSet(s) = Listed(s)
<1>1. ASSUME NEW S PROVE Guids!Cardinality(S) = Cardinality(S)
  BY DEF Guids!Cardinality, Cardinality
<1>2. ASSUME NEW s, NEW P PROVE Guids!SelectAt(s, P) = SelectAt(s, P)
  <2>1. Guids!Ascending(P) = Ascending(P)
    BY <1>1 DEF Guids!Ascending, Ascending
  <2> QED BY <2>1, <1>1 DEF Guids!SelectAt, SelectAt
<1>3. ASSUME NEW s PROVE Guids!ToSet(s) = Listed(s)
  BY DEF Guids!ToSet, Listed
<1> QED BY <1>1, <1>2, <1>3

\* What is in a queue when something came in at its end, or left at its head.
LEMMA ListedAppended ==
  ASSUME NEW S, NEW s \in Seq(S), NEW e \in S
  PROVE  Listed(Append(s, e)) = Listed(s) \cup {e}
<1> DEFINE u == Append(s, e)
<1>1. /\ Len(s) \in Nat /\ DOMAIN s = 1..Len(s) /\ DOMAIN u = 1..(Len(s) + 1)
      /\ u[Len(s) + 1] = e /\ \A i \in 1..Len(s) : u[i] = s[i]
  BY Appended
<1> HIDE DEF u
<1>2. ASSUME NEW x \in Listed(u) PROVE x \in Listed(s) \cup {e}
  <2>1. PICK i \in DOMAIN u : u[i] = x
    BY <1>2 DEF Listed
  <2>2. i = Len(s) + 1 \/ i \in DOMAIN s
    BY <1>1, <2>1
  <2> QED BY <1>1, <2>1, <2>2 DEF Listed
<1>3. ASSUME NEW x \in Listed(s) PROVE x \in Listed(u)
  <2>1. PICK i \in DOMAIN s : s[i] = x
    BY <1>3 DEF Listed
  <2>2. i \in DOMAIN u /\ u[i] = x
    BY <1>1, <2>1
  <2> QED BY <2>2 DEF Listed
<1>4. e \in Listed(u)
  <2>1. Len(s) + 1 \in DOMAIN u
    BY <1>1
  <2> QED BY <1>1, <2>1 DEF Listed
<1> QED BY <1>2, <1>3, <1>4 DEF u

\* The same of the head.
LEMMA ListedTail ==
  ASSUME NEW S, NEW s \in Seq(S), s # <<>>
  PROVE  Head(s) \in S /\ Listed(s) = {Head(s)} \cup Listed(Tail(s))
<1> DEFINE u == Tail(s)
<1>1. /\ Len(s) \in Nat \ {0} /\ DOMAIN s = 1..Len(s) /\ DOMAIN u = 1..(Len(s) - 1)
      /\ \A i \in 1..(Len(s) - 1) : u[i] = s[i + 1]
  BY HeadTaken
<1>2. Head(s) = s[1] /\ 1 \in DOMAIN s /\ Head(s) \in S
  BY <1>1
<1> HIDE DEF u
<1>3. ASSUME NEW x \in Listed(s) PROVE x \in {Head(s)} \cup Listed(u)
  <2>1. PICK i \in DOMAIN s : s[i] = x
    BY <1>3 DEF Listed
  <2>2. CASE i = 1
    BY <1>2, <2>1, <2>2
  <2>3. CASE i # 1
    <3>1. i - 1 \in DOMAIN u /\ u[i - 1] = x
      <4>1. i \in 1..Len(s) /\ i - 1 \in 1..(Len(s) - 1) /\ (i - 1) + 1 = i
        BY <1>1, <2>1, <2>3
      <4> QED BY <1>1, <2>1, <4>1
    <3> QED BY <3>1 DEF Listed
  <2> QED BY <2>2, <2>3
<1>4. ASSUME NEW x \in Listed(u) PROVE x \in Listed(s)
  <2>1. PICK i \in DOMAIN u : u[i] = x
    BY <1>4 DEF Listed
  <2>2. i + 1 \in DOMAIN s /\ s[i + 1] = x
    BY <1>1, <2>1
  <2> QED BY <2>2 DEF Listed
<1>5. Head(s) \in Listed(s)
  BY <1>2 DEF Listed
<1> QED BY <1>2, <1>3, <1>4, <1>5 DEF u

\* And of a whole queue behind it.
LEMMA ListedJoined ==
  ASSUME NEW S, NEW s \in Seq(S), NEW u \in Seq(S)
  PROVE  /\ s \o u \in Seq(S) /\ Listed(s \o u) = Listed(s) \cup Listed(u)
         /\ Len(s) \in Nat /\ Len(s \o u) = Len(s) + Len(u) /\ Len(u) \in Nat
         /\ DOMAIN s = 1..Len(s) /\ DOMAIN u = 1..Len(u) /\ DOMAIN (s \o u) = 1..(Len(s) + Len(u))
         /\ \A i \in 1..Len(s) : (s \o u)[i] = s[i]
         /\ \A i \in 1..Len(u) : (s \o u)[Len(s) + i] = u[i]
<1> DEFINE w == s \o u
<1>1. /\ w \in Seq(S) /\ Len(s) \in Nat /\ Len(u) \in Nat /\ Len(w) = Len(s) + Len(u)
      /\ DOMAIN s = 1..Len(s) /\ DOMAIN u = 1..Len(u) /\ DOMAIN w = 1..(Len(s) + Len(u))
  OBVIOUS
<1>2. \A i \in 1..Len(s) : w[i] = s[i]
  BY <1>1
<1>3. \A i \in 1..Len(u) : w[Len(s) + i] = u[i]
  BY <1>1
<1> HIDE DEF w
<1>4. ASSUME NEW x \in Listed(w) PROVE x \in Listed(s) \cup Listed(u)
  <2>1. PICK i \in DOMAIN w : w[i] = x
    BY <1>4 DEF Listed
  <2>2. CASE i \in DOMAIN s
    BY <1>1, <1>2, <2>1, <2>2 DEF Listed
  <2>3. CASE i \notin DOMAIN s
    <3>1. i - Len(s) \in 1..Len(u) /\ Len(s) + (i - Len(s)) = i
      BY <1>1, <2>1, <2>3
    <3>2. u[i - Len(s)] = x /\ i - Len(s) \in DOMAIN u
      BY <1>1, <1>3, <2>1, <3>1
    <3> QED BY <3>2 DEF Listed
  <2> QED BY <2>2, <2>3
<1>5. ASSUME NEW x \in Listed(s) PROVE x \in Listed(w)
  <2>1. PICK i \in DOMAIN s : s[i] = x
    BY <1>5 DEF Listed
  <2>2. i \in DOMAIN w /\ w[i] = x
    BY <1>1, <1>2, <2>1
  <2> QED BY <2>2 DEF Listed
<1>6. ASSUME NEW x \in Listed(u) PROVE x \in Listed(w)
  <2>1. PICK i \in DOMAIN u : u[i] = x
    BY <1>6 DEF Listed
  <2>2. Len(s) + i \in DOMAIN w /\ w[Len(s) + i] = x
    BY <1>1, <1>3, <2>1
  <2> QED BY <2>2 DEF Listed
<1> QED BY <1>1, <1>2, <1>3, <1>4, <1>5, <1>6 DEF w

\* What takes elements out of a list leaves the others, once where they were once.
LEMMA TakenOut ==
  ASSUME NEW S, NEW s \in Seq(S), NEW P \in SUBSET (DOMAIN s)
  PROVE  /\ SelectAt(s, P) \in Seq(S)
         /\ Listed(SelectAt(s, P)) = { s[i] : i \in P }
         /\ \A x : (\A i, j \in P : s[i] = x /\ s[j] = x => i = j) => Once(SelectAt(s, P), x)
         /\ Distinct(s) => Distinct(SelectAt(s, P))
<1> DEFINE u == SelectAt(s, P)
<1>1. u \in Seq(S) /\ TakenAt(u, s, P)
  BY Selected
<1> HIDE DEF u
<1>2. PICK p \in [DOMAIN u -> P] :
        /\ \A i \in DOMAIN u : u[i] = s[p[i]]
        /\ \A i, j \in DOMAIN u : i < j => p[i] < p[j]
        /\ \A x \in P : \E i \in DOMAIN u : p[i] = x
  BY <1>1 DEF TakenAt
<1>3. DOMAIN u \subseteq Nat /\ DOMAIN s \subseteq Nat
  BY <1>1
<1>4. \A i, j \in DOMAIN u : p[i] = p[j] => i = j
  <2> SUFFICES ASSUME NEW i \in DOMAIN u, NEW j \in DOMAIN u, p[i] = p[j] PROVE i = j
    OBVIOUS
  <2>1. i \in Nat /\ j \in Nat /\ p[i] \in Nat
    BY <1>2, <1>3
  <2> QED BY <1>2, <2>1
<1>5. Listed(u) = { s[i] : i \in P }
  BY <1>2 DEF Listed
<1>6. ASSUME NEW x, \A i, j \in P : s[i] = x /\ s[j] = x => i = j PROVE Once(u, x)
  BY <1>2, <1>4, <1>6 DEF Once
<1>7. Distinct(s) => Distinct(u)
  BY <1>2, <1>4 DEF Distinct
<1> QED BY <1>1, <1>5, <1>6, <1>7 DEF u

\* ArrayList.remove of an element: the others stay, one that was there once goes.
LEMMA WithoutFirstIs ==
  ASSUME NEW S, NEW s \in Seq(S), NEW t
  PROVE  LET u == Guids!WithoutFirst(s, t) IN
         /\ u \in Seq(S) /\ Listed(u) \subseteq Listed(s)
         /\ \A x : x # t => (x \in Listed(u) <=> x \in Listed(s))
         /\ \A x : Once(s, x) => Once(u, x)
         /\ Once(s, t) => t \notin Listed(u)
<1> DEFINE P == { i \in DOMAIN s : s[i] = t => \E j \in 1..(i - 1) : s[j] = t }
           u == SelectAt(s, P)
<1>1. Guids!WithoutFirst(s, t) = u
  BY GuidsSelects DEF Guids!WithoutFirst
<1>2. P \in SUBSET (DOMAIN s) /\ \A i \in DOMAIN s : s[i] # t => i \in P
  OBVIOUS
<1>3. Once(s, t) => \A i \in P : s[i] # t
  <2> SUFFICES ASSUME Once(s, t), NEW i \in P, s[i] = t PROVE FALSE
    OBVIOUS
  <2>1. i \in DOMAIN s /\ DOMAIN s = 1..Len(s) /\ Len(s) \in Nat
    OBVIOUS
  <2>2. PICK j \in 1..(i - 1) : s[j] = t
    OBVIOUS
  <2>3. j \in DOMAIN s /\ j # i
    BY <2>1, <2>2
  <2> QED BY <2>1, <2>2, <2>3 DEF Once
<1> HIDE DEF P
<1>4. /\ u \in Seq(S) /\ Listed(u) = { s[i] : i \in P }
      /\ \A x : (\A i, j \in P : s[i] = x /\ s[j] = x => i = j) => Once(u, x)
  BY <1>2, TakenOut
<1> HIDE DEF u
<1>5. Listed(u) \subseteq Listed(s) /\ \A x : x # t => (x \in Listed(u) <=> x \in Listed(s))
  BY <1>2, <1>4 DEF Listed
<1>6. \A x : Once(s, x) => Once(u, x)
  BY <1>2, <1>4 DEF Once
<1>7. Once(s, t) => t \notin Listed(u)
  BY <1>3, <1>4
<1> QED BY <1>1, <1>4, <1>5, <1>6, <1>7

\* A list without some requests.
LEMMA WithoutIs ==
  ASSUME NEW S, NEW s \in Seq(S), NEW gone
  PROVE  LET u == Guids!Without(s, gone) IN
         /\ u \in Seq(S) /\ Listed(u) = Listed(s) \ gone
         /\ Distinct(s) => Distinct(u)
<1> DEFINE P == { i \in DOMAIN s : s[i] \notin gone }
           u == SelectAt(s, P)
<1>1. Guids!Without(s, gone) = u
  BY GuidsSelects DEF Guids!Without
<1>2. P \in SUBSET (DOMAIN s) /\ \A i \in DOMAIN s : s[i] \notin gone <=> i \in P
  OBVIOUS
<1> HIDE DEF P
<1>3. /\ u \in Seq(S) /\ Listed(u) = { s[i] : i \in P } /\ (Distinct(s) => Distinct(u))
  BY <1>2, TakenOut
<1> HIDE DEF u
<1>4. Listed(u) = Listed(s) \ gone
  BY <1>2, <1>3 DEF Listed
<1> QED BY <1>1, <1>3, <1>4

\* The head is taken from a queue: what was once is once, and a cancellation stays
\* behind, unless it was the head.
LEMMA OrderOfTail ==
  ASSUME NEW S, NEW s \in Seq(S), s # <<>>
  PROVE  /\ PerformsOnce(s) =>
              /\ PerformsOnce(Tail(s))
              /\ Head(s).op = "perform" =>
                   \A o \in Listed(Tail(s)) : o.op = "perform" => o.r # Head(s).r
         /\ \A t : BindsOnce(s, t) =>
              /\ BindsOnce(Tail(s), t)
              /\ Head(s).op = "bind" /\ Head(s).token = t =>
                   \A o \in Listed(Tail(s)) : o.op = "bind" => o.token # t
         /\ \A t, r : CancelFollows(s, t, r) =>
              \/ /\ Head(s).op = "cancel" /\ Head(s).token = t
                 /\ \A o \in Listed(s) : ~(o.op = "perform" /\ o.r = r)
              \/ CancelFollows(Tail(s), t, r)
<1> DEFINE u == Tail(s)
<1>1. /\ Len(s) \in Nat \ {0} /\ DOMAIN s = 1..Len(s) /\ DOMAIN u = 1..(Len(s) - 1)
      /\ \A i \in 1..(Len(s) - 1) : u[i] = s[i + 1]
  BY HeadTaken
<1>2. Head(s) = s[1] /\ 1 \in DOMAIN s
  BY <1>1
<1> HIDE DEF u
<1>3. \A i \in DOMAIN u : i \in Nat /\ i + 1 \in DOMAIN s /\ u[i] = s[i + 1] /\ i + 1 # 1
  BY <1>1
<1>4. PerformsOnce(s) => PerformsOnce(u)
  <2> SUFFICES ASSUME PerformsOnce(s), NEW i \in DOMAIN u, NEW j \in DOMAIN u,
                      u[i].op = "perform", u[j].op = "perform", u[i].r = u[j].r PROVE i = j
    BY DEF PerformsOnce
  <2>1. i + 1 = j + 1
    BY <1>3 DEF PerformsOnce
  <2> QED BY <1>3, <2>1
<1>5. PerformsOnce(s) /\ Head(s).op = "perform" =>
        \A o \in Listed(u) : o.op = "perform" => o.r # Head(s).r
  BY <1>2, <1>3 DEF PerformsOnce, Listed
<1>6. ASSUME NEW t, BindsOnce(s, t) PROVE BindsOnce(u, t)
  <2> SUFFICES ASSUME NEW i \in DOMAIN u, NEW j \in DOMAIN u,
                      u[i].op = "bind", u[j].op = "bind", u[i].token = t, u[j].token = t PROVE i = j
    BY DEF BindsOnce
  <2>1. i + 1 = j + 1
    BY <1>3, <1>6 DEF BindsOnce
  <2> QED BY <1>3, <2>1
<1>7. ASSUME NEW t, BindsOnce(s, t), Head(s).op = "bind", Head(s).token = t,
             NEW o \in Listed(u), o.op = "bind"
      PROVE  o.token # t
  BY <1>2, <1>3, <1>7 DEF BindsOnce, Listed
<1>8. ASSUME NEW t, NEW r, CancelFollows(s, t, r)
      PROVE  \/ /\ Head(s).op = "cancel" /\ Head(s).token = t
                /\ \A o \in Listed(s) : ~(o.op = "perform" /\ o.r = r)
             \/ CancelFollows(u, t, r)
  <2>1. PICK i \in DOMAIN s : /\ s[i].op = "cancel" /\ s[i].token = t
                              /\ \A j \in DOMAIN s : s[j].op = "perform" /\ s[j].r = r => j < i
    BY <1>8 DEF CancelFollows
  <2>2. CASE i = 1
    <3>1. \A j \in DOMAIN s : ~(s[j].op = "perform" /\ s[j].r = r)
      BY <1>1, <2>1, <2>2
    <3> QED BY <1>2, <2>1, <2>2, <3>1 DEF Listed
  <2>3. CASE i # 1
    <3>1. i - 1 \in DOMAIN u /\ (i - 1) + 1 = i /\ i \in Nat
      BY <1>1, <2>1, <2>3
    <3>2. u[i - 1] = s[i]
      BY <1>3, <3>1
    <3>3. \A j \in DOMAIN u : u[j].op = "perform" /\ u[j].r = r => j < i - 1
      <4> SUFFICES ASSUME NEW j \in DOMAIN u, u[j].op = "perform", u[j].r = r PROVE j < i - 1
        OBVIOUS
      <4>1. j + 1 < i
        BY <1>3, <2>1
      <4> QED BY <1>3, <3>1, <4>1
    <3> QED BY <2>1, <3>1, <3>2, <3>3 DEF CancelFollows
  <2> QED BY <2>2, <2>3
<1> QED BY <1>4, <1>5, <1>6, <1>7, <1>8 DEF u

\* Something comes in at the end of a queue.
LEMMA OrderOfJoined ==
  ASSUME NEW S, NEW s \in Seq(S), NEW u \in Seq(S)
  PROVE  /\ PerformsOnce(s) /\ (\A o \in Listed(u) : o.op # "perform") => PerformsOnce(s \o u)
         /\ \A t : BindsOnce(s, t) /\ (\A o \in Listed(u) : ~(o.op = "bind" /\ o.token = t)) =>
                     BindsOnce(s \o u, t)
         /\ \A t, r : CancelFollows(s, t, r) /\ (\A o \in Listed(u) : ~(o.op = "perform" /\ o.r = r)) =>
                        CancelFollows(s \o u, t, r)
         /\ \A t, r : /\ \E o \in Listed(u) : o.op = "cancel" /\ o.token = t
                      /\ \A o \in Listed(u) : ~(o.op = "perform" /\ o.r = r)
                      => CancelFollows(s \o u, t, r)
<1> DEFINE w == s \o u
<1>1. /\ Len(s) \in Nat /\ Len(u) \in Nat
      /\ DOMAIN s = 1..Len(s) /\ DOMAIN u = 1..Len(u) /\ DOMAIN w = 1..(Len(s) + Len(u))
      /\ \A i \in 1..Len(s) : w[i] = s[i]
      /\ \A i \in 1..Len(u) : w[Len(s) + i] = u[i]
  BY ListedJoined
<1> HIDE DEF w
<1>2. ASSUME NEW i \in DOMAIN w
      PROVE  \/ i \in DOMAIN s /\ w[i] = s[i]
             \/ i \in Nat /\ i > Len(s) /\ w[i] \in Listed(u)
  <2>1. CASE i \in DOMAIN s
    BY <1>1, <2>1
  <2>2. CASE i \notin DOMAIN s
    <3>1. i - Len(s) \in 1..Len(u) /\ Len(s) + (i - Len(s)) = i /\ i \in Nat /\ i > Len(s)
      BY <1>1, <1>2, <2>2
    <3>2. w[i] = u[i - Len(s)] /\ i - Len(s) \in DOMAIN u
      BY <1>1, <3>1
    <3> QED BY <3>1, <3>2 DEF Listed
  <2> QED BY <2>1, <2>2
<1>3. PerformsOnce(s) /\ (\A o \in Listed(u) : o.op # "perform") => PerformsOnce(w)
  BY <1>2 DEF PerformsOnce
<1>4. ASSUME NEW t, BindsOnce(s, t), \A o \in Listed(u) : ~(o.op = "bind" /\ o.token = t)
      PROVE  BindsOnce(w, t)
  BY <1>2, <1>4 DEF BindsOnce
<1>5. ASSUME NEW t, NEW r, CancelFollows(s, t, r), \A o \in Listed(u) : ~(o.op = "perform" /\ o.r = r)
      PROVE  CancelFollows(w, t, r)
  <2>1. PICK i \in DOMAIN s : /\ s[i].op = "cancel" /\ s[i].token = t
                              /\ \A j \in DOMAIN s : s[j].op = "perform" /\ s[j].r = r => j < i
    BY <1>5 DEF CancelFollows
  <2>2. i \in DOMAIN w /\ w[i] = s[i]
    BY <1>1
  <2>3. \A j \in DOMAIN w : w[j].op = "perform" /\ w[j].r = r => j < i
    BY <1>2, <1>5, <2>1
  <2> QED BY <2>1, <2>2, <2>3 DEF CancelFollows
<1>6. ASSUME NEW t, NEW r, \E o \in Listed(u) : o.op = "cancel" /\ o.token = t,
             \A o \in Listed(u) : ~(o.op = "perform" /\ o.r = r)
      PROVE  CancelFollows(w, t, r)
  <2>1. PICK i \in DOMAIN u : u[i].op = "cancel" /\ u[i].token = t
    BY <1>6 DEF Listed
  <2>2. Len(s) + i \in DOMAIN w /\ w[Len(s) + i] = u[i] /\ Len(s) + i \in Nat /\ Len(s) + i > Len(s)
    BY <1>1
  <2>3. \A j \in DOMAIN w : w[j].op = "perform" /\ w[j].r = r => j < Len(s) + i
    <3> SUFFICES ASSUME NEW j \in DOMAIN w, w[j].op = "perform", w[j].r = r PROVE j < Len(s) + i
      OBVIOUS
    <3>1. j \in DOMAIN s
      BY <1>2, <1>6
    <3> QED BY <1>1, <2>2, <3>1
  <2> QED BY <2>1, <2>2, <2>3 DEF CancelFollows
<1> QED BY <1>3, <1>4, <1>5, <1>6 DEF w

\* The same of one element.
LEMMA OrderOfAppended ==
  ASSUME NEW S, NEW s \in Seq(S), NEW e \in S
  PROVE  /\ PerformsOnce(s) /\ (e.op = "perform" => \A o \in Listed(s) : ~(o.op = "perform" /\ o.r = e.r))
              => PerformsOnce(Append(s, e))
         /\ \A t : /\ BindsOnce(s, t)
                   /\ e.op = "bind" /\ e.token = t => \A o \in Listed(s) : ~(o.op = "bind" /\ o.token = t)
                   => BindsOnce(Append(s, e), t)
         /\ \A t, r : CancelFollows(s, t, r) /\ ~(e.op = "perform" /\ e.r = r)
                        => CancelFollows(Append(s, e), t, r)
<1> DEFINE w == Append(s, e)
<1>1. /\ Len(s) \in Nat /\ DOMAIN s = 1..Len(s) /\ DOMAIN w = 1..(Len(s) + 1)
      /\ w[Len(s) + 1] = e /\ \A i \in 1..Len(s) : w[i] = s[i]
  BY Appended
<1> HIDE DEF w
<1>2. ASSUME NEW i \in DOMAIN w
      PROVE  \/ i \in DOMAIN s /\ w[i] = s[i] /\ w[i] \in Listed(s)
             \/ i = Len(s) + 1 /\ w[i] = e
  <2>1. i \in DOMAIN s \/ i = Len(s) + 1
    BY <1>1, <1>2
  <2> QED BY <1>1, <2>1 DEF Listed
<1>3. PerformsOnce(s) /\ (e.op = "perform" => \A o \in Listed(s) : ~(o.op = "perform" /\ o.r = e.r))
        => PerformsOnce(w)
  BY <1>2 DEF PerformsOnce
<1>4. ASSUME NEW t, BindsOnce(s, t),
             e.op = "bind" /\ e.token = t => \A o \in Listed(s) : ~(o.op = "bind" /\ o.token = t)
      PROVE  BindsOnce(w, t)
  BY <1>2, <1>4 DEF BindsOnce
<1>5. ASSUME NEW t, NEW r, CancelFollows(s, t, r), ~(e.op = "perform" /\ e.r = r)
      PROVE  CancelFollows(w, t, r)
  <2>1. PICK i \in DOMAIN s : /\ s[i].op = "cancel" /\ s[i].token = t
                              /\ \A j \in DOMAIN s : s[j].op = "perform" /\ s[j].r = r => j < i
    BY <1>5 DEF CancelFollows
  <2>2. i \in DOMAIN w /\ w[i] = s[i]
    BY <1>1
  <2>3. \A j \in DOMAIN w : w[j].op = "perform" /\ w[j].r = r => j < i
    BY <1>2, <1>5, <2>1
  <2> QED BY <2>1, <2>2, <2>3 DEF CancelFollows
<1> QED BY <1>3, <1>4, <1>5 DEF w

\* Of the requests of a list that have a token the first is found, which is the
\* one whose token it is alone.
LEMMA FirstIs ==
  ASSUME NEW s \in Seq(Requests), NEW t
  PROVE  /\ \A r \in Guids!FirstWith(s, t) : r \in Listed(s) /\ r \in Requests /\ token[r] = t
         /\ \A r \in Listed(s) : Alone(r) /\ token[r] = t => r \in Guids!FirstWith(s, t)
<1>1. \A r \in Guids!FirstWith(s, t) : r \in Listed(s) /\ r \in Requests /\ token[r] = t
  BY DEF Guids!FirstWith, Listed
<1>2. ASSUME NEW r \in Listed(s), Alone(r), token[r] = t PROVE r \in Guids!FirstWith(s, t)
  <2> DEFINE T == { i \in DOMAIN s : token[s[i]] = t }
  <2>1. T \in SUBSET Nat /\ T # {}
    BY <1>2 DEF Listed
  <2>2. PICK i \in T : \A j \in T : i <= j
    BY <2>1, LeastOfSome
  <2>3. DOMAIN s = 1..Len(s) /\ Len(s) \in Nat /\ i \in DOMAIN s /\ token[s[i]] = t
    OBVIOUS
  <2>4. \A j \in 1..(i - 1) : token[s[j]] # t
    <3> SUFFICES ASSUME NEW j \in 1..(i - 1), token[s[j]] = t PROVE FALSE
      OBVIOUS
    <3>1. j \in DOMAIN s /\ j < i /\ i \in Nat /\ j \in Nat
      BY <2>3
    <3>2. i <= j
      BY <2>2, <3>1
    <3> QED BY <3>1, <3>2
  <2>5. s[i] = r
    <3>1. s[i] \in Requests
      BY <2>3
    <3> QED BY <1>2, <2>3, <3>1 DEF Alone
  <2> QED BY <2>3, <2>4, <2>5 DEF Guids!FirstWith
<1> QED BY <1>1, <1>2

\* A shared token is not alone.
LEMMA SharedOrAlone ==
  ASSUME NEW r \in Requests, token[r] # 0 PROVE Guids!Shared(r) <=> ~Alone(r)
BY DEF Guids!Shared, Alone

-----------------------------------------------------------------------------
(* The invariant is kept. *)

\* At first nothing was asked for.
LEMMA GuidsStart == Guids!Init => GuidInv
<1> SUFFICES ASSUME Guids!Init PROVE GuidInv
  OBVIOUS
<1> USE DEF Guids!Init
<1>1. /\ Written = {} /\ Gone = {} /\ Listed(stage) = {} /\ Listed(ui) = {} /\ Listed(waiting) = {}
      /\ Listed(running) = {} /\ \A g \in Screens : Listed(requestsByGuids[g]) = {}
  BY DEF Written, Gone, Listed
<1>2. GuidTypes
  BY <1>1 DEF GuidTypes
<1>3. CounterRight
  <2>1. Cardinality(Written) = 0 /\ Cardinality(Gone) = 0
    BY <1>1, FS_EmptySet
  <2> QED BY <2>1 DEF CounterRight
<1>4. PlacesRight
  BY <1>1 DEF PlacesRight, Distinct, PerformsOnce, Performing, Alive
<1>5. OwnersRight
  BY <1>1 DEF OwnersRight
<1>6. \A r \in Requests : ~Alone(r)
  BY DEF Alone
<1>7. Guids!OnlyItsOwn
  BY DEF Guids!OnlyItsOwn
<1> QED BY <1>2, <1>3, <1>4, <1>5, <1>6, <1>7 DEF GuidInv

\* The counter stays within the numbers there are tokens for.
LEMMA CounterSmall ==
  ASSUME GuidInv, NEW r \in Requests, token[r] = 0
  PROVE  /\ IsFiniteSet(Requests) /\ IsFiniteSet(Written) /\ IsFiniteSet(Gone)
         /\ r \notin Written \cup Gone
         /\ Cardinality(Written) \in Nat /\ Cardinality(Gone) \in Nat
         /\ Cardinality(Written \cup {r}) = Cardinality(Written) + 1
         /\ nextCallToken \in Guids!Tokens
<1>1. IsFiniteSet(Requests)
  BY BookkeepingAssumption DEF Guids!ScreenAssumption, Guids!IsFiniteSet, IsFiniteSet
<1>2. r \notin Written /\ r \notin Gone /\ Written \subseteq Requests \ {r} /\ Gone \subseteq Requests \ {r}
  BY DEF GuidInv, PlacesRight, Written, Gone
<1>3. IsFiniteSet(Requests \ {r}) /\ Cardinality(Requests \ {r}) = Cardinality(Requests) - 1
      /\ Cardinality(Requests) \in Nat
  BY <1>1, FS_RemoveElement, FS_CardinalityType
<1>4. /\ IsFiniteSet(Written) /\ IsFiniteSet(Gone)
      /\ Cardinality(Written) <= Cardinality(Requests) - 1 /\ Cardinality(Gone) <= Cardinality(Requests) - 1
  BY <1>2, <1>3, FS_Subset
<1>5. Cardinality(Written) \in Nat /\ Cardinality(Gone) \in Nat
  BY <1>4, FS_CardinalityType
<1>6. Cardinality(Written \cup {r}) = Cardinality(Written) + 1
  BY <1>2, <1>4, FS_AddElement
<1>7. nextCallToken \in Guids!Tokens
  <2>1. nextCallToken \in Nat \ {0} /\ nextCallToken <= Cardinality(Written) + Cardinality(Gone) + 1
    BY DEF GuidInv, GuidTypes, CounterRight
  <2>2. Guids!Tokens = 1..(2 * Cardinality(Requests))
    BY GuidsSelects DEF Guids!Tokens
  <2>3. nextCallToken <= 2 * Cardinality(Requests)
    BY <1>3, <1>4, <1>5, <2>1
  <2> QED BY <1>3, <2>1, <2>2, <2>3
<1> QED BY <1>1, <1>2, <1>4, <1>5, <1>6, <1>7

\* A thread reads the counter.
LEMMA ReadTokenKeeps == ASSUME GuidInv, NEW r \in Requests, Guids!ReadToken(r) PROVE GuidInv'
<1> USE DEF Guids!ReadToken, Guids!stageVars, Guids!uiVars, Guids!history
<1>1. token[r] = 0 /\ read' = [read EXCEPT ![r] = nextCallToken]
  OBVIOUS
<1>2. nextCallToken \in Guids!Tokens
  BY <1>1, CounterSmall
<1>3. GuidTypes'
  BY <1>1, <1>2 DEF GuidInv, GuidTypes, Written
<1>4. CounterRight'
  BY <1>1 DEF GuidInv, GuidTypes, CounterRight, Written, Gone
<1>5. PlacesRight'
  BY DEF GuidInv, PlacesRight, Alive, Performing, Written, Gone
<1>6. OwnersRight'
  BY DEF GuidInv, OwnersRight, Known, Owned
<1>7. \A q \in Requests : Alone(q)' => RequestRight(q)'
  BY DEF GuidInv, Alone, RequestRight, BoundOnce, WillBeCancelled, RemovedRight, WillBeRemoved,
         Alive, Performing, Binding, Removing
<1>8. Guids!OnlyItsOwn'
  BY DEF GuidInv, Guids!OnlyItsOwn, Guids!Shared
<1> QED BY <1>3, <1>4, <1>5, <1>6, <1>7, <1>8 DEF GuidInv

\* An answer: its removal is posted.
LEMMA AnswerKeeps == ASSUME GuidInv, NEW r \in Requests, Guids!Answer(r) PROVE GuidInv'
<1> USE DEF Guids!Answer, Guids!tokens, Guids!stageVars, Guids!uiVars
<1> DEFINE e == [op |-> "completed", r |-> r]
<1>1. stage' = Append(stage, e) /\ e \in StageOps /\ stage \in Seq(StageOps) /\ e.op = "completed"
  BY DEF GuidInv, GuidTypes, StageOps
<1> HIDE DEF e
<1>2. Listed(stage') = Listed(stage) \cup {e} /\ stage' \in Seq(StageOps)
  BY <1>1, ListedAppended, Appended
<1>3. PerformsOnce(stage) => PerformsOnce(stage')
  BY <1>1, OrderOfAppended
<1>4. \A t, q : CancelFollows(stage, t, q) => CancelFollows(stage', t, q)
  BY <1>1, OrderOfAppended
<1>5. \A q : Performing(q)' <=> Performing(q)
  BY <1>1, <1>2 DEF Performing
<1>6. \A q : Alive(q)' <=> Alive(q)
  BY <1>5 DEF Alive
<1>7. GuidTypes'
  BY <1>2 DEF GuidInv, GuidTypes, Written
<1>8. CounterRight'
  BY DEF GuidInv, CounterRight, Written, Gone
<1>9. PlacesRight'
  BY <1>3, <1>5, <1>6 DEF GuidInv, PlacesRight, Written, Gone
<1>10. OwnersRight'
  BY <1>1, <1>2 DEF GuidInv, OwnersRight, Known, Owned
<1>11. \A q \in Requests : Alone(q)' => RequestRight(q)'
  BY <1>4, <1>6 DEF GuidInv, Alone, RequestRight, BoundOnce, WillBeCancelled, RemovedRight, WillBeRemoved,
         Binding, Removing
<1>12. Guids!OnlyItsOwn'
  BY DEF GuidInv, Guids!OnlyItsOwn, Guids!Shared
<1> QED BY <1>7, <1>8, <1>9, <1>10, <1>11, <1>12 DEF GuidInv

\* A pass gives a queued request a slot.
LEMMA PromoteKeeps == ASSUME GuidInv, Guids!Promote PROVE GuidInv'
<1> USE DEF Guids!Promote, Guids!tokens, Guids!uiVars, Guids!history
<1> DEFINE h == Head(waiting)
<1>1. /\ waiting \in Seq(Requests) /\ waiting # <<>> /\ running \in Seq(Requests)
      /\ waiting' = Tail(waiting) /\ running' = Append(running, h)
  BY DEF GuidInv, GuidTypes
<1>2. h \in Requests /\ Listed(waiting) = {h} \cup Listed(waiting')
  BY <1>1, ListedTail
<1>3. waiting' \in Seq(Requests) /\ Distinct(waiting') /\ h \notin Listed(waiting')
  <2>1. Distinct(waiting)
    BY DEF GuidInv, PlacesRight
  <2>2. Distinct(Tail(waiting)) /\ \A x : Contains(Tail(waiting), x) <=> Contains(waiting, x) /\ x # h
    BY <1>1, <2>1, TailDistinct
  <2>3. h \notin Listed(waiting')
    <3>1. waiting' \in Seq(Requests)
      BY <1>1, HeadTaken
    <3>2. DOMAIN waiting' = 1..Len(waiting')
      BY <3>1
    <3> QED BY <1>1, <2>2, <3>2 DEF Contains, Listed
  <2> QED BY <1>1, <2>2, <2>3, HeadTaken
<1>4. running' \in Seq(Requests) /\ Listed(running') = Listed(running) \cup {h}
  BY <1>1, <1>2, ListedAppended, Appended
<1> HIDE DEF h
<1>5. \A q : Alive(q)' <=> Alive(q)
  BY <1>2, <1>4 DEF Alive, Performing
<1>6. GuidTypes'
  BY <1>3, <1>4 DEF GuidInv, GuidTypes, Written
<1>7. CounterRight'
  BY DEF GuidInv, CounterRight, Written, Gone
<1>8. PlacesRight'
  BY <1>2, <1>3, <1>4, <1>5 DEF GuidInv, PlacesRight, Written, Gone, Performing
<1>9. OwnersRight'
  BY DEF GuidInv, OwnersRight, Known, Owned
<1>10. \A q \in Requests : Alone(q)' => RequestRight(q)'
  BY <1>5 DEF GuidInv, Alone, RequestRight, BoundOnce, WillBeCancelled, RemovedRight, WillBeRemoved,
         Binding, Removing
<1>11. Guids!OnlyItsOwn'
  BY DEF GuidInv, Guids!OnlyItsOwn, Guids!Shared
<1> QED BY <1>6, <1>7, <1>8, <1>9, <1>10, <1>11 DEF GuidInv

\* performRpc's runnable: the request is queued.
LEMMA RunPerformKeeps == ASSUME GuidInv, Guids!RunPerform PROVE GuidInv'
<1> USE DEF Guids!RunPerform, Guids!tokens, Guids!uiVars, Guids!history
<1>0. PICK h, r : h = Head(stage) /\ r = Head(stage).r
  OBVIOUS
<1>1. /\ stage \in Seq(StageOps) /\ stage # <<>> /\ h.op = "perform" /\ waiting \in Seq(Requests)
      /\ stage' = Tail(stage) /\ waiting' = Append(waiting, r)
  BY <1>0 DEF GuidInv, GuidTypes
<1>2. h \in StageOps /\ Listed(stage) = {h} \cup Listed(stage') /\ stage' \in Seq(StageOps)
  BY <1>0, <1>1, ListedTail, HeadTaken
<1>3. r \in Requests /\ Performing(r) /\ h.r = r
  BY <1>0, <1>1, <1>2 DEF StageOps, Performing
<1>4. /\ PerformsOnce(stage') /\ \A o \in Listed(stage') : o.op = "perform" => o.r # r
      /\ \A t, q : CancelFollows(stage, t, q) => CancelFollows(stage', t, q)
  <2>1. PerformsOnce(stage)
    BY DEF GuidInv, PlacesRight
  <2> QED BY <1>0, <1>1, <2>1, OrderOfTail
<1>5. ~Performing(r)' /\ \A q : q # r => (Performing(q)' <=> Performing(q))
  BY <1>2, <1>3, <1>4 DEF Performing
<1>6. r \notin Listed(waiting) \cup Listed(running)
  BY <1>3 DEF GuidInv, PlacesRight
<1>7. waiting' \in Seq(Requests) /\ Listed(waiting') = Listed(waiting) \cup {r}
  BY <1>1, <1>3, ListedAppended, Appended
<1>8. Distinct(waiting')
  <2>1. Distinct(waiting) /\ ~Contains(waiting, r)
    BY <1>1, <1>6 DEF GuidInv, PlacesRight, Contains, Listed
  <2> QED BY <1>1, <1>3, <2>1, AppendedDistinct
<1>9. \A q : Alive(q)' <=> Alive(q)
  BY <1>3, <1>5, <1>7 DEF Alive
<1>10. GuidTypes'
  BY <1>2, <1>7 DEF GuidInv, GuidTypes, Written
<1>11. CounterRight'
  BY DEF GuidInv, CounterRight, Written, Gone
<1>12. PlacesRight'
  <2>1. (Listed(waiting) \cap Listed(running) = {})'
    BY <1>6, <1>7 DEF GuidInv, PlacesRight
  <2>2. \A q \in Requests : Performing(q)' => q \notin Listed(waiting') \cup Listed(running')
    BY <1>5, <1>7 DEF GuidInv, PlacesRight
  <2> QED BY <1>4, <1>8, <1>9, <2>1, <2>2 DEF GuidInv, PlacesRight, Written, Gone
<1>13. OwnersRight'
  BY <1>2 DEF GuidInv, OwnersRight, Known, Owned
<1>14. \A q \in Requests : Alone(q)' => RequestRight(q)'
  BY <1>4, <1>9 DEF GuidInv, Alone, RequestRight, BoundOnce, WillBeCancelled, RemovedRight, WillBeRemoved,
         Binding, Removing
<1>15. Guids!OnlyItsOwn'
  BY DEF GuidInv, Guids!OnlyItsOwn, Guids!Shared
<1> QED BY <1>10, <1>11, <1>12, <1>13, <1>14, <1>15 DEF GuidInv

\* A thread posts the binding of its token.
LEMMA BindTokenKeeps == ASSUME GuidInv, NEW r \in Requests, Guids!BindToken(r) PROVE GuidInv'
<1> USE DEF Guids!BindToken, Guids!stageVars, Guids!uiVars, Guids!history
<1>e. PICK e : e = [op |-> "bind", token |-> token[r], guid |-> Screen[r]]
  OBVIOUS
<1>0. Screen[r] \in Screens
  BY BookkeepingAssumption DEF Guids!ScreenAssumption
<1>1. /\ ui' = Append(ui, e) /\ ui \in Seq(UiOps) /\ e.op = "bind" /\ e.token = token[r]
      /\ e.guid = Screen[r] /\ unbound' = unbound \ {r} /\ r \in unbound
  BY <1>e DEF GuidInv, GuidTypes
<1>2. e \in UiOps
  <2>1. token[r] \in Guids!Tokens
    BY DEF GuidInv, GuidTypes, Written
  <2> QED BY <1>e, <1>0, <2>1 DEF UiOps
<1>3. Listed(ui') = Listed(ui) \cup {e} /\ ui' \in Seq(UiOps)
  BY <1>1, <1>2, ListedAppended, Appended
<1>4. \A t : /\ Binding(t)' <=> Binding(t) \/ t = token[r]
             /\ Removing(t)' <=> Removing(t)
  BY <1>1, <1>3 DEF Binding, Removing
<1>5. \A t : BindsOnce(ui, t) /\ (t = token[r] => ~Binding(t)) => BindsOnce(ui', t)
  <2> SUFFICES ASSUME NEW t, BindsOnce(ui, t), t = token[r] => ~Binding(t) PROVE BindsOnce(ui', t)
    OBVIOUS
  <2>1. e.op = "bind" /\ e.token = t => \A o \in Listed(ui) : ~(o.op = "bind" /\ o.token = t)
    BY <1>1 DEF Binding
  <2> QED BY <1>1, <1>2, <2>1, OrderOfAppended
<1>6. GuidTypes'
  BY <1>3 DEF GuidInv, GuidTypes, Written
<1>7. CounterRight'
  BY DEF GuidInv, CounterRight, Written, Gone
<1>8. PlacesRight'
  BY DEF GuidInv, PlacesRight, Written, Gone, Performing, Alive
<1>9. OwnersRight'
  <2>1. Known(e.token)' /\ Owned(e.token, e.guid)'
    BY <1>1 DEF Known, Owned
  <2>2. \A o \in Listed(ui) : Known(o.token)' /\ (o.op = "bind" => Owned(o.token, o.guid)')
    BY DEF GuidInv, OwnersRight, Known, Owned
  <2> QED BY <1>3, <2>1, <2>2 DEF GuidInv, OwnersRight, Known, Owned
<1>10. ASSUME NEW q \in Requests, Alone(q)' PROVE RequestRight(q)'
  <2>1. Alone(q) /\ RequestRight(q) /\ token[q]' = token[q]
    BY <1>10 DEF GuidInv, Alone
  <2>2. q # r => token[q] # token[r]
    BY <2>1 DEF Alone
  <2>3. Alive(q)' <=> Alive(q)
    BY DEF Alive, Performing
  <2>4. BoundOnce(q)'
    BY <1>1, <1>4, <1>5, <2>1, <2>2 DEF RequestRight, BoundOnce
  <2>5. WillBeCancelled(q)'
    BY <1>1, <1>4, <2>1, <2>2, <2>3 DEF RequestRight, WillBeCancelled
  <2>6. RemovedRight(q)'
    BY <1>4, <2>1, <2>3 DEF RequestRight, RemovedRight
  <2>7. WillBeRemoved(q)'
    BY <1>1, <1>4, <2>1, <2>2, <2>3 DEF RequestRight, WillBeRemoved
  <2> QED BY <2>4, <2>5, <2>6, <2>7 DEF RequestRight
<1>11. Guids!OnlyItsOwn'
  BY DEF GuidInv, Guids!OnlyItsOwn, Guids!Shared
<1> QED BY <1>6, <1>7, <1>8, <1>9, <1>10, <1>11 DEF GuidInv

\* bindRequestToGuid's runnable.
LEMMA RunBindKeeps == ASSUME GuidInv, Guids!RunBind PROVE GuidInv'
<1> USE DEF Guids!RunBind, Guids!tokens, Guids!stageVars, Guids!uiVars
<1>0. PICK h, t, g : h = Head(ui) /\ t = Head(ui).token /\ g = Head(ui).guid
  OBVIOUS
<1>1. ui \in Seq(UiOps) /\ ui # <<>> /\ h.op = "bind" /\ ui' = Tail(ui)
  BY <1>0 DEF GuidInv, GuidTypes
<1>2. h \in UiOps /\ Listed(ui) = {h} \cup Listed(ui') /\ ui' \in Seq(UiOps)
  BY <1>0, <1>1, ListedTail, HeadTaken
<1>3. t \in Guids!Tokens /\ g \in Screens /\ Binding(t) /\ Owned(t, g) /\ t = h.token
  BY <1>0, <1>1, <1>2 DEF UiOps, Binding, GuidInv, OwnersRight
<1>4. \A x : BindsOnce(ui, x) => /\ BindsOnce(ui', x)
                                 /\ x = t => \A o \in Listed(ui') : o.op = "bind" => o.token # x
  BY <1>0, <1>1, <1>3, OrderOfTail
<1>5. \A x : (Binding(x)' => Binding(x)) /\ (Binding(x) => Binding(x)' \/ x = t) /\ (Removing(x)' <=> Removing(x))
  BY <1>1, <1>2, <1>3 DEF Binding, Removing
<1>6. \/ g \in closed /\ late' = late \cup {t} /\ UNCHANGED Guids!uiVars
      \/ /\ g \notin closed /\ late' = late
         /\ requestsByGuids' = [requestsByGuids EXCEPT ![g] = Append(@, t)]
         /\ requestsByClass' = [requestsByClass EXCEPT ![t] = {g}]
  BY <1>0 DEF Guids!RunBind
<1>7. /\ requestsByGuids \in [Screens -> Seq(Guids!Tokens)]
      /\ requestsByClass \in [Guids!Tokens -> SUBSET Screens]
  BY DEF GuidInv, GuidTypes
<1>8. /\ requestsByGuids' \in [Screens -> Seq(Guids!Tokens)]
      /\ requestsByClass' \in [Guids!Tokens -> SUBSET Screens]
      /\ \A s \in closed : requestsByGuids'[s] = requestsByGuids[s]
      /\ \A s \in Screens : s # g => requestsByGuids'[s] = requestsByGuids[s]
      /\ \A x \in Guids!Tokens : x # t => requestsByClass'[x] = requestsByClass[x]
  <2>1. Append(requestsByGuids[g], t) \in Seq(Guids!Tokens)
    BY <1>3, <1>7, Appended
  <2>2. CASE g \in closed
    BY <1>6, <1>7, <2>2 DEF Guids!uiVars
  <2>3. CASE g \notin closed
    <3>1. /\ requestsByGuids' = [requestsByGuids EXCEPT ![g] = Append(@, t)]
          /\ requestsByClass' = [requestsByClass EXCEPT ![t] = {g}]
      BY <1>6, <2>3
    <3>2. requestsByGuids' \in [Screens -> Seq(Guids!Tokens)]
      BY <1>3, <1>7, <2>1, <3>1
    <3>3. requestsByClass' \in [Guids!Tokens -> SUBSET Screens]
      BY <1>3, <1>7, <3>1
    <3>4. \A s \in Screens : s # g => requestsByGuids'[s] = requestsByGuids[s]
      BY <1>7, <3>1
    <3>5. \A x \in Guids!Tokens : x # t => requestsByClass'[x] = requestsByClass[x]
      BY <1>7, <3>1
    <3>6. closed \subseteq Screens
      BY DEF GuidInv, GuidTypes
    <3> QED BY <2>3, <3>2, <3>3, <3>4, <3>5, <3>6
  <2> QED BY <2>2, <2>3
<1>9. g \notin closed =>
        /\ requestsByGuids'[g] = Append(requestsByGuids[g], t)
        /\ Listed(requestsByGuids'[g]) = Listed(requestsByGuids[g]) \cup {t}
        /\ requestsByClass'[t] = {g}
  <2>1. SUFFICES ASSUME g \notin closed
                 PROVE  /\ requestsByGuids'[g] = Append(requestsByGuids[g], t)
                        /\ Listed(requestsByGuids'[g]) = Listed(requestsByGuids[g]) \cup {t}
                        /\ requestsByClass'[t] = {g}
    OBVIOUS
  <2>2. requestsByGuids'[g] = Append(requestsByGuids[g], t) /\ requestsByClass'[t] = {g}
    BY <1>3, <1>6, <1>7, <2>1
  <2>3. requestsByGuids[g] \in Seq(Guids!Tokens)
    BY <1>3, <1>7
  <2>4. Listed(Append(requestsByGuids[g], t)) = Listed(requestsByGuids[g]) \cup {t}
    BY <1>3, <2>3, ListedAppended
  <2> QED BY <2>2, <2>4
<1>10. g \in closed => late' = late \cup {t} /\ requestsByGuids' = requestsByGuids /\ requestsByClass' = requestsByClass
  BY <1>6
<1>10a. g \notin closed => late' = late
  BY <1>6
<1>11. \A s \in Screens : /\ Listed(requestsByGuids[s]) \subseteq Listed(requestsByGuids'[s])
                          /\ Listed(requestsByGuids'[s]) \subseteq Listed(requestsByGuids[s]) \cup {t}
                          /\ s # g => Listed(requestsByGuids'[s]) = Listed(requestsByGuids[s])
  BY <1>8, <1>9, <1>10
<1>12. GuidTypes'
  BY <1>2, <1>8 DEF GuidInv, GuidTypes, Written
<1>13. CounterRight'
  BY DEF GuidInv, CounterRight, Written, Gone
<1>14. PlacesRight'
  BY DEF GuidInv, PlacesRight, Written, Gone, Performing, Alive
<1>15. OwnersRight'
  <2>1. \A x, s : (Owned(x, s)' <=> Owned(x, s)) /\ (Known(x)' <=> Known(x))
    BY DEF Owned, Known
  <2>2. \A o \in Listed(ui') : Known(o.token)' /\ (o.op = "bind" => Owned(o.token, o.guid)')
    BY <1>2, <2>1 DEF GuidInv, OwnersRight
  <2>3. \A s \in Screens : \A x \in Listed(requestsByGuids'[s]) : Owned(x, s)'
    <3> SUFFICES ASSUME NEW s \in Screens, NEW x \in Listed(requestsByGuids'[s]) PROVE Owned(x, s)
      BY <2>1
    <3>1. CASE x \in Listed(requestsByGuids[s])
      BY <3>1 DEF GuidInv, OwnersRight
    <3>2. CASE x \notin Listed(requestsByGuids[s])
      <4>1. s = g /\ x = t
        BY <1>11, <3>2
      <4> QED BY <1>3, <4>1
    <3> QED BY <3>1, <3>2
  <2>4. \A x \in Guids!Tokens : requestsByClass'[x] # {} => Known(x)'
    <3>1. Known(t)
      BY <1>3 DEF Known, Owned
    <3> QED BY <1>8, <2>1, <3>1 DEF GuidInv, OwnersRight
  <2>5. \A o \in Listed(stage') : o.op = "cancel" => Owned(o.token, o.guid)' /\ o.guid \in closed'
    BY <2>1 DEF GuidInv, OwnersRight
  <2> QED BY <2>2, <2>3, <2>4, <2>5 DEF OwnersRight
<1>16. ASSUME NEW q \in Requests, Alone(q)' PROVE RequestRight(q)'
  <2> DEFINE x == token[q]
             s == Screen[q]
  <2>1. Alone(q) /\ RequestRight(q) /\ token' = token /\ unbound' = unbound /\ token[q] \in Guids!Tokens
    BY <1>16 DEF GuidInv, Alone, GuidTypes
  <2>2. s \in Screens
    BY BookkeepingAssumption DEF Guids!ScreenAssumption
  <2>3. x = t => s = g
    <3> SUFFICES ASSUME x = t PROVE s = g
      OBVIOUS
    <3>1. PICK p \in Requests : token[p] = t /\ Screen[p] = g
      BY <1>3 DEF Owned
    <3> QED BY <2>1, <3>1 DEF Alone
  <2>4. Alive(q)' <=> Alive(q)
    BY DEF Alive, Performing
  <2>5. /\ q \in unbound => ~Binding(x)
        /\ q \in unbound \/ Binding(x) => x \notin Listed(requestsByGuids[s]) /\ requestsByClass[x] = {}
        /\ BindsOnce(ui, x) /\ Once(requestsByGuids[s], x)
        /\ x \in Listed(requestsByGuids[s]) => requestsByClass[x] = {s}
    BY <2>1 DEF RequestRight, BoundOnce
  <2>6. CASE x # t
    <3>1. /\ x \in Listed(requestsByGuids'[s]) <=> x \in Listed(requestsByGuids[s])
          /\ requestsByClass'[x] = requestsByClass[x] /\ (Binding(x)' <=> Binding(x))
      BY <1>5, <1>8, <1>11, <2>1, <2>2, <2>6
    <3>2. Once(requestsByGuids'[s], x)
      <4>1. CASE requestsByGuids'[s] = requestsByGuids[s]
        BY <2>5, <4>1
      <4>2. CASE s = g /\ g \notin closed
        <5> DEFINE l == requestsByGuids[g]
        <5>1. l \in Seq(Guids!Tokens)
          BY <1>7, <2>2, <4>2
        <5> HIDE DEF l
        <5>2. /\ Len(l) \in Nat /\ DOMAIN l = 1..Len(l) /\ DOMAIN Append(l, t) = 1..(Len(l) + 1)
              /\ Append(l, t)[Len(l) + 1] = t /\ \A i \in 1..Len(l) : Append(l, t)[i] = l[i]
          BY <1>3, <5>1, Appended
        <5>3. \A i \in DOMAIN Append(l, t) : Append(l, t)[i] = x => i \in DOMAIN l /\ l[i] = x
          BY <2>6, <5>2
        <5>4. Once(l, x)
          BY <2>5, <4>2 DEF l
        <5>5. Once(Append(l, t), x)
          BY <5>3, <5>4 DEF Once
        <5> QED BY <1>9, <4>2, <5>5 DEF l
      <4> QED BY <1>8, <1>10, <2>2, <4>1, <4>2
    <3>3. BoundOnce(q)'
      BY <1>4, <2>1, <2>5, <3>1, <3>2 DEF BoundOnce
    <3>4. WillBeCancelled(q)'
      BY <1>10, <1>10a, <2>1, <2>4, <3>1 DEF RequestRight, WillBeCancelled
    <3>5. RemovedRight(q)' /\ WillBeRemoved(q)'
      BY <1>5, <2>1, <2>4, <3>1 DEF RequestRight, RemovedRight, WillBeRemoved
    <3> QED BY <3>3, <3>4, <3>5 DEF RequestRight
  <2>7. CASE x = t
    <3>1. /\ s = g /\ q \notin unbound /\ x \notin Listed(requestsByGuids[g]) /\ requestsByClass[x] = {}
      BY <1>3, <2>3, <2>5, <2>7
    <3>2. BindsOnce(ui', x) /\ ~Binding(x)'
      BY <1>4, <2>5, <2>7 DEF Binding
    <3>3. CASE g \in closed
      <4>1. BoundOnce(q)'
        BY <1>10, <2>1, <2>5, <3>1, <3>2, <3>3 DEF BoundOnce
      <4>2. WillBeCancelled(q)'
        BY <1>10, <2>1, <2>7, <3>3 DEF WillBeCancelled
      <4>3. RemovedRight(q)' /\ WillBeRemoved(q)'
        BY <1>5, <2>1, <2>4, <3>1, <3>3 DEF RequestRight, RemovedRight, WillBeRemoved
      <4> QED BY <4>1, <4>2, <4>3 DEF RequestRight
    <3>4. CASE g \notin closed
      <4>1. x \in Listed(requestsByGuids'[s]) /\ requestsByClass'[x] = {s}
        BY <1>9, <2>7, <3>1, <3>4
      <4>2. Once(requestsByGuids'[s], x)
        <5> DEFINE l == requestsByGuids[g]
        <5>1. l \in Seq(Guids!Tokens)
          BY <1>7, <2>2, <3>1
        <5> HIDE DEF l
        <5>2. /\ Len(l) \in Nat /\ DOMAIN l = 1..Len(l) /\ DOMAIN Append(l, t) = 1..(Len(l) + 1)
              /\ Append(l, t)[Len(l) + 1] = t /\ \A i \in 1..Len(l) : Append(l, t)[i] = l[i]
          BY <1>3, <5>1, Appended
        <5>3. \A i \in DOMAIN l : l[i] # x
          BY <3>1 DEF Listed, l
        <5>4. \A i \in DOMAIN Append(l, t) : Append(l, t)[i] = x => i = Len(l) + 1
          BY <5>2, <5>3
        <5>5. Once(Append(l, t), x)
          BY <5>4 DEF Once
        <5> QED BY <1>9, <3>1, <3>4, <5>5 DEF l
      <4>3. BoundOnce(q)'
        BY <2>1, <3>1, <3>2, <4>1, <4>2 DEF BoundOnce
      <4>4. WillBeCancelled(q)'
        BY <2>1, <4>1 DEF WillBeCancelled
      <4>5. RemovedRight(q)'
        BY <1>5, <2>1, <2>4 DEF RequestRight, RemovedRight
      <4>6. WillBeRemoved(q)'
        BY <1>3, <1>5, <2>1, <2>4, <2>7 DEF RequestRight, WillBeRemoved
      <4> QED BY <4>3, <4>4, <4>5, <4>6 DEF RequestRight
    <3> QED BY <3>3, <3>4
  <2> QED BY <2>6, <2>7
<1>17. Guids!OnlyItsOwn'
  BY DEF GuidInv, Guids!OnlyItsOwn, Guids!Shared
<1> QED BY <1>12, <1>13, <1>14, <1>15, <1>16, <1>17 DEF GuidInv

\* removeRequestInClass's runnable.
LEMMA RunRemoveKeeps == ASSUME GuidInv, Guids!RunRemove PROVE GuidInv'
<1> USE DEF Guids!RunRemove, Guids!tokens, Guids!stageVars
<1>0. PICK h, t : h = Head(ui) /\ t = Head(ui).token
  OBVIOUS
<1>1. ui \in Seq(UiOps) /\ ui # <<>> /\ h.op = "remove" /\ ui' = Tail(ui)
  BY <1>0 DEF GuidInv, GuidTypes
<1>2. h \in UiOps /\ Listed(ui) = {h} \cup Listed(ui') /\ ui' \in Seq(UiOps)
  BY <1>0, <1>1, ListedTail, HeadTaken
<1>3. t \in Guids!Tokens /\ Removing(t) /\ t = h.token
  BY <1>0, <1>1, <1>2 DEF UiOps, Removing
<1>4. \A x : BindsOnce(ui, x) => BindsOnce(ui', x)
  BY <1>1, OrderOfTail
<1>5. \A x : (Binding(x)' <=> Binding(x)) /\ (Removing(x)' => Removing(x)) /\ (Removing(x) => Removing(x)' \/ x = t)
  BY <1>1, <1>2, <1>3 DEF Binding, Removing
<1>6. /\ requestsByGuids' = [s \in Screens |-> IF s \in requestsByClass[t] \ closed
                                               THEN Guids!WithoutFirst(requestsByGuids[s], t)
                                               ELSE requestsByGuids[s]]
      /\ early' = IF requestsByClass[t] = {} THEN early \cup {t} ELSE early
      /\ UNCHANGED <<requestsByClass, closed, late, loosed, cancelled, answered>>
  BY <1>0
<1>7. /\ requestsByGuids \in [Screens -> Seq(Guids!Tokens)]
      /\ requestsByClass \in [Guids!Tokens -> SUBSET Screens]
  BY DEF GuidInv, GuidTypes
<1>8. ASSUME NEW s \in Screens
      PROVE  /\ requestsByGuids'[s] \in Seq(Guids!Tokens)
             /\ Listed(requestsByGuids'[s]) \subseteq Listed(requestsByGuids[s])
             /\ \A x : x # t => (x \in Listed(requestsByGuids'[s]) <=> x \in Listed(requestsByGuids[s]))
             /\ \A x : Once(requestsByGuids[s], x) => Once(requestsByGuids'[s], x)
             /\ s \in requestsByClass[t] \ closed /\ Once(requestsByGuids[s], t) =>
                  t \notin Listed(requestsByGuids'[s])
             /\ s \in closed => requestsByGuids'[s] = requestsByGuids[s]
  <2>1. requestsByGuids[s] \in Seq(Guids!Tokens)
    BY <1>7
  <2>2. CASE s \in requestsByClass[t] \ closed
    <3>1. requestsByGuids'[s] = Guids!WithoutFirst(requestsByGuids[s], t)
      BY <1>6, <2>2
    <3> QED BY <2>1, <2>2, <3>1, WithoutFirstIs
  <2>3. CASE s \notin requestsByClass[t] \ closed
    <3>1. requestsByGuids'[s] = requestsByGuids[s]
      BY <1>6, <2>3
    <3> QED BY <2>1, <2>3, <3>1
  <2> QED BY <2>2, <2>3
<1>9. GuidTypes'
  <2>1. requestsByGuids' \in [Screens -> Seq(Guids!Tokens)]
    BY <1>6, <1>8
  <2>2. \A s \in closed : requestsByGuids'[s] = <<>>
    BY <1>8 DEF GuidInv, GuidTypes
  <2> QED BY <1>2, <1>6, <2>1, <2>2 DEF GuidInv, GuidTypes, Written
<1>10. CounterRight'
  BY DEF GuidInv, CounterRight, Written, Gone
<1>11. PlacesRight'
  BY DEF GuidInv, PlacesRight, Written, Gone, Performing, Alive
<1>12. OwnersRight'
  <2>1. \A x, s : (Owned(x, s)' <=> Owned(x, s)) /\ (Known(x)' <=> Known(x))
    BY DEF Owned, Known
  <2>2. \A o \in Listed(ui') : Known(o.token)' /\ (o.op = "bind" => Owned(o.token, o.guid)')
    BY <1>2, <2>1 DEF GuidInv, OwnersRight
  <2>3. \A s \in Screens : \A x \in Listed(requestsByGuids'[s]) : Owned(x, s)'
    BY <1>8, <2>1 DEF GuidInv, OwnersRight
  <2> QED BY <1>6, <2>1, <2>2, <2>3 DEF GuidInv, OwnersRight
<1>13. ASSUME NEW q \in Requests, Alone(q)' PROVE RequestRight(q)'
  <2>0. PICK x, s : x = token[q] /\ s = Screen[q]
    OBVIOUS
  <2>1. Alone(q) /\ RequestRight(q) /\ token' = token /\ unbound' = unbound
    BY <1>13 DEF GuidInv, Alone, GuidTypes
  <2>2. s \in Screens
    BY <2>0, BookkeepingAssumption DEF Guids!ScreenAssumption
  <2>3. Alive(q)' <=> Alive(q)
    BY DEF Alive, Performing
  <2>4. /\ q \in unbound => ~Binding(x)
        /\ q \in unbound \/ Binding(x) => x \notin Listed(requestsByGuids[s]) /\ requestsByClass[x] = {}
        /\ BindsOnce(ui, x) /\ Once(requestsByGuids[s], x)
        /\ x \in Listed(requestsByGuids[s]) => requestsByClass[x] = {s}
    BY <2>0, <2>1 DEF RequestRight, BoundOnce
  <2>5. BoundOnce(q)'
    <3>1. /\ Once(requestsByGuids'[s], x)
          /\ x \in Listed(requestsByGuids'[s]) => x \in Listed(requestsByGuids[s])
      BY <1>8, <2>2, <2>4
    <3> QED BY <1>4, <1>5, <1>6, <2>0, <2>1, <2>4, <3>1 DEF BoundOnce
  <2>6. RemovedRight(q)'
    BY <1>5, <1>6, <2>1, <2>3 DEF RequestRight, RemovedRight
  <2>7. CASE x # t
    <3>1. x \in Listed(requestsByGuids'[s]) <=> x \in Listed(requestsByGuids[s])
      BY <1>8, <2>2, <2>7
    <3>2. WillBeCancelled(q)'
      BY <1>5, <1>6, <2>0, <2>1, <2>3, <3>1 DEF RequestRight, WillBeCancelled
    <3>3. WillBeRemoved(q)'
      BY <1>5, <1>6, <2>0, <2>1, <2>3, <2>7, <3>1 DEF RequestRight, WillBeRemoved
    <3> QED BY <2>5, <2>6, <3>2, <3>3 DEF RequestRight
  <2>8. CASE x = t
    <3>1. WillBeCancelled(q)'
      <4>1. Alive(q) => x \in loosed
        BY <1>3, <2>0, <2>1, <2>8 DEF RequestRight, RemovedRight
      <4> QED BY <1>6, <2>0, <2>1, <2>3, <4>1 DEF WillBeCancelled
    <3>2. WillBeRemoved(q)'
      <4>1. CASE requestsByClass[x] = {}
        BY <1>6, <2>0, <2>1, <2>8, <4>1 DEF WillBeRemoved
      <4>2. CASE requestsByClass[x] # {} /\ s \notin closed
        <5>1. x \notin Listed(requestsByGuids'[s])
          BY <1>8, <2>2, <2>4, <2>8, <4>2
        <5>2. q \notin unbound /\ ~Binding(x)'
          BY <1>5, <2>4, <4>2
        <5> QED BY <2>0, <2>1, <5>1, <5>2 DEF WillBeRemoved
      <4>3. CASE s \in closed
        BY <1>6, <2>0, <4>3 DEF WillBeRemoved
      <4> QED BY <4>1, <4>2, <4>3
    <3> QED BY <2>5, <2>6, <3>1, <3>2 DEF RequestRight
  <2> QED BY <2>7, <2>8
<1>14. Guids!OnlyItsOwn'
  BY DEF GuidInv, Guids!OnlyItsOwn, Guids!Shared
<1> QED BY <1>9, <1>10, <1>11, <1>12, <1>13, <1>14 DEF GuidInv

\* cancelRpcsForClassGuid: a cancellation for each token of the screen.
LEMMA CloseKeeps == ASSUME GuidInv, NEW g \in Screens, Guids!Close(g) PROVE GuidInv'
<1> USE DEF Guids!Close, Guids!tokens, Guids!stageVars
<1>0. PICK ts, u : ts = requestsByGuids[g] /\ u = Guids!Cancels(ts, g)
  OBVIOUS
<1>1. /\ requestsByGuids \in [Screens -> Seq(Guids!Tokens)] /\ stage \in Seq(StageOps)
      /\ ts \in Seq(Guids!Tokens) /\ stage' = stage \o u /\ closed' = closed \cup {g}
      /\ requestsByGuids' = [requestsByGuids EXCEPT ![g] = <<>>]
  BY <1>0 DEF GuidInv, GuidTypes
<1>2. u \in Seq(StageOps)
  <2>1. \A i \in 1..Len(ts) : [op |-> "cancel", token |-> ts[i], guid |-> g] \in StageOps
    BY <1>1 DEF StageOps
  <2>2. Len(ts) \in Nat
    BY <1>1
  <2> QED BY <1>0, <2>1, <2>2 DEF Guids!Cancels
<1>3. /\ \A o \in Listed(u) : o.op = "cancel" /\ o.guid = g /\ o.token \in Listed(ts)
      /\ \A t \in Listed(ts) : \E o \in Listed(u) : o.op = "cancel" /\ o.token = t
  <2>1. DOMAIN ts = 1..Len(ts) /\ DOMAIN u = 1..Len(ts)
    BY <1>0, <1>1 DEF Guids!Cancels
  <2>2. \A i \in DOMAIN ts : u[i].op = "cancel" /\ u[i].token = ts[i] /\ u[i].guid = g
    BY <1>0, <2>1 DEF Guids!Cancels
  <2> QED BY <2>1, <2>2 DEF Listed
<1>4. stage' \in Seq(StageOps) /\ Listed(stage') = Listed(stage) \cup Listed(u)
  BY <1>1, <1>2, ListedJoined
<1>5. /\ PerformsOnce(stage) => PerformsOnce(stage')
      /\ \A t, q : CancelFollows(stage, t, q) => CancelFollows(stage', t, q)
      /\ \A t \in Listed(ts) : \A q : CancelFollows(stage', t, q)
  <2>1. (\A o \in Listed(u) : o.op # "perform") /\ \A q : \A o \in Listed(u) : ~(o.op = "perform" /\ o.r = q)
    BY <1>3
  <2>2. PerformsOnce(stage) => PerformsOnce(stage \o u)
    BY <1>1, <1>2, <2>1, OrderOfJoined
  <2>3. ASSUME NEW t, NEW q, CancelFollows(stage, t, q) PROVE CancelFollows(stage \o u, t, q)
    BY <1>1, <1>2, <2>1, <2>3, OrderOfJoined
  <2>4. \A t, q : (\E o \in Listed(u) : o.op = "cancel" /\ o.token = t) => CancelFollows(stage', t, q)
    BY <1>1, <1>2, <2>1, OrderOfJoined
  <2> QED BY <1>1, <1>3, <2>2, <2>3, <2>4
<1>6. \A q : (Performing(q)' <=> Performing(q)) /\ (Alive(q)' <=> Alive(q))
  BY <1>3, <1>4 DEF Performing, Alive
<1>7. /\ requestsByGuids' \in [Screens -> Seq(Guids!Tokens)] /\ requestsByGuids'[g] = <<>>
      /\ \A s \in Screens : s # g => requestsByGuids'[s] = requestsByGuids[s]
      /\ Listed(requestsByGuids'[g]) = {}
  <2>1. <<>> \in Seq(Guids!Tokens) /\ Listed(<<>>) = {}
    BY DEF Listed
  <2> QED BY <1>1, <2>1
<1>8. GuidTypes'
  BY <1>1, <1>4, <1>7 DEF GuidInv, GuidTypes, Written
<1>9. CounterRight'
  BY DEF GuidInv, CounterRight, Written, Gone
<1>10. PlacesRight'
  BY <1>5, <1>6 DEF GuidInv, PlacesRight, Written, Gone
<1>11. OwnersRight'
  <2>1. \A x, s : (Owned(x, s)' <=> Owned(x, s)) /\ (Known(x)' <=> Known(x))
    BY DEF Owned, Known
  <2>2. \A s \in Screens : \A x \in Listed(requestsByGuids'[s]) : Owned(x, s)'
    BY <1>7, <2>1 DEF GuidInv, OwnersRight
  <2>3. ASSUME NEW o \in Listed(stage'), o.op = "cancel" PROVE Owned(o.token, o.guid)' /\ o.guid \in closed'
    <3>1. CASE o \in Listed(stage)
      BY <1>1, <2>1, <2>3, <3>1 DEF GuidInv, OwnersRight
    <3>2. CASE o \in Listed(u)
      BY <1>0, <1>1, <1>3, <2>1, <3>2 DEF GuidInv, OwnersRight
    <3> QED BY <1>4, <3>1, <3>2
  <2> QED BY <2>1, <2>2, <2>3 DEF GuidInv, OwnersRight
<1>12. ASSUME NEW q \in Requests, Alone(q)' PROVE RequestRight(q)'
  <2>0. PICK x, s : x = token[q] /\ s = Screen[q]
    OBVIOUS
  <2>1. Alone(q) /\ RequestRight(q) /\ token' = token /\ unbound' = unbound /\ requestsByClass' = requestsByClass
    BY <1>12 DEF GuidInv, Alone
  <2>2. s \in Screens
    BY <2>0, BookkeepingAssumption DEF Guids!ScreenAssumption
  <2>3. \A t : (Binding(t)' <=> Binding(t)) /\ (Removing(t)' <=> Removing(t))
    BY DEF Binding, Removing
  <2>4. /\ Listed(requestsByGuids'[s]) = IF s = g THEN {} ELSE Listed(requestsByGuids[s])
        /\ Once(requestsByGuids[s], x) => Once(requestsByGuids'[s], x)
    <3>1. CASE s = g
      <4>1. Once(<<>>, x)
        BY DEF Once
      <4> QED BY <1>7, <3>1, <4>1
    <3>2. CASE s # g
      BY <1>7, <2>2, <3>2
    <3> QED BY <3>1, <3>2
  <2>5. BoundOnce(q)'
    BY <2>0, <2>1, <2>3, <2>4 DEF RequestRight, BoundOnce
  <2>6. WillBeCancelled(q)'
    <3>1. x \in Listed(requestsByGuids[s]) => x \in Listed(requestsByGuids'[s]) \/ CancelFollows(stage', x, q)
      BY <1>0, <1>5, <2>4
    <3> QED BY <1>5, <1>6, <2>0, <2>1, <2>3, <3>1 DEF RequestRight, WillBeCancelled
  <2>7. RemovedRight(q)'
    BY <1>6, <2>1, <2>3 DEF RequestRight, RemovedRight
  <2>8. WillBeRemoved(q)'
    BY <1>1, <1>6, <2>0, <2>1, <2>3, <2>4 DEF RequestRight, WillBeRemoved
  <2> QED BY <2>5, <2>6, <2>7, <2>8 DEF RequestRight
<1>13. Guids!OnlyItsOwn'
  BY DEF GuidInv, Guids!OnlyItsOwn, Guids!Shared
<1> QED BY <1>8, <1>9, <1>10, <1>11, <1>12, <1>13 DEF GuidInv

\* cancelRpc's runnable: the first queued and the first running request with the
\* token go.
LEMMA RunCancelKeeps == ASSUME GuidInv, Guids!RunCancel PROVE GuidInv'
<1> USE DEF Guids!RunCancel, Guids!uiVars
<1>0. PICK h, t, g, sent, gone :
        /\ h = Head(stage) /\ t = h.token /\ g = h.guid
        /\ sent = Guids!FirstWith(running, t) /\ gone = Guids!FirstWith(waiting, t) \cup sent
  OBVIOUS
<1>1. /\ stage \in Seq(StageOps) /\ stage # <<>> /\ h.op = "cancel" /\ stage' = Tail(stage)
      /\ waiting \in Seq(Requests) /\ running \in Seq(Requests)
  BY <1>0 DEF GuidInv, GuidTypes
<1>2. /\ waiting' = Guids!Without(waiting, gone) /\ running' = Guids!Without(running, gone)
      /\ cancelled' = cancelled \cup { <<r, g>> : r \in gone }
      /\ nextCallToken' = IF sent # {} THEN nextCallToken + 1 ELSE nextCallToken
      /\ UNCHANGED <<read, token, unbound, ui, requestsByGuids, requestsByClass, closed, answered,
                     loosed, late, early>>
  BY <1>0
<1>3. h \in StageOps /\ Listed(stage) = {h} \cup Listed(stage') /\ stage' \in Seq(StageOps)
  BY <1>0, <1>1, ListedTail, HeadTaken
<1>4. t \in Guids!Tokens /\ g \in Screens /\ Owned(t, g) /\ g \in closed
  BY <1>0, <1>1, <1>3 DEF StageOps, GuidInv, OwnersRight
<1>5. /\ \A r \in gone : r \in Requests /\ token[r] = t /\ r \in Listed(waiting) \cup Listed(running)
      /\ \A r \in sent : r \in gone
      /\ \A r \in Listed(waiting) \cup Listed(running) : Alone(r) /\ token[r] = t => r \in gone
  BY <1>0, <1>1, FirstIs
<1>6. /\ waiting' \in Seq(Requests) /\ Listed(waiting') = Listed(waiting) \ gone
      /\ running' \in Seq(Requests) /\ Listed(running') = Listed(running) \ gone
      /\ Distinct(waiting')
  <2>1. Distinct(waiting)
    BY DEF GuidInv, PlacesRight
  <2>2. waiting' \in Seq(Requests) /\ Listed(waiting') = Listed(waiting) \ gone /\ Distinct(waiting')
    BY <1>1, <1>2, <2>1, WithoutIs
  <2>3. running' \in Seq(Requests) /\ Listed(running') = Listed(running) \ gone
    BY <1>1, <1>2, WithoutIs
  <2> QED BY <2>2, <2>3
<1>7. /\ PerformsOnce(stage) => PerformsOnce(stage')
      /\ \A x, q : CancelFollows(stage, x, q) =>
           \/ x = t /\ ~Performing(q)
           \/ CancelFollows(stage', x, q)
  BY <1>0, <1>1, OrderOfTail DEF Performing
<1>8. \A q : Performing(q)' <=> Performing(q)
  BY <1>1, <1>3 DEF Performing
<1>9. \A q \in Requests : Alive(q)' <=> Alive(q) /\ q \notin gone
  BY <1>5, <1>6, <1>8 DEF Alive, GuidInv, PlacesRight
<1>10. Gone' = Gone \cup gone /\ Written' = Written
  <2>1. \A q \in Requests : q \in Gone' <=> q \in Gone \/ q \in gone
    BY <1>2, <1>4 DEF Gone
  <2> QED BY <1>2, <1>5, <2>1 DEF Gone, Written
<1>11. nextCallToken' \in Nat \ {0}
  BY <1>2 DEF GuidInv, GuidTypes
<1>12. GuidTypes'
  <2>1. cancelled' \subseteq Requests \X Screens
    BY <1>2, <1>4, <1>5 DEF GuidInv, GuidTypes
  <2>2. unbound' \subseteq Written'
    BY <1>2, <1>10 DEF GuidInv, GuidTypes
  <2> QED BY <1>2, <1>3, <1>6, <1>11, <2>1, <2>2 DEF GuidInv, GuidTypes
<1>13. CounterRight'
  <2>1. IsFiniteSet(Requests)
    BY BookkeepingAssumption DEF Guids!ScreenAssumption, Guids!IsFiniteSet, IsFiniteSet
  <2>2. IsFiniteSet(Written) /\ IsFiniteSet(Gone) /\ IsFiniteSet(Gone')
    <3>1. Written \subseteq Requests /\ Gone \subseteq Requests /\ Gone' \subseteq Requests
      BY <1>5, <1>10 DEF Written, Gone
    <3> QED BY <2>1, <3>1, FS_Subset
  <2>3. Cardinality(Written) \in Nat /\ Cardinality(Gone) \in Nat /\ Cardinality(Gone') \in Nat
    BY <2>2, FS_CardinalityType
  <2>4. Cardinality(Gone) <= Cardinality(Gone')
    BY <1>10, <2>2, FS_Subset
  <2>5. sent # {} => Cardinality(Gone) + 1 <= Cardinality(Gone')
    <3>1. SUFFICES ASSUME sent # {} PROVE Cardinality(Gone) + 1 <= Cardinality(Gone')
      OBVIOUS
    <3>2. PICK r \in sent : TRUE
      BY <3>1
    <3>3. r \in gone /\ r \in Requests /\ Alive(r)
      BY <1>5, <3>2 DEF Alive
    <3>4. r \notin Gone
      BY <3>3 DEF GuidInv, PlacesRight
    <3>5. Cardinality(Gone \cup {r}) = Cardinality(Gone) + 1
      BY <2>2, <3>4, FS_AddElement
    <3>6. Cardinality(Gone \cup {r}) <= Cardinality(Gone')
      <4>1. Gone \cup {r} \subseteq Gone'
        BY <1>10, <3>3
      <4> QED BY <2>2, <4>1, FS_Subset
    <3> QED BY <3>5, <3>6
  <2>6. nextCallToken \in Nat /\ nextCallToken <= Cardinality(Written) + Cardinality(Gone) + 1
    BY DEF GuidInv, GuidTypes, CounterRight
  <2>7. nextCallToken' <= Cardinality(Written) + Cardinality(Gone') + 1
    <3>1. CASE sent = {}
      <4>1. nextCallToken' = nextCallToken
        BY <1>2, <3>1
      <4> QED BY <2>3, <2>4, <2>6, <4>1
    <3>2. CASE sent # {}
      <4>1. nextCallToken' = nextCallToken + 1
        BY <1>2, <3>2
      <4> QED BY <2>3, <2>5, <2>6, <3>2, <4>1
    <3> QED BY <3>1, <3>2
  <2>8. \A r \in Requests : token[r] = 0 => read[r] <= Cardinality(Written) + Cardinality(Gone') + 1
    <3> SUFFICES ASSUME NEW r \in Requests, token[r] = 0
                 PROVE  read[r] <= Cardinality(Written) + Cardinality(Gone') + 1
      OBVIOUS
    <3>1. read[r] <= Cardinality(Written) + Cardinality(Gone) + 1
      BY DEF GuidInv, CounterRight
    <3>2. read[r] \in Nat
      BY GuidsSelects DEF GuidInv, GuidTypes, Guids!Tokens
    <3> QED BY <2>3, <2>4, <3>1, <3>2
  <2> QED BY <1>2, <1>10, <2>7, <2>8 DEF CounterRight
<1>14. PlacesRight'
  <2>1. PerformsOnce(stage')
    BY <1>7 DEF GuidInv, PlacesRight
  <2>2. \A q \in Requests : Alive(q)' => q \in Written' \ Gone'
    BY <1>9, <1>10 DEF GuidInv, PlacesRight
  <2>3. Gone' \subseteq Written'
    <3>1. \A r \in gone : r \in Written
      BY <1>5 DEF GuidInv, PlacesRight, Alive
    <3> QED BY <1>10, <3>1 DEF GuidInv, PlacesRight
  <2>4. (Listed(waiting) \cap Listed(running) = {})'
    BY <1>6 DEF GuidInv, PlacesRight
  <2>5. \A r \in Requests : Performing(r)' => r \notin Listed(waiting') \cup Listed(running')
    BY <1>6, <1>8 DEF GuidInv, PlacesRight
  <2> QED BY <1>6, <2>1, <2>2, <2>3, <2>4, <2>5 DEF PlacesRight
<1>15. OwnersRight'
  BY <1>2, <1>3 DEF GuidInv, OwnersRight, Owned, Known
<1>16. ASSUME NEW q \in Requests, Alone(q)' PROVE RequestRight(q)'
  <2>0. PICK x : x = token[q]
    OBVIOUS
  <2>1. Alone(q) /\ RequestRight(q) /\ token' = token
    BY <1>2, <1>16 DEF GuidInv, Alone
  <2>2. \A y : (Binding(y)' <=> Binding(y)) /\ (Removing(y)' <=> Removing(y))
    BY <1>2 DEF Binding, Removing
  <2>3. BoundOnce(q)'
    BY <1>2, <2>1, <2>2 DEF RequestRight, BoundOnce
  <2>4. WillBeCancelled(q)'
    <3>1. SUFFICES ASSUME Alive(q)' PROVE WillBeCancelled(q)'
      BY DEF WillBeCancelled
    <3>2. Alive(q) /\ q \notin gone
      BY <1>9, <3>1
    <3>3. CancelFollows(stage, x, q) => CancelFollows(stage', x, q)
      <4>1. x = t => Performing(q)
        BY <1>5, <2>0, <2>1, <3>2 DEF Alive
      <4> QED BY <1>7, <4>1
    <3> QED BY <1>2, <2>0, <2>1, <2>2, <3>2, <3>3 DEF RequestRight, WillBeCancelled
  <2>5. RemovedRight(q)'
    BY <1>2, <1>9, <2>1, <2>2 DEF RequestRight, RemovedRight
  <2>6. WillBeRemoved(q)'
    <3>1. q \in gone => Screen[q] \in closed
      <4>1. SUFFICES ASSUME q \in gone PROVE Screen[q] \in closed
        OBVIOUS
      <4>2. PICK p \in Requests : token[p] = t /\ Screen[p] = g
        BY <1>4 DEF Owned
      <4>3. p = q
        BY <1>5, <2>1, <4>1, <4>2 DEF Alone
      <4> QED BY <1>4, <4>2, <4>3
    <3> QED BY <1>2, <1>9, <2>1, <2>2, <3>1 DEF RequestRight, WillBeRemoved
  <2> QED BY <2>3, <2>4, <2>5, <2>6 DEF RequestRight
<1>17. Guids!OnlyItsOwn'
  <2> SUFFICES ASSUME NEW c \in cancelled' PROVE Screen[c[1]] = c[2] \/ Guids!Shared(c[1])'
    BY DEF Guids!OnlyItsOwn
  <2>1. CASE c \in cancelled
    BY <1>2, <2>1 DEF GuidInv, Guids!OnlyItsOwn, Guids!Shared
  <2>2. CASE c \notin cancelled
    <3>1. PICK r \in gone : c = <<r, g>>
      BY <1>2, <2>2
    <3>2. PICK p \in Requests : token[p] = t /\ Screen[p] = g
      BY <1>4 DEF Owned
    <3>3. r \in Requests /\ token[r] = t /\ t # 0
      BY <1>4, <1>5 DEF Guids!Tokens
    <3>4. p = r \/ Guids!Shared(r)
      BY <3>2, <3>3 DEF Guids!Shared
    <3> QED BY <1>2, <3>1, <3>2, <3>4 DEF Guids!Shared
  <2> QED BY <2>1, <2>2
<1> QED BY <1>12, <1>13, <1>14, <1>15, <1>16, <1>17 DEF GuidInv

\* rpcCompleted's runnable: the request leaves, and all that run lose their binding.
LEMMA RunCompletedKeeps == ASSUME GuidInv, Guids!RunCompleted PROVE GuidInv'
<1> USE DEF Guids!RunCompleted, Guids!uiVars, Guids!tokens
<1>0. PICK h, r, u : h = Head(stage) /\ r = Head(stage).r /\ u = Guids!Removals(running)
  OBVIOUS
<1>1. /\ stage \in Seq(StageOps) /\ stage # <<>> /\ h.op = "completed" /\ stage' = Tail(stage)
      /\ running \in Seq(Requests) /\ ui \in Seq(UiOps) /\ ui' = ui \o u
  BY <1>0 DEF GuidInv, GuidTypes
<1>2. /\ running' = Guids!Without(running, {r})
      /\ loosed' = loosed \cup { token[q] : q \in Listed(running) \ {r} }
      /\ UNCHANGED <<nextCallToken, read, token, unbound, waiting, requestsByGuids, requestsByClass,
                     closed, cancelled, answered, late, early>>
  BY <1>0, GuidsSelects
<1>3. h \in StageOps /\ Listed(stage) = {h} \cup Listed(stage') /\ stage' \in Seq(StageOps)
  BY <1>0, <1>1, ListedTail, HeadTaken
<1>4. running' \in Seq(Requests) /\ Listed(running') = Listed(running) \ {r}
  <2>1. \A w : w = Guids!Without(running, {r}) => w \in Seq(Requests) /\ Listed(w) = Listed(running) \ {r}
    BY <1>1, WithoutIs
  <2> QED BY <1>2, <2>1
<1>5. /\ PerformsOnce(stage) => PerformsOnce(stage')
      /\ \A x, q : CancelFollows(stage, x, q) => CancelFollows(stage', x, q)
  BY <1>0, <1>1, OrderOfTail
<1>6. \A q : Performing(q)' <=> Performing(q)
  BY <1>1, <1>3 DEF Performing
<1>7. \A q \in Requests : Alive(q)' <=> Alive(q) /\ ~(q = r /\ q \in Listed(running))
  BY <1>2, <1>4, <1>6 DEF Alive, GuidInv, PlacesRight
<1>8. \A q \in Listed(running) : q \in Requests /\ token[q] \in Guids!Tokens
  <2> SUFFICES ASSUME NEW q \in Listed(running) PROVE q \in Requests /\ token[q] \in Guids!Tokens
    OBVIOUS
  <2>1. q \in Requests
    BY <1>1 DEF Listed
  <2>2. q \in Written
    BY <2>1 DEF GuidInv, PlacesRight, Alive
  <2> QED BY <2>1, <2>2 DEF Written, GuidInv, GuidTypes
<1>9. DOMAIN running = 1..Len(running) /\ DOMAIN u = 1..Len(running) /\ Len(running) \in Nat
  BY <1>0, <1>1 DEF Guids!Removals
<1>10. \A i \in DOMAIN running : u[i] = [op |-> "remove", token |-> token[running[i]]]
  BY <1>0, <1>9 DEF Guids!Removals
<1>11. u \in Seq(UiOps)
  <2>1. \A i \in 1..Len(running) : [op |-> "remove", token |-> token[running[i]]] \in UiOps
    BY <1>8, <1>9 DEF UiOps, Listed
  <2> QED BY <1>0, <1>9, <2>1 DEF Guids!Removals
<1>12. /\ \A o \in Listed(u) : o.op = "remove" /\ \E q \in Listed(running) : o.token = token[q]
       /\ \A q \in Listed(running) : \E o \in Listed(u) : o.op = "remove" /\ o.token = token[q]
  <2>1. \A i \in DOMAIN u : i \in DOMAIN running /\ u[i].op = "remove" /\ u[i].token = token[running[i]]
    BY <1>9, <1>10
  <2>2. \A i \in DOMAIN running : i \in DOMAIN u
    BY <1>9
  <2>3. ASSUME NEW o \in Listed(u) PROVE o.op = "remove" /\ \E q \in Listed(running) : o.token = token[q]
    BY <2>1 DEF Listed
  <2>4. ASSUME NEW q \in Listed(running) PROVE \E o \in Listed(u) : o.op = "remove" /\ o.token = token[q]
    <3>1. PICK i \in DOMAIN running : running[i] = q
      BY DEF Listed
    <3>2. u[i] \in Listed(u)
      BY <2>2 DEF Listed
    <3> QED BY <2>1, <2>2, <3>1, <3>2
  <2> QED BY <2>3, <2>4
<1>13. ui' \in Seq(UiOps) /\ Listed(ui') = Listed(ui) \cup Listed(u)
  BY <1>1, <1>11, ListedJoined
<1>14. \A x : /\ Binding(x)' <=> Binding(x)
              /\ Removing(x)' <=> Removing(x) \/ \E q \in Listed(running) : x = token[q]
  BY <1>12, <1>13 DEF Binding, Removing
<1>15. \A x : BindsOnce(ui, x) => BindsOnce(ui', x)
  <2>1. \A x : \A o \in Listed(u) : ~(o.op = "bind" /\ o.token = x)
    BY <1>12
  <2> QED BY <1>1, <1>11, <2>1, OrderOfJoined
<1>16. GuidTypes'
  BY <1>2, <1>3, <1>4, <1>13 DEF GuidInv, GuidTypes, Written
<1>17. CounterRight'
  BY <1>2 DEF GuidInv, CounterRight, Written, Gone
<1>18. PlacesRight'
  <2>1. Written' = Written /\ Gone' = Gone
    BY <1>2 DEF Written, Gone
  <2> QED BY <1>2, <1>4, <1>5, <1>6, <1>7, <2>1 DEF GuidInv, PlacesRight
<1>19. OwnersRight'
  <2>1. \A x, s : (Owned(x, s)' <=> Owned(x, s)) /\ (Known(x)' <=> Known(x))
    BY <1>2 DEF Owned, Known
  <2>2. \A o \in Listed(u) : Known(o.token) /\ o.op # "bind"
    BY <1>8, <1>12 DEF Known
  <2>3. \A o \in Listed(ui') : Known(o.token)' /\ (o.op = "bind" => Owned(o.token, o.guid)')
    BY <1>13, <2>1, <2>2 DEF GuidInv, OwnersRight
  <2> QED BY <1>2, <1>3, <2>1, <2>3 DEF GuidInv, OwnersRight
<1>20. ASSUME NEW q \in Requests, Alone(q)' PROVE RequestRight(q)'
  <2>0. PICK x : x = token[q]
    OBVIOUS
  <2>1. Alone(q) /\ RequestRight(q) /\ token' = token
    BY <1>2, <1>20 DEF GuidInv, Alone
  <2>2. BoundOnce(q)'
    BY <1>2, <1>14, <1>15, <2>1 DEF RequestRight, BoundOnce
  <2>3. WillBeCancelled(q)'
    BY <1>2, <1>5, <1>7, <1>14, <2>1 DEF RequestRight, WillBeCancelled
  <2>4. RemovedRight(q)'
    <3>1. SUFFICES ASSUME Removing(x)', Alive(q)' PROVE x \in loosed'
      BY <2>0, <2>1 DEF RemovedRight
    <3>2. Alive(q) /\ ~(q = r /\ q \in Listed(running))
      BY <1>7, <3>1
    <3>3. CASE Removing(x)
      BY <1>2, <2>0, <2>1, <3>2, <3>3 DEF RequestRight, RemovedRight
    <3>4. CASE ~Removing(x)
      <4>1. PICK p \in Listed(running) : x = token[p]
        BY <1>14, <3>1, <3>4
      <4>2. p = q
        BY <1>8, <2>0, <2>1, <4>1 DEF Alone
      <4> QED BY <1>2, <3>2, <4>1, <4>2
    <3> QED BY <3>3, <3>4
  <2>5. WillBeRemoved(q)'
    <3>1. SUFFICES ASSUME ~Alive(q)', Screen[q] \notin closed PROVE WillBeRemoved(q)'
      BY <1>2 DEF WillBeRemoved
    <3>2. CASE Alive(q)
      <4>1. q \in Listed(running)
        BY <1>7, <3>1, <3>2
      <4> QED BY <1>14, <2>1, <4>1 DEF WillBeRemoved
    <3>3. CASE ~Alive(q)
      BY <1>2, <1>14, <2>1, <3>1, <3>3 DEF RequestRight, WillBeRemoved
    <3> QED BY <3>2, <3>3
  <2> QED BY <2>2, <2>3, <2>4, <2>5 DEF RequestRight
<1>21. Guids!OnlyItsOwn'
  BY <1>2 DEF GuidInv, Guids!OnlyItsOwn, Guids!Shared
<1> QED BY <1>16, <1>17, <1>18, <1>19, <1>20, <1>21 DEF GuidInv

\* A thread writes the counter and posts its request.
LEMMA WriteTokenKeeps == ASSUME GuidInv, NEW r \in Requests, Guids!WriteToken(r) PROVE GuidInv'
<1> USE DEF Guids!WriteToken, Guids!stageVars, Guids!uiVars, Guids!history
<1>0. PICK t, e : t = read[r] /\ e = [op |-> "perform", r |-> r]
  OBVIOUS
<1>1. /\ token[r] = 0 /\ nextCallToken' = t + 1 /\ token' = [token EXCEPT ![r] = t]
      /\ stage' = Append(stage, e) /\ unbound' = unbound \cup {r} /\ t # 0
      /\ UNCHANGED <<read, ui, waiting, running, requestsByGuids, requestsByClass, closed, cancelled,
                     answered, loosed, late, early>>
  BY <1>0
<1>2. /\ stage \in Seq(StageOps) /\ e \in StageOps /\ e.op = "perform" /\ e.r = r
      /\ token \in [Requests -> Guids!Tokens \cup {0}] /\ t \in Guids!Tokens /\ t \in Nat \ {0}
  BY <1>0, <1>1, GuidsSelects DEF GuidInv, GuidTypes, StageOps, Guids!Tokens
<1>3. /\ token' \in [Requests -> Guids!Tokens \cup {0}] /\ token'[r] = t
      /\ \A q \in Requests : q # r => token'[q] = token[q]
  BY <1>1, <1>2
<1>4. Written' = Written \cup {r} /\ Gone' = Gone
  BY <1>1, <1>2, <1>3 DEF Written, Gone
<1>5. r \notin Written /\ ~Alive(r) /\ ~Performing(r)
  BY <1>1 DEF Written, GuidInv, PlacesRight, Alive
<1>6. stage' \in Seq(StageOps) /\ Listed(stage') = Listed(stage) \cup {e}
  BY <1>1, <1>2, ListedAppended, Appended
<1>7. \A q : Performing(q)' <=> Performing(q) \/ q = r
  BY <1>2, <1>6 DEF Performing
<1>8. \A q : Alive(q)' <=> Alive(q) \/ q = r
  BY <1>1, <1>7 DEF Alive
<1>9. PerformsOnce(stage') /\ \A x, q : q # r /\ CancelFollows(stage, x, q) => CancelFollows(stage', x, q)
  <2>1. PerformsOnce(stage) /\ \A o \in Listed(stage) : ~(o.op = "perform" /\ o.r = e.r)
    BY <1>2, <1>5 DEF GuidInv, PlacesRight, Performing
  <2> QED BY <1>1, <1>2, <2>1, OrderOfAppended
<1>10. \A x \in Guids!Tokens : /\ Known(x) => Known(x)'
                               /\ \A s : Owned(x, s) => Owned(x, s)'
  <2>1. \A x \in Guids!Tokens : \A q \in Requests : token[q] = x => token'[q] = x
    <3>1. \A x \in Guids!Tokens : x # 0
      BY DEF Guids!Tokens
    <3> QED BY <1>1, <1>3, <3>1
  <2> QED BY <2>1 DEF Known, Owned
<1>11. GuidTypes'
  <2>1. unbound' \subseteq Written'
    BY <1>1, <1>4 DEF GuidInv, GuidTypes
  <2> QED BY <1>1, <1>2, <1>3, <1>6, <2>1 DEF GuidInv, GuidTypes
<1>12. CounterRight'
  <2>1. /\ Cardinality(Written') = Cardinality(Written) + 1 /\ Cardinality(Written) \in Nat
        /\ Cardinality(Gone) \in Nat
    BY <1>1, <1>4, CounterSmall
  <2>2. \A q \in Requests : /\ read[q] \in Nat
                            /\ token[q] = 0 => read[q] <= Cardinality(Written) + Cardinality(Gone) + 1
    BY GuidsSelects DEF GuidInv, GuidTypes, CounterRight, Guids!Tokens
  <2>3. nextCallToken' <= Cardinality(Written') + Cardinality(Gone) + 1
    BY <1>0, <1>1, <2>1, <2>2
  <2>4. \A q \in Requests : token'[q] = 0 => read[q] <= Cardinality(Written') + Cardinality(Gone) + 1
    <3> SUFFICES ASSUME NEW q \in Requests, token'[q] = 0
                 PROVE  read[q] <= Cardinality(Written') + Cardinality(Gone) + 1
      OBVIOUS
    <3>1. q # r /\ token[q] = 0
      BY <1>1, <1>3
    <3> QED BY <2>1, <2>2, <3>1
  <2> QED BY <1>1, <1>4, <2>3, <2>4 DEF CounterRight
<1>13. PlacesRight'
  <2>1. \A q \in Requests : Performing(q)' => q \notin Listed(waiting') \cup Listed(running')
    BY <1>1, <1>5, <1>7 DEF GuidInv, PlacesRight, Alive
  <2>2. \A q \in Requests : Alive(q)' => q \in Written' \ Gone'
    BY <1>4, <1>5, <1>8 DEF GuidInv, PlacesRight
  <2> QED BY <1>1, <1>4, <1>9, <2>1, <2>2 DEF GuidInv, PlacesRight
<1>14. OwnersRight'
  <2>1. \A o \in Listed(ui) : o.token \in Guids!Tokens
    BY DEF GuidInv, GuidTypes, UiOps, Listed
  <2>2. \A o \in Listed(ui') : Known(o.token)' /\ (o.op = "bind" => Owned(o.token, o.guid)')
    BY <1>1, <1>10, <2>1 DEF GuidInv, OwnersRight
  <2>3. \A s \in Screens : \A x \in Listed(requestsByGuids'[s]) : Owned(x, s)'
    <3> SUFFICES ASSUME NEW s \in Screens, NEW x \in Listed(requestsByGuids[s]) PROVE Owned(x, s)'
      BY <1>1
    <3>1. x \in Guids!Tokens
      BY DEF GuidInv, GuidTypes, Listed
    <3> QED BY <1>10, <3>1 DEF GuidInv, OwnersRight
  <2>4. \A o \in Listed(stage') : o.op = "cancel" => Owned(o.token, o.guid)' /\ o.guid \in closed'
    <3> SUFFICES ASSUME NEW o \in Listed(stage'), o.op = "cancel"
                 PROVE  Owned(o.token, o.guid)' /\ o.guid \in closed'
      OBVIOUS
    <3>1. o \in Listed(stage)
      BY <1>2, <1>6
    <3>2. o.token \in Guids!Tokens
      <4>1. o \in StageOps
        BY <1>2, <3>1 DEF Listed
      <4> QED BY <4>1 DEF StageOps
    <3> QED BY <1>1, <1>10, <3>1, <3>2 DEF GuidInv, OwnersRight
  <2>5. \A x \in Guids!Tokens : requestsByClass'[x] # {} => Known(x)'
    BY <1>1, <1>10 DEF GuidInv, OwnersRight
  <2> QED BY <2>2, <2>3, <2>4, <2>5 DEF OwnersRight
<1>15. ASSUME NEW q \in Requests, Alone(q)' PROVE RequestRight(q)'
  <2>1. CASE q # r
    <3>1. token'[q] = token[q] /\ Alone(q)
      <4>1. token'[q] = token[q] /\ token[q] # 0
        BY <1>3, <1>15, <2>1 DEF Alone
      <4>2. ASSUME NEW p \in Requests \ {q} PROVE token[p] # token[q]
        <5>1. token'[p] # token'[q]
          BY <1>15, <4>2 DEF Alone
        <5> QED BY <1>1, <1>3, <4>1, <5>1
      <4> QED BY <4>1, <4>2 DEF Alone
    <3>2. RequestRight(q)
      BY <3>1 DEF GuidInv
    <3>3. \A x : (Binding(x)' <=> Binding(x)) /\ (Removing(x)' <=> Removing(x))
      BY <1>1 DEF Binding, Removing
    <3>4. (q \in unbound' <=> q \in unbound) /\ (Alive(q)' <=> Alive(q))
      BY <1>1, <1>8, <2>1
    <3>5. BoundOnce(q)'
      BY <1>1, <3>1, <3>2, <3>3, <3>4 DEF RequestRight, BoundOnce
    <3>6. WillBeCancelled(q)'
      BY <1>1, <1>9, <2>1, <3>1, <3>2, <3>3, <3>4 DEF RequestRight, WillBeCancelled
    <3>7. RemovedRight(q)' /\ WillBeRemoved(q)'
      BY <1>1, <3>1, <3>2, <3>3, <3>4 DEF RequestRight, RemovedRight, WillBeRemoved
    <3> QED BY <3>5, <3>6, <3>7 DEF RequestRight
  <2>2. CASE q = r
    <3>1. ~Known(t)
      <4> SUFFICES ASSUME NEW p \in Requests, token[p] = t PROVE FALSE
        BY DEF Known
      <4>1. p # r
        BY <1>1
      <4>2. token'[p] = t /\ token'[q] = t
        BY <1>3, <2>2, <4>1
      <4> QED BY <1>15, <2>2, <4>1, <4>2 DEF Alone
    <3>2. \A s : ~Owned(t, s)
      BY <3>1 DEF Known, Owned
    <3>3. ~Binding(t)' /\ ~Removing(t)'
      BY <1>1, <3>1 DEF GuidInv, OwnersRight, Binding, Removing
    <3>4. Screen[r] \in Screens
      BY BookkeepingAssumption DEF Guids!ScreenAssumption
    <3>5. t \notin Listed(requestsByGuids'[Screen[r]]) /\ requestsByClass'[t] = {}
      BY <1>1, <1>2, <3>1, <3>2, <3>4 DEF GuidInv, OwnersRight
    <3>6. BindsOnce(ui', t) /\ Once(requestsByGuids'[Screen[r]], t)
      <4>1. \A i \in DOMAIN ui' : ~(ui'[i].op = "bind" /\ ui'[i].token = t)
        BY <3>3 DEF Binding, Listed
      <4>2. \A i \in DOMAIN requestsByGuids'[Screen[r]] : requestsByGuids'[Screen[r]][i] # t
        BY <3>5 DEF Listed
      <4> QED BY <4>1, <4>2 DEF BindsOnce, Once
    <3>7. token'[q] = t /\ q \in unbound' /\ Alive(q)'
      BY <1>1, <1>3, <1>8, <2>2
    <3>8. BoundOnce(q)'
      BY <2>2, <3>3, <3>5, <3>6, <3>7 DEF BoundOnce
    <3> QED BY <3>3, <3>7, <3>8 DEF RequestRight, WillBeCancelled, RemovedRight, WillBeRemoved
  <2> QED BY <2>1, <2>2
<1>16. Guids!OnlyItsOwn'
  <2> SUFFICES ASSUME NEW c \in cancelled PROVE Screen[c[1]] = c[2] \/ Guids!Shared(c[1])'
    BY <1>1 DEF Guids!OnlyItsOwn
  <2>1. Screen[c[1]] = c[2] \/ Guids!Shared(c[1])
    BY DEF GuidInv, Guids!OnlyItsOwn
  <2>2. c[1] \in Requests /\ c[1] # r
    <3>1. c[1] \in Gone
      <4>1. PICK q \in Requests, s \in Screens : c = <<q, s>>
        BY DEF GuidInv, GuidTypes
      <4> QED BY <4>1 DEF Gone
    <3> QED BY <1>5, <3>1 DEF GuidInv, PlacesRight, Gone
  <2>3. ASSUME Guids!Shared(c[1]) PROVE Guids!Shared(c[1])'
    <3>1. PICK q \in Requests \ {c[1]} : token[q] = token[c[1]] /\ token[c[1]] # 0
      BY <2>3 DEF Guids!Shared
    <3>2. q # r
      BY <1>1, <3>1
    <3> QED BY <1>3, <2>2, <3>1, <3>2 DEF Guids!Shared
  <2> QED BY <2>1, <2>3
<1> QED BY <1>11, <1>12, <1>13, <1>14, <1>15, <1>16 DEF GuidInv

\* No step of the threads breaks the invariant.
LEMMA GuidsStepKeeps == GuidInv /\ [Guids!Next]_(Guids!vars) => GuidInv'
<1> SUFFICES ASSUME GuidInv, [Guids!Next]_(Guids!vars) PROVE GuidInv'
  OBVIOUS
<1>1. CASE Guids!Next
  BY <1>1, ReadTokenKeeps, WriteTokenKeeps, BindTokenKeeps, AnswerKeeps, CloseKeeps, RunBindKeeps,
     RunRemoveKeeps, RunPerformKeeps, PromoteKeeps, RunCancelKeeps, RunCompletedKeeps DEF Guids!Next
<1>2. CASE UNCHANGED Guids!vars
  <2> USE <1>2 DEF Guids!vars, Guids!tokens, Guids!stageVars, Guids!uiVars, Guids!history, GuidInv
  <2>1. GuidTypes' /\ CounterRight'
    BY DEF GuidTypes, CounterRight, Written, Gone
  <2>2. PlacesRight' /\ OwnersRight'
    BY DEF PlacesRight, OwnersRight, Alive, Performing, Written, Gone, Known, Owned
  <2>3. \A r \in Requests : Alone(r)' => RequestRight(r)'
    BY DEF Alone, RequestRight, BoundOnce, WillBeCancelled, RemovedRight, WillBeRemoved,
           Alive, Performing, Binding, Removing
  <2>4. Guids!OnlyItsOwn'
    BY DEF Guids!OnlyItsOwn, Guids!Shared
  <2> QED BY <2>1, <2>2, <2>3, <2>4
<1> QED BY <1>1, <1>2

\* It gives what the screens are promised.
LEMMA GuidInvIsSafe == GuidInv => Guids!GuidsSafe
<1> SUFFICES ASSUME GuidInv PROVE Guids!GuidsSafe
  OBVIOUS
<1>1. Guids!TypeOK
  <2>1. \A g \in Screens : Listed(requestsByGuids[g]) \subseteq Guids!Tokens
    BY DEF GuidInv, GuidTypes, Listed
  <2> QED BY <2>1, GuidsSelects DEF GuidInv, GuidTypes, PlacesRight, Guids!TypeOK, Written
<1>2. Guids!Idle => /\ \A r \in Requests : ~Performing(r) /\ \A t : \A q : ~CancelFollows(stage, t, q)
                    /\ \A t : ~Binding(t) /\ ~Removing(t)
                    /\ unbound = {}
  BY DEF Guids!Idle, Performing, CancelFollows, Binding, Removing, Listed
<1>3. \A r \in Listed(waiting) \cup Listed(running) : r \in Requests /\ Alive(r) /\ token[r] # 0
  <2> SUFFICES ASSUME NEW r \in Listed(waiting) \cup Listed(running)
               PROVE  r \in Requests /\ Alive(r) /\ token[r] # 0
    OBVIOUS
  <2>1. r \in Requests
    BY DEF GuidInv, GuidTypes, Listed
  <2> QED BY <2>1 DEF Alive, GuidInv, PlacesRight, Written
<1>4. Guids!ClosedScreenIsQuiet
  <2> SUFFICES ASSUME Guids!Idle, NEW r \in Listed(waiting) \cup Listed(running), Screen[r] \in closed,
                      ~Guids!Shared(r)
               PROVE  token[r] \in late \/ token[r] \in loosed
    BY GuidsSelects DEF Guids!ClosedScreenIsQuiet
  <2>1. r \in Requests /\ Alive(r) /\ Alone(r)
    BY <1>3, SharedOrAlone
  <2>2. WillBeCancelled(r)
    BY <2>1 DEF GuidInv, RequestRight
  <2>3. Listed(requestsByGuids[Screen[r]]) = {}
    BY DEF GuidInv, GuidTypes, Listed
  <2> QED BY <1>2, <2>1, <2>2, <2>3 DEF WillBeCancelled
<1>5. Guids!NoLeftovers
  <2> SUFFICES ASSUME Guids!Idle, NEW g \in Screens \ closed, NEW t \in Listed(requestsByGuids[g])
               PROVE  \/ \E r \in Listed(waiting) \cup Listed(running) : token[r] = t
                      \/ t \in early
                      \/ \E r \in Requests : token[r] = t /\ Guids!Shared(r)
    BY GuidsSelects DEF Guids!NoLeftovers
  <2>1. PICK r \in Requests : token[r] = t /\ Screen[r] = g
    BY DEF GuidInv, OwnersRight, Owned
  <2>2. token[r] # 0
    <3>1. t \in Guids!Tokens
      BY DEF GuidInv, GuidTypes, Listed
    <3> QED BY <2>1, <3>1 DEF Guids!Tokens
  <2>3. CASE Guids!Shared(r)
    BY <2>1, <2>3
  <2>4. CASE Alone(r)
    <3>1. CASE Alive(r)
      BY <1>2, <2>1, <3>1 DEF Alive
    <3>2. CASE ~Alive(r)
      <4>1. WillBeRemoved(r)
        BY <2>4 DEF GuidInv, RequestRight
      <4> QED BY <1>2, <2>1, <3>2, <4>1 DEF WillBeRemoved
    <3> QED BY <3>1, <3>2
  <2> QED BY <2>2, <2>3, <2>4, SharedOrAlone
<1> QED BY <1>1, <1>4, <1>5 DEF GuidInv, Guids!GuidsSafe

\* For any requests and screens, however their threads interleave: closing a screen
\* cancels no request of another, and leaves none of its own; an open screen keeps no
\* token of a request that ended; but for tokens drawn twice, bound too late, loosed
\* by another request's completion, or removed before they were bound.
THEOREM ScreensAreSafe == Guids!Spec => []Guids!GuidsSafe /\ []GuidsAreSafe
<1>1. Guids!Init => GuidInv
  BY GuidsStart
<1>2. GuidInv /\ [Guids!Next]_(Guids!vars) => GuidInv'
  BY GuidsStepKeeps
<1>3. GuidInv => Guids!GuidsSafe /\ GuidsAreSafe
  BY GuidInvIsSafe DEF GuidsAreSafe
<1> QED BY <1>1, <1>2, <1>3, PTL DEF Guids!Spec
=============================================================================
