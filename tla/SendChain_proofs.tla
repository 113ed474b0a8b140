--------------------------- MODULE SendChain_proofs ---------------------------
(***************************************************************************)
(* The chain keeps ChainSafe, for any number of messages, connections,     *)
(* repetitions and lost sessions.  Whatever makes a pass of                *)
(* processRequestQueue first changes the queue, the ids, the tokens, the   *)
(* sends that lost their id or the number of sends asked for; so what a    *)
(* pass relies on is stated of any values of these: q, ids, tok, w and n   *)
(* below.                                                                  *)
(***************************************************************************)
EXTENDS SendChain, SequenceLemmas

-----------------------------------------------------------------------------
(* Lists of sends in the order they were written. *)

Climbs(s) == \A i, j \in DOMAIN s : i < j => s[i] < s[j]

\* What a list holds.
LEMMA IdsOf ==
  ASSUME NEW s \in Seq(Sends)
  PROVE  /\ Len(s) \in Nat /\ DOMAIN s = 1..Len(s) /\ Ids(s) \subseteq Sends
         /\ \A i \in DOMAIN s : s[i] \in Ids(s) /\ s[i] \in Nat
         /\ \A r \in Ids(s) : \E i \in DOMAIN s : s[i] = r
<1>1. Len(s) \in Nat /\ DOMAIN s = 1..Len(s) /\ \A i \in DOMAIN s : s[i] \in Sends
  OBVIOUS
<1>2. \A r \in Sends : r \in Nat
  BY BoundAssumption DEF Sends
<1> QED BY <1>1, <1>2 DEF Ids

\* In such a list an earlier send is before a later one.
LEMMA ClimbsInOrder ==
  ASSUME NEW s \in Seq(Sends), Climbs(s), NEW i \in DOMAIN s, NEW j \in DOMAIN s
  PROVE  /\ s[i] < s[j] <=> i < j
         /\ s[i] = s[j] <=> i = j
<1>1. i \in Nat /\ j \in Nat /\ s[i] \in Nat /\ s[j] \in Nat
  BY IdsOf
<1>2. (i < j => s[i] < s[j]) /\ (j < i => s[j] < s[i])
  BY DEF Climbs
<1> QED BY <1>1, <1>2

\* One list after another.
LEMMA ClimbsOn ==
  ASSUME NEW s \in Seq(Sends), NEW t \in Seq(Sends), Climbs(s), Climbs(t),
         \A x \in Ids(s), y \in Ids(t) : x < y
  PROVE  /\ s \o t \in Seq(Sends) /\ Climbs(s \o t) /\ Ids(s \o t) = Ids(s) \cup Ids(t)
         /\ Len(s \o t) = Len(s) + Len(t)
<1> DEFINE u == s \o t
           m == Len(s)
           n == Len(t)
<1>1. /\ m \in Nat /\ n \in Nat /\ DOMAIN s = 1..m /\ DOMAIN t = 1..n
      /\ u \in Seq(Sends) /\ Len(u) = m + n /\ DOMAIN u = 1..(m + n)
      /\ \A i \in 1..m : u[i] = s[i]
      /\ \A i \in 1..(m + n) : i > m => u[i] = t[i - m]
  OBVIOUS
<1>2. \A i \in 1..(m + n) : i <= m \/ (i > m /\ i - m \in 1..n)
  BY <1>1
<1>3. (\A i \in 1..m : i \in 1..(m + n)) /\ \A i \in 1..n : i + m \in 1..(m + n) /\ i + m > m /\ (i + m) - m = i
  BY <1>1
<1> HIDE DEF u, m, n
<1>4. Ids(u) = Ids(s) \cup Ids(t)
  <2>1. ASSUME NEW x \in Ids(u) PROVE x \in Ids(s) \cup Ids(t)
    <3>1. PICK i \in 1..(m + n) : u[i] = x
      BY <1>1, <2>1 DEF Ids
    <3>2. CASE i <= m
      <4>1. i \in 1..m /\ s[i] = x
        BY <1>1, <3>1, <3>2
      <4> QED BY <1>1, <4>1 DEF Ids, m
    <3>3. CASE i > m
      <4>1. i - m \in 1..n /\ t[i - m] = x
        BY <1>1, <1>2, <3>1, <3>3
      <4> QED BY <1>1, <4>1 DEF Ids, n
    <3> QED BY <1>1, <3>2, <3>3
  <2>2. ASSUME NEW x \in Ids(s) PROVE x \in Ids(u)
    <3>1. PICK i \in 1..m : s[i] = x
      BY <2>2 DEF Ids, m
    <3> QED BY <1>1, <1>3, <3>1 DEF Ids
  <2>3. ASSUME NEW x \in Ids(t) PROVE x \in Ids(u)
    <3>1. PICK i \in 1..n : t[i] = x
      BY <2>3 DEF Ids, n
    <3>2. u[i + m] = x
      BY <1>1, <1>3, <3>1
    <3> QED BY <1>1, <1>3, <3>1, <3>2 DEF Ids
  <2> QED BY <2>1, <2>2, <2>3
<1>5. ASSUME NEW i \in 1..(m + n), NEW j \in 1..(m + n), i < j
      PROVE  u[i] < u[j]
  <2>1. CASE j <= m
    <3>1. i \in 1..m /\ j \in 1..m
      BY <1>1, <1>5, <2>1
    <3> QED BY <1>1, <1>5, <3>1 DEF Climbs
  <2>2. CASE i > m
    <3>1. j > m /\ i - m < j - m
      BY <1>1, <1>5, <2>2
    <3>2. i - m \in 1..n /\ j - m \in 1..n
      BY <1>1, <1>2, <2>2, <3>1
    <3>3. u[i] = t[i - m] /\ u[j] = t[j - m]
      BY <1>1, <2>2, <3>1
    <3> QED BY <1>1, <3>1, <3>2, <3>3 DEF Climbs
  <2>3. CASE i <= m /\ j > m
    <3>1. u[i] = s[i] /\ i \in 1..m /\ u[j] = t[j - m] /\ j - m \in 1..n
      BY <1>1, <2>3
    <3>2. u[i] \in Ids(s) /\ u[j] \in Ids(t)
      BY <3>1 DEF Ids, m, n
    <3> QED BY <3>2
  <2> QED BY <1>1, <2>1, <2>2, <2>3
<1> QED BY <1>1, <1>4, <1>5 DEF Climbs, u, m, n

\* Some of a list.
LEMMA ClimbsSelected ==
  ASSUME NEW s \in Seq(Sends), Climbs(s), NEW P \in SUBSET (DOMAIN s)
  PROVE  LET t == SelectAt(s, P)
         IN  t \in Seq(Sends) /\ Climbs(t) /\ Ids(t) = { s[i] : i \in P }
<1> DEFINE u == SelectAt(s, P)
<1>1. PICK p \in [DOMAIN u -> P] :
        /\ \A i \in DOMAIN u : u[i] = s[p[i]]
        /\ \A i, j \in DOMAIN u : i < j => p[i] < p[j]
        /\ \A x \in P : \E i \in DOMAIN u : p[i] = x
  <2>1. TakenAt(u, s, P)
    BY Selected
  <2> HIDE DEF u
  <2> QED BY <2>1 DEF TakenAt
<1>2. u \in Seq(Sends)
  BY Selected
<1> HIDE DEF u
<1>3. DOMAIN u = 1..Len(u)
  BY <1>2
<1>4. Climbs(u)
  BY <1>1 DEF Climbs
<1>5. Ids(u) = { u[i] : i \in DOMAIN u }
  BY <1>3 DEF Ids
<1>6. Ids(u) = { s[i] : i \in P }
  BY <1>1, <1>5
<1> QED BY <1>2, <1>4, <1>6 DEF u

-----------------------------------------------------------------------------
(* What a pass of processRequestQueue does, from values q, ids, tok and    *)
(* dues that the calling handler has left.                                 *)

Messages == [id : Nat, r : Sends, after : Nat]

\* The running sends that go again, and the waiting ones that are promoted.
Again(tok, dues, forced) == { r \in Ids(running) : SendsAgain(r, tok, dues, forced) }
Promoted(q) == IF channel = 0 THEN {} ELSE Ids(q)

\* pass has those sends; the lists are in order.
Listed(pass, q, tok, dues, forced) ==
  /\ pass \in Seq(Sends) /\ Climbs(pass)
  /\ Ids(pass) = Again(tok, dues, forced) \cup Promoted(q)
  /\ queue' \in Seq(Sends) /\ Climbs(queue')
  /\ Ids(queue') = IF channel = 0 THEN Ids(q) ELSE {}
  /\ running' \in Seq(Sends) /\ Climbs(running')
  /\ Ids(running') = Ids(running) \cup Promoted(q)

\* The sends of the pass without an id have new ones, in their order.
Renumbered(pass, ids) ==
  /\ lastId' \in Nat /\ lastId <= lastId' /\ msgId' \in [Sends -> Nat]
  /\ \A r \in Sends : r \notin Ids(pass) \/ ids[r] # 0 => msgId'[r] = ids[r]
  /\ \A r \in Ids(pass) : ids[r] = 0 => lastId < msgId'[r] /\ msgId'[r] <= lastId'
  /\ \A r, s \in Ids(pass) : r < s /\ ids[r] = 0 /\ ids[s] = 0 => msgId'[r] < msgId'[s]

\* The message of the pass at place i.
MessageAt(pass, i, rest) ==
  [id |-> msgId'[pass[i]], r |-> pass[i],
   after |-> IF i = 1 THEN Before(rest, msgId') ELSE msgId'[pass[i - 1]]]

\* The messages of the pass follow those on their way.
Sent(pass, rest) ==
  /\ Len(wire') = Len(wire) + Len(pass) /\ DOMAIN wire' = 1..(Len(wire) + Len(pass))
  /\ \A k \in DOMAIN wire : wire'[k] = wire[k]
  /\ \A k \in DOMAIN wire' : k > Len(wire) =>
       k - Len(wire) \in DOMAIN pass /\ wire'[k] = MessageAt(pass, k - Len(wire), rest)
  /\ \A i \in DOMAIN pass : wire'[Len(wire) + i] = MessageAt(pass, i, rest)

\* The greatest id of rest.
LEMMA BeforeIsGreatest ==
  ASSUME NEW rest \in SUBSET Sends, NEW ids \in [Sends -> Nat], NEW m \in Nat,
         \A r \in Sends : ids[r] <= m
  PROVE  /\ Before(rest, ids) \in 0..m
         /\ Before(rest, ids) = 0 \/ \E r \in rest : ids[r] = Before(rest, ids)
         /\ \A r \in rest : ids[r] <= Before(rest, ids)
<1> DEFINE X == {0} \cup { ids[r] : r \in rest }
           T == { m - x : x \in X }
<1>1. \A x \in X : x \in 0..m
  OBVIOUS
<1>2. T \in SUBSET Nat /\ T # {}
  <2>1. m - 0 \in T
    OBVIOUS
  <2>2. \A x \in X : m - x \in Nat
    BY <1>1
  <2> QED BY <2>1, <2>2
<1>3. PICK t \in T : \A u \in T : t <= u
  <2> HIDE DEF T
  <2> QED BY <1>2, LeastOfSome
<1>4. PICK x \in X : t = m - x
  BY <1>3
<1>5. \A y \in X : x >= y
  <2> TAKE y \in X
  <2>1. m - y \in T /\ x \in Nat /\ y \in Nat
    BY <1>1
  <2>2. m - x <= m - y
    BY <1>3, <1>4, <2>1
  <2> QED BY <2>1, <2>2
<1>6. Before(rest, ids) \in X /\ \A y \in X : Before(rest, ids) >= y
  <2>1. Before(rest, ids) = Max(X)
    BY DEF Before
  <2> HIDE DEF X
  <2> QED BY <1>5, <2>1 DEF Max
<1>7. \A r \in rest : ids[r] \in X /\ ids[r] \in Nat
  OBVIOUS
<1> QED BY <1>1, <1>6, <1>7

\* A message and what is on its way, after the pass.
LEMMA SentAfter ==
  ASSUME NEW pass \in Seq(Sends), NEW rest \in SUBSET Sends, wire \in Seq(Messages),
         NEW ids, Renumbered(pass, ids), \A r \in Sends : msgId'[r] <= lastId',
         wire' = wire \o [i \in 1..Len(pass) |-> MessageAt(pass, i, rest)]
  PROVE  Sent(pass, rest) /\ wire' \in Seq(Messages)
<1> DEFINE s == [i \in 1..Len(pass) |-> MessageAt(pass, i, rest)]
           m == Len(wire)
           n == Len(pass)
<1>1. n \in Nat /\ DOMAIN pass = 1..n /\ m \in Nat /\ DOMAIN wire = 1..m
  OBVIOUS
<1>2. Before(rest, msgId') \in Nat
  <2> DEFINE z == msgId'
             l == lastId'
  <2>1. z \in [Sends -> Nat] /\ l \in Nat /\ \A r \in Sends : z[r] <= l
    BY DEF Renumbered
  <2> HIDE DEF z, l
  <2>2. Before(rest, z) \in 0..l
    BY <2>1, BeforeIsGreatest
  <2>3. Before(rest, z) \in Nat
    BY <2>1, <2>2
  <2> QED BY <2>3 DEF z
<1>3. \A i \in 1..n : pass[i] \in Sends /\ msgId'[pass[i]] \in Nat
  BY <1>1 DEF Renumbered
<1>4. \A i \in 1..n : i = 1 \/ i - 1 \in 1..n
  BY <1>1
<1>5. \A i \in 1..n : MessageAt(pass, i, rest) \in Messages
  <2> TAKE i \in 1..n
  <2>1. (IF i = 1 THEN Before(rest, msgId') ELSE msgId'[pass[i - 1]]) \in Nat
    BY <1>2, <1>3, <1>4
  <2> QED BY <1>3, <2>1 DEF MessageAt, Messages
<1>6. s \in Seq(Messages) /\ Len(s) = n
  <2> HIDE DEF n
  <2> QED BY <1>1, <1>5 DEF n
<1>7. \A i \in 1..n : s[i] = MessageAt(pass, i, rest)
  OBVIOUS
<1>8. wire' = wire \o s
  OBVIOUS
<1> HIDE DEF s, n, m
<1>9. /\ wire' \in Seq(Messages) /\ Len(wire') = m + n /\ DOMAIN wire' = 1..(m + n)
      /\ \A k \in 1..m : wire'[k] = wire[k]
      /\ \A k \in 1..(m + n) : k > m => wire'[k] = s[k - m]
  <2> DEFINE w == wire
             u == wire'
  <2>1. w \in Seq(Messages) /\ Len(w) = m /\ u = w \o s
    BY <1>8 DEF m
  <2> HIDE DEF w, u
  <2>2. /\ u \in Seq(Messages) /\ Len(u) = m + n
        /\ \A k \in 1..(m + n) : u[k] = IF k <= m THEN w[k] ELSE s[k - m]
    BY <1>6, <2>1, ConcatProperties
  <2>3. DOMAIN u = 1..(m + n)
    BY <1>1, <2>2
  <2>4. (\A k \in 1..m : k \in 1..(m + n) /\ k <= m) /\ \A k \in 1..(m + n) : k > m => ~(k <= m)
    BY <1>1
  <2>5. \A k \in 1..m : u[k] = w[k]
    BY <2>2, <2>4
  <2>6. \A k \in 1..(m + n) : k > m => u[k] = s[k - m]
    BY <2>2, <2>4
  <2> QED BY <2>2, <2>3, <2>5, <2>6 DEF w, u
<1>10. \A k \in 1..(m + n) : k > m => k - m \in 1..n
  BY <1>1
<1>11. \A i \in 1..n : m + i \in 1..(m + n) /\ m + i > m /\ (m + i) - m = i
  BY <1>1
<1>12. \A i \in 1..n : wire'[m + i] = MessageAt(pass, i, rest)
  BY <1>7, <1>9, <1>11
<1>13. \A k \in 1..(m + n) : k > m => k - m \in 1..n /\ wire'[k] = MessageAt(pass, k - m, rest)
  BY <1>7, <1>9, <1>10
<1>14. \A k \in 1..m : wire'[k] = wire[k]
  BY <1>9
<1>15. Len(wire') = m + n /\ DOMAIN wire' = 1..(m + n)
  BY <1>9
<1> QED BY <1>1, <1>9, <1>12, <1>13, <1>14, <1>15 DEF Sent, m, n

-----------------------------------------------------------------------------
(* The inductive invariant. *)

\* The values of the variables.
Types ==
  /\ queue \in Seq(Sends) /\ running \in Seq(Sends)
  /\ msgId \in [Sends -> Nat] /\ token \in [Sends -> Nat] /\ due \subseteq Sends
  /\ lastId \in Nat /\ opened \in 0..MaxChannel /\ channel \in {0, opened}
  /\ notice \in BOOLEAN /\ wire \in Seq(Messages) /\ early \subseteq Sends
  /\ \A k \in DOMAIN wire : wire[k].id \in 1..lastId /\ wire[k].after \in 0..lastId
  /\ Received \subseteq 1..lastId
  /\ after \in [Received -> 0..lastId] /\ owner \in [Received -> Sends]
  /\ outcome \in [Answered -> {"ok", "fail", "retry"}] /\ Answered \subseteq Received
  /\ lost \subseteq Received /\ inbox \subseteq Answered /\ announce \in Nat
  /\ asked \in 0..MaxSends /\ executed \in Seq(Sends) /\ wiped \subseteq Sends
  /\ done \in [Sends -> {"none", "ok", "fail"}]

\* The lists are in the order of writing; those running are before those waiting.
Lists(q, n) ==
  /\ Climbs(q) /\ Climbs(running)
  /\ \A r \in Ids(running) \cup Ids(q) : r <= n
  /\ \A r \in Ids(q), s \in Sends : s <= n /\ s \notin Ids(q) => s < r
  /\ \A r \in Ids(running) : r \notin Ids(q)

\* Who has an id.
Numbered(q, ids, w, n) ==
  /\ \A r \in Sends : r \in Ids(q) \/ r > n => ids[r] = 0 /\ r \notin w
  /\ \A r \in Sends : r <= n /\ r \notin Ids(q) /\ r \notin w => ids[r] # 0
  /\ \A r \in Sends : ids[r] <= lastId

\* The id is or was the send's.
Names(ids, id, r) ==
  \/ ids[r] = id
  \/ id \in Received /\ owner[id] = r
  \/ \E k \in DOMAIN wire : wire[k].id = id /\ wire[k].r = r

\* An id is of one send, which has it until it is wiped.
NamesRight(ids, w) ==
  \A id \in 1..lastId, r \in Sends : Names(ids, id, r) =>
    /\ r \notin w => ids[r] = id
    /\ \A s \in Sends : Names(ids, id, s) => r = s

\* The ids of sends that were not wiped are in the order of the sends, and those
\* of later sends, wiped or not, are greater.
Ordered(ids, w) ==
  \A a, b \in Sends : a < b /\ ids[b] # 0 /\ a \notin w => 0 < ids[a] /\ ids[a] < ids[b]

\* A send that nothing before it, nor itself, was wiped.
Good(w, a) == \A r \in w : r > a

Settled(ids, a) == ids[a] \in Answered /\ outcome[ids[a]] # "retry"

\* A send that left the lists was answered, and that was final.
Gone(q, ids, w, n) ==
  \A a \in Sends : a <= n /\ a \notin Ids(q) \cup Ids(running) \cup w => Settled(ids, a)

LeavingRight(ids, w, lv) ==
  /\ lv \subseteq Answered
  /\ \A id \in lv : \A a \in Sends : a \notin w /\ ids[a] = id => outcome[id] # "retry"

\* A message of b that waits for y waits, in effect, for each earlier send.
Covers(ids, w, b, y) ==
  \A a \in Sends : a < b /\ Good(w, a) => ids[a] # 0 /\ (Settled(ids, a) \/ y >= ids[a])

Behind(ids, w) ==
  early = {} =>
    /\ \A k \in DOMAIN wire : Covers(ids, w, wire[k].r, wire[k].after)
    /\ \A id \in Received : Covers(ids, w, owner[id], after[id])

\* What was carried out came after the answers of all earlier sends.
RunInOrder(ids, w) ==
  early = {} => \A b \in Ids(executed), a \in Sends : a < b /\ Good(w, a) => Settled(ids, a)

\* What runs with an id was sent on the channel that was connected.
OnChannel(ids, tok) == \A r \in Ids(running) : ids[r] # 0 => tok[r] = channel

TokensRight(ids, tok) ==
  /\ \A r \in Sends : tok[r] <= opened
  /\ channel # 0 /\ ~notice => OnChannel(ids, tok)
  /\ \A r \in Ids(running) :
       channel # 0 /\ ids[r] # 0 /\ tok[r] = channel =>
         ids[r] \in Received \/ \E k \in DOMAIN wire : wire[k].id = ids[r]

\* What r waits for when it waits for y: nothing, an earlier send, or an id
\* nobody has because an earlier send was wiped.
Down(ids, w, r, y) ==
  \/ y = 0
  \/ \E s \in Sends : s < r /\ Names(ids, y, s)
  \/ (\A s \in Sends : ~Names(ids, y, s)) /\ \E s \in w : s < r

\* No message up to z waits for one that is later than z, now or later.
Seals(ids, z) ==
  /\ \A i \in Received : i <= z => after[i] < z
  /\ \A r \in Ids(running) : 0 < ids[r] /\ ids[r] < z => ids[r] \in Received
  /\ \A k \in DOMAIN wire : wire[k].id < z => wire[k].id \in Received

\* The message at place k of the wire will do so when it arrives.
WillSeal(ids, k) ==
  LET z == wire[k].id IN
  /\ wire[k].after < z
  /\ \A i \in Received : i < z => after[i] < z
  /\ \A l \in DOMAIN wire : l < k /\ wire[l].id < z => wire[l].after < z
  /\ \A r \in Ids(running) : 0 < ids[r] /\ ids[r] < z =>
       ids[r] \in Received \/ \E l \in DOMAIN wire : l < k /\ wire[l].id = ids[r]
  /\ \A l \in DOMAIN wire : l > k /\ wire[l].id < z =>
       wire[l].id \in Received \/ \E j \in DOMAIN wire : j < k /\ wire[j].id = wire[l].id

\* A message waits for an earlier send, or it is of a wiped one and no circle
\* goes through it.
WaitsRight(ids, w) ==
  early = {} =>
    /\ \A z \in Received : Down(ids, w, owner[z], after[z]) \/ (owner[z] \in w /\ Seals(ids, z))
    /\ \A k \in DOMAIN wire :
         \/ Down(ids, w, wire[k].r, wire[k].after) \/ wire[k].id \in Received
         \/ wire[k].r \in w /\ WillSeal(ids, k)

\* What a pass of processRequestQueue relies on and keeps.
Mid(q, ids, tok, w, n) ==
  /\ q \in Seq(Sends) /\ ids \in [Sends -> Nat] /\ tok \in [Sends -> Nat]
  /\ w \subseteq Sends /\ n \in 0..MaxSends
  /\ Lists(q, n) /\ Numbered(q, ids, w, n) /\ NamesRight(ids, w) /\ Ordered(ids, w)
  /\ Gone(q, ids, w, n) /\ Behind(ids, w) /\ RunInOrder(ids, w)
  /\ TokensRight(ids, tok) /\ WaitsRight(ids, w)

OkExecuted == \A id \in Answered : outcome[id] = "ok" => owner[id] \in Ids(executed)

\* A send written before r was asked for again, or a session was lost.
Retried(r) ==
  lost # {} \/ \E i \in Answered : outcome[i] = "retry" /\ owner[i] <= r

WipedRight ==
  \A r \in wiped : lost # {} \/ \E i \in Answered : outcome[i] = "retry" /\ owner[i] = r

FailsRight ==
  early = {} =>
    /\ \A i \in Answered : outcome[i] = "fail" => Retried(owner[i])
    /\ \A r \in Sends : done[r] = "fail" => Retried(r)

LostRight == announce # 0 => lost # {}

ChainInv ==
  /\ Types /\ Mid(queue, msgId, token, wiped, asked) /\ LeavingRight(msgId, wiped, leaving)
  /\ OkExecuted /\ WipedRight /\ FailsRight /\ LostRight /\ InOrder

-----------------------------------------------------------------------------

\* What the pass does, in short.
Pass(pass, q, ids, tok, dues, forced) ==
  /\ Listed(pass, q, tok, dues, forced) /\ Renumbered(pass, ids)
  /\ Sent(pass, Ids(running) \ Again(tok, dues, forced)) /\ wire' \in Seq(Messages)
  /\ token' = [ r \in Sends |-> IF r \in Ids(pass) THEN channel ELSE tok[r] ]
  /\ due' = dues \ Ids(pass)
  /\ early' = IF notice /\ ~forced THEN early \cup Again(tok, dues, forced) ELSE early

\* The sends of a pass without an id, and the ids of all after the pass.
Fresh(pass, ids) == SelectAt(pass, { i \in DOMAIN pass : ids[pass[i]] = 0 })
Place(pass, ids, r) == CHOOSE i \in 1..Len(Fresh(pass, ids)) : Fresh(pass, ids)[i] = r
NewIds(pass, ids, m) ==
  [ r \in Sends |-> IF r \in Ids(Fresh(pass, ids)) THEN m + Place(pass, ids, r) ELSE ids[r] ]

\* The new ids are greater than m and in the order of the sends.
LEMMA NewIdsRight ==
  ASSUME NEW pass \in Seq(Sends), Climbs(pass), NEW ids \in [Sends -> Nat], NEW m \in Nat
  PROVE  LET fresh == Fresh(pass, ids)
             new   == NewIds(pass, ids, m)
         IN  /\ Len(fresh) \in Nat /\ new \in [Sends -> Nat]
             /\ \A r \in Sends : r \notin Ids(pass) \/ ids[r] # 0 => new[r] = ids[r]
             /\ \A r \in Ids(pass) : ids[r] = 0 => m < new[r] /\ new[r] <= m + Len(fresh)
             /\ \A r, s \in Ids(pass) :
                  r < s /\ ids[r] = 0 /\ ids[s] = 0 => new[r] < new[s]
<1> DEFINE P == { i \in DOMAIN pass : ids[pass[i]] = 0 }
           fresh == SelectAt(pass, P)
           At(r) == CHOOSE i \in 1..Len(fresh) : fresh[i] = r
           new == [ r \in Sends |-> IF r \in Ids(fresh) THEN m + At(r) ELSE ids[r] ]
<1>0. fresh = Fresh(pass, ids) /\ new = NewIds(pass, ids, m)
  BY DEF Fresh, NewIds, Place
<1>1. fresh \in Seq(Sends) /\ Climbs(fresh) /\ Ids(fresh) = { pass[i] : i \in P }
  <2>1. P \in SUBSET (DOMAIN pass)
    OBVIOUS
  <2> HIDE DEF P
  <2> QED BY <2>1, ClimbsSelected
<1>2. Ids(pass) \subseteq Sends /\ \A r \in Ids(pass) : \E i \in DOMAIN pass : pass[i] = r
  BY IdsOf
<1>3. \A i \in DOMAIN pass : pass[i] \in Ids(pass)
  BY IdsOf
<1>4. \A r \in Sends : r \in Ids(fresh) <=> r \in Ids(pass) /\ ids[r] = 0
  BY <1>1, <1>2, <1>3
<1> HIDE DEF P, fresh
<1>5. Len(fresh) \in Nat /\ DOMAIN fresh = 1..Len(fresh)
  BY <1>1
<1>6. \A r \in Ids(fresh) : At(r) \in 1..Len(fresh) /\ fresh[At(r)] = r
  <2> TAKE r \in Ids(fresh)
  <2>1. \E i \in 1..Len(fresh) : fresh[i] = r
    BY DEF Ids
  <2> QED BY <2>1
<1> HIDE DEF At
<1>7. \A r, s \in Ids(fresh) : r < s => At(r) < At(s)
  <2> TAKE r, s \in Ids(fresh)
  <2>1. At(r) \in DOMAIN fresh /\ At(s) \in DOMAIN fresh
    BY <1>5, <1>6
  <2>2. fresh[At(r)] < fresh[At(s)] <=> At(r) < At(s)
    BY <1>1, <2>1, ClimbsInOrder
  <2> QED BY <1>6, <2>2
<1>8. \A r \in Ids(fresh) : r \in Sends /\ new[r] = m + At(r) /\ At(r) \in Nat
  <2> TAKE r \in Ids(fresh)
  <2>1. r \in Sends
    BY <1>1, IdsOf
  <2>2. new[r] = m + At(r)
    BY <2>1
  <2>3. At(r) \in Nat
    BY <1>5, <1>6
  <2> QED BY <2>1, <2>2, <2>3
<1>9. (\A r \in Sends : r \notin Ids(fresh) => new[r] = ids[r]) /\ new = [r \in Sends |-> new[r]]
  OBVIOUS
<1> HIDE DEF new
<1>10. new \in [Sends -> Nat]
  <2>1. \A r \in Ids(fresh) : new[r] \in Nat
    BY <1>8
  <2>2. \A r \in Sends : new[r] \in Nat
    BY <1>9, <2>1
  <2> QED BY <1>9, <2>2
<1>11. \A r \in Sends : r \notin Ids(pass) \/ ids[r] # 0 => new[r] = ids[r]
  BY <1>4, <1>9
<1>12. \A r \in Ids(pass) : ids[r] = 0 => m < new[r] /\ new[r] <= m + Len(fresh)
  <2> TAKE r \in Ids(pass)
  <2> HAVE ids[r] = 0
  <2>1. r \in Ids(fresh)
    BY <1>2, <1>4
  <2>2. new[r] = m + At(r) /\ At(r) \in 1..Len(fresh)
    BY <1>6, <1>8, <2>1
  <2> QED BY <1>5, <2>2
<1>13. \A r, s \in Ids(pass) : r < s /\ ids[r] = 0 /\ ids[s] = 0 => new[r] < new[s]
  <2> TAKE r, s \in Ids(pass)
  <2> HAVE r < s /\ ids[r] = 0 /\ ids[s] = 0
  <2>1. r \in Ids(fresh) /\ s \in Ids(fresh)
    BY <1>2, <1>4
  <2>2. At(r) < At(s) /\ At(r) \in Nat /\ At(s) \in Nat
    BY <1>7, <1>8, <2>1
  <2> QED BY <1>8, <2>1, <2>2
<1> QED BY <1>0, <1>5, <1>10, <1>11, <1>12, <1>13

\* processRequestQueue makes a pass.
LEMMA PassEffect ==
  ASSUME Types, NEW q, NEW ids, NEW tok, NEW w, NEW n, NEW dues, NEW forced,
         Mid(q, ids, tok, w, n), ProcessRequestQueue(q, running, ids, tok, dues, forced)
  PROVE  \E pass \in Seq(Sends) : Pass(pass, q, ids, tok, dues, forced)
<1> DEFINE P == { i \in DOMAIN running : SendsAgain(running[i], tok, dues, forced) }
           again == SelectAt(running, P)
           promoted == IF channel = 0 THEN <<>> ELSE q
           pass == again \o promoted
           fresh == Fresh(pass, ids)
           new == NewIds(pass, ids, lastId)
<1>1. /\ queue' = IF channel = 0 THEN q ELSE <<>>
      /\ running' = running \o promoted /\ msgId' = new
      /\ token' = [ r \in Sends |-> IF r \in Ids(pass) THEN channel ELSE tok[r] ]
      /\ due' = dues \ Ids(pass) /\ lastId' = lastId + Len(fresh)
      /\ wire' = wire \o Chained(pass, Ids(running) \ Ids(again), new)
      /\ early' = IF notice /\ ~forced THEN early \cup Ids(again) ELSE early
  BY DEF ProcessRequestQueue, Fresh, NewIds, Place
<1>2. /\ running \in Seq(Sends) /\ Climbs(running) /\ q \in Seq(Sends) /\ Climbs(q)
      /\ lastId \in Nat /\ ids \in [Sends -> Nat] /\ wire \in Seq(Messages)
      /\ \A r \in Ids(q), s \in Ids(running) : s < r
      /\ \A r \in Sends : ids[r] <= lastId
  <2>1. Ids(running) \subseteq Sends
    BY IdsOf DEF Types
  <2> QED BY <2>1 DEF Types, Mid, Lists, Numbered
<1>3. again \in Seq(Sends) /\ Climbs(again) /\ Ids(again) = { running[i] : i \in P }
  <2>1. P \in SUBSET (DOMAIN running)
    OBVIOUS
  <2> HIDE DEF P
  <2> QED BY <1>2, <2>1, ClimbsSelected
<1>4. Ids(again) = Again(tok, dues, forced)
  <2>1. Ids(running) = { running[i] : i \in DOMAIN running }
    <3>1. DOMAIN running = 1..Len(running)
      BY <1>2
    <3> QED BY <3>1 DEF Ids
  <2> HIDE DEF again
  <2> QED BY <1>3, <2>1 DEF Again
<1>5. promoted \in Seq(Sends) /\ Climbs(promoted) /\ Ids(promoted) = Promoted(q)
  <2>1. <<>> \in Seq(Sends) /\ Climbs(<<>>) /\ Ids(<<>>) = {}
    BY DEF Climbs, Ids
  <2> QED BY <1>2, <2>1 DEF Promoted
<1>6. Ids(again) \subseteq Ids(running)
  BY <1>4 DEF Again
<1> HIDE DEF again
<1>8. queue' \in Seq(Sends) /\ Climbs(queue') /\ Ids(queue') = IF channel = 0 THEN Ids(q) ELSE {}
  <2>1. <<>> \in Seq(Sends) /\ Climbs(<<>>) /\ Ids(<<>>) = {}
    BY DEF Climbs, Ids
  <2> QED BY <1>1, <1>2, <2>1
<1> HIDE DEF promoted
<1>7. \A x \in Ids(running), y \in Ids(promoted) : x < y
  BY <1>2, <1>5 DEF Promoted
<1>9. pass \in Seq(Sends) /\ Climbs(pass) /\ Ids(pass) = Ids(again) \cup Ids(promoted)
  BY <1>3, <1>5, <1>6, <1>7, ClimbsOn
<1>10. running' \in Seq(Sends) /\ Climbs(running') /\ Ids(running') = Ids(running) \cup Ids(promoted)
  BY <1>1, <1>2, <1>5, <1>7, ClimbsOn
<1>11. Listed(pass, q, tok, dues, forced)
  BY <1>4, <1>5, <1>8, <1>9, <1>10 DEF Listed
<1> HIDE DEF pass
<1>12. /\ Len(fresh) \in Nat /\ new \in [Sends -> Nat]
       /\ \A r \in Sends : r \notin Ids(pass) \/ ids[r] # 0 => new[r] = ids[r]
       /\ \A r \in Ids(pass) : ids[r] = 0 => lastId < new[r] /\ new[r] <= lastId + Len(fresh)
       /\ \A r, s \in Ids(pass) : r < s /\ ids[r] = 0 /\ ids[s] = 0 => new[r] < new[s]
  BY <1>2, <1>9, NewIdsRight
<1> HIDE DEF fresh, new
<1>13. Renumbered(pass, ids)
  <2>1. lastId' \in Nat /\ lastId <= lastId'
    BY <1>1, <1>2, <1>12
  <2> QED BY <1>1, <1>12, <2>1 DEF Renumbered
<1>14. \A r \in Sends : msgId'[r] <= lastId'
  <2> TAKE r \in Sends
  <2>1. CASE r \in Ids(pass) /\ ids[r] = 0
    BY <1>13, <2>1 DEF Renumbered
  <2>2. CASE ~(r \in Ids(pass) /\ ids[r] = 0)
    <3>1. ids[r] \in Nat /\ ids[r] <= lastId /\ lastId <= lastId' /\ lastId' \in Nat /\ lastId \in Nat
      BY <1>2, <1>13 DEF Renumbered
    <3>2. msgId'[r] = ids[r]
      BY <1>13, <2>2 DEF Renumbered
    <3> QED BY <3>1, <3>2
  <2> QED BY <2>1, <2>2
<1>15. Sent(pass, Ids(running) \ Again(tok, dues, forced)) /\ wire' \in Seq(Messages)
  <2> DEFINE rest == Ids(running) \ Again(tok, dues, forced)
  <2>1. wire' = wire \o [i \in 1..Len(pass) |-> MessageAt(pass, i, rest)]
    BY <1>1, <1>4 DEF Chained, MessageAt
  <2>2. rest \in SUBSET Sends
    BY <1>2, IdsOf
  <2> HIDE DEF rest
  <2>3. Sent(pass, rest) /\ wire' \in Seq(Messages)
    BY <1>2, <1>9, <1>13, <1>14, <2>1, <2>2, SentAfter
  <2> QED BY <2>3 DEF rest
<1>16. Pass(pass, q, ids, tok, dues, forced)
  BY <1>1, <1>4, <1>11, <1>13, <1>15 DEF Pass
<1> QED BY <1>9, <1>16

-----------------------------------------------------------------------------
(* A pass keeps Mid. *)

\* Sends are numbers.
LEMMA SendsAreNat == Sends \subseteq Nat
BY BoundAssumption DEF Sends

\* What stays, and what the handler has changed before the pass.
Around(w, n) ==
  UNCHANGED <<after, outcome, owner, executed, network>> /\ wiped' = w /\ asked' = n

\* Who has which id after a pass.
LEMMA PassFacts ==
  ASSUME Types, NEW q, NEW ids, NEW tok, NEW w, NEW n, NEW dues, NEW forced, NEW pass,
         Mid(q, ids, tok, w, n), Pass(pass, q, ids, tok, dues, forced)
  PROVE  /\ channel = 0 => Ids(pass) = {}
         /\ \A r \in Ids(pass) : r \in Sends /\ r <= n /\ r \in Ids(running')
         /\ \A r \in Sends : ids[r] # 0 => msgId'[r] = ids[r]
         /\ \A r \in Sends : msgId'[r] <= lastId => msgId'[r] = ids[r]
         /\ \A r \in Sends : msgId'[r] <= lastId'
         /\ \A r \in Ids(running') :
              0 < msgId'[r] /\ msgId'[r] <= lastId => r \in Ids(running) /\ ids[r] = msgId'[r]
         /\ \A r \in Sends : r <= n /\ r \notin w /\ r \notin Ids(queue') => msgId'[r] # 0
         /\ \A r \in Sends : lastId < msgId'[r] => r \in Ids(pass) /\ ids[r] = 0
         /\ \A r \in Ids(running') : r \in Ids(pass) \/ r \in Ids(running)
<1> USE SendsAreNat
<1>1. /\ pass \in Seq(Sends) /\ running \in Seq(Sends) /\ running' \in Seq(Sends)
      /\ Ids(pass) = Again(tok, dues, forced) \cup Promoted(q)
      /\ Ids(running') = Ids(running) \cup Promoted(q)
      /\ Ids(queue') = IF channel = 0 THEN Ids(q) ELSE {}
  BY DEF Types, Pass, Listed
<1>2. Ids(running) \subseteq Sends /\ Ids(running') \subseteq Sends /\ Ids(pass) \subseteq Sends
  BY <1>1, IdsOf
<1>3. Again(tok, dues, forced) \subseteq Ids(running) /\ Promoted(q) \subseteq Ids(q)
  BY DEF Again, Promoted
<1>4. channel = 0 => Again(tok, dues, forced) = {} /\ Promoted(q) = {}
  BY DEF Again, Promoted, SendsAgain
<1>5. /\ \A r \in Ids(running) \cup Ids(q) : r <= n
      /\ \A r \in Ids(running) : r \notin Ids(q)
  BY DEF Mid, Lists
<1>6. /\ \A r \in Sends : r \in Ids(q) \/ r > n => ids[r] = 0 /\ r \notin w
      /\ \A r \in Sends : r <= n /\ r \notin Ids(q) /\ r \notin w => ids[r] # 0
      /\ \A r \in Sends : ids[r] \in Nat /\ ids[r] <= lastId
  BY DEF Mid, Numbered
<1>7. /\ lastId \in Nat /\ lastId' \in Nat /\ lastId <= lastId'
      /\ \A r \in Sends : msgId'[r] \in Nat
      /\ \A r \in Sends : r \notin Ids(pass) \/ ids[r] # 0 => msgId'[r] = ids[r]
      /\ \A r \in Ids(pass) : ids[r] = 0 => lastId < msgId'[r] /\ msgId'[r] <= lastId'
  BY DEF Types, Pass, Renumbered
<1> HIDE DEF Sends
<1>8. \A r \in Ids(pass) : r \in Sends /\ r <= n /\ r \in Ids(running')
  BY <1>1, <1>2, <1>3, <1>5
<1>9. \A r \in Sends : msgId'[r] <= lastId => msgId'[r] = ids[r]
  <2> TAKE r \in Sends
  <2>1. r \in Ids(pass) /\ ids[r] = 0 => ~(msgId'[r] <= lastId)
    BY <1>7
  <2> QED BY <1>7, <2>1
<1>10. \A r \in Sends : lastId < msgId'[r] => r \in Ids(pass) /\ ids[r] = 0
  <2> TAKE r \in Sends
  <2>1. ids[r] \in Nat /\ ids[r] <= lastId
    BY <1>6
  <2> QED BY <1>7, <2>1
<1>11. \A r \in Sends : msgId'[r] <= lastId'
  <2> TAKE r \in Sends
  <2>1. ids[r] \in Nat /\ ids[r] <= lastId
    BY <1>6
  <2>2. CASE r \in Ids(pass) /\ ids[r] = 0
    BY <1>7, <2>2
  <2>3. CASE ~(r \in Ids(pass) /\ ids[r] = 0)
    <3>1. msgId'[r] = ids[r]
      BY <1>7, <2>3
    <3> QED BY <1>7, <2>1, <3>1
  <2> QED BY <2>2, <2>3
<1>12. \A r \in Ids(running') :
         0 < msgId'[r] /\ msgId'[r] <= lastId => r \in Ids(running) /\ ids[r] = msgId'[r]
  <2> TAKE r \in Ids(running')
  <2> HAVE 0 < msgId'[r] /\ msgId'[r] <= lastId
  <2>0. r \in Sends
    BY <1>2
  <2>1. ids[r] = msgId'[r] /\ ids[r] # 0 /\ r \in Sends
    BY <1>9, <2>0
  <2>2. r \notin Ids(q)
    BY <1>6, <2>1
  <2> QED BY <1>1, <1>3, <2>1, <2>2
<1>13. \A r \in Sends : r <= n /\ r \notin w /\ r \notin Ids(queue') => msgId'[r] # 0
  <2> TAKE r \in Sends
  <2> HAVE r <= n /\ r \notin w /\ r \notin Ids(queue')
  <2>1. CASE r \in Ids(q)
    <3>1. channel # 0 /\ r \in Ids(pass) /\ ids[r] = 0
      BY <1>1, <1>6, <2>1 DEF Promoted
    <3> QED BY <1>7, <3>1
  <2>2. CASE r \notin Ids(q)
    BY <1>6, <1>7, <2>2
  <2> QED BY <2>1, <2>2
<1>14. \A r \in Ids(running') : r \in Ids(pass) \/ r \in Ids(running)
  BY <1>1
<1> QED BY <1>1, <1>4, <1>7, <1>8, <1>9, <1>10, <1>11, <1>12, <1>13, <1>14

\* The lists stay in order.
LEMMA PassLists ==
  ASSUME Types, NEW q, NEW ids, NEW tok, NEW w, NEW n, NEW dues, NEW forced, NEW pass,
         Mid(q, ids, tok, w, n), Pass(pass, q, ids, tok, dues, forced), Around(w, n)
  PROVE  Lists(queue, asked)'
<1>1. /\ Climbs(queue') /\ Climbs(running') /\ asked' = n
      /\ Ids(running') = Ids(running) \cup Promoted(q)
      /\ Ids(queue') = IF channel = 0 THEN Ids(q) ELSE {}
  BY DEF Pass, Listed, Around
<1>2. /\ \A r \in Ids(running) \cup Ids(q) : r <= n
      /\ \A r \in Ids(q), s \in Sends : s <= n /\ s \notin Ids(q) => s < r
      /\ \A r \in Ids(running) : r \notin Ids(q)
  BY DEF Mid, Lists
<1>3. CASE channel = 0
  <2>1. Ids(running') = Ids(running) /\ Ids(queue') = Ids(q)
    BY <1>1, <1>3 DEF Promoted
  <2> QED BY <1>1, <1>2, <2>1 DEF Lists
<1>4. CASE channel # 0
  <2>1. Ids(running') = Ids(running) \cup Ids(q) /\ Ids(queue') = {}
    BY <1>1, <1>4 DEF Promoted
  <2> QED BY <1>1, <1>2, <2>1 DEF Lists
<1> QED BY <1>3, <1>4

\* The sends have ids as before, or new ones.
LEMMA PassNumbered ==
  ASSUME Types, NEW q, NEW ids, NEW tok, NEW w, NEW n, NEW dues, NEW forced, NEW pass,
         Mid(q, ids, tok, w, n), Pass(pass, q, ids, tok, dues, forced), Around(w, n)
  PROVE  Numbered(queue, msgId, wiped, asked)'
<1> USE SendsAreNat
<1>1. /\ channel = 0 => Ids(pass) = {}
      /\ \A r \in Ids(pass) : r \in Sends /\ r <= n
      /\ \A r \in Sends : msgId'[r] <= lastId'
      /\ \A r \in Sends : r <= n /\ r \notin w /\ r \notin Ids(queue') => msgId'[r] # 0
  BY PassFacts
<1>2. \A r \in Sends : r \in Ids(queue') \/ r > n => msgId'[r] = 0 /\ r \notin w
  <2> TAKE r \in Sends
  <2> HAVE r \in Ids(queue') \/ r > n
  <2>1. n \in Nat
    BY DEF Mid
  <2>2. r \notin Ids(pass)
    BY <1>1, <2>1 DEF Pass, Listed
  <2>3. r \in Ids(q) \/ r > n
    BY DEF Pass, Listed
  <2>4. msgId'[r] = ids[r]
    BY <2>2 DEF Pass, Renumbered
  <2> QED BY <2>3, <2>4 DEF Mid, Numbered
<1>3. wiped' = w /\ asked' = n
  BY DEF Around
<1> QED BY <1>1, <1>2, <1>3 DEF Numbered

\* Who names an id after a pass: who named it before, or has it now.
LEMMA PassNames ==
  ASSUME Types, NEW q, NEW ids, NEW tok, NEW w, NEW n, NEW dues, NEW forced, NEW pass,
         Mid(q, ids, tok, w, n), Pass(pass, q, ids, tok, dues, forced), Around(w, n)
  PROVE  /\ \A y \in 1..lastId, r \in Sends : Names(msgId, y, r)' <=> Names(ids, y, r)
         /\ \A y \in 1..lastId', r \in Sends :
              lastId < y => (Names(msgId, y, r)' <=> msgId'[r] = y)
<1> USE SendsAreNat
<1>1. /\ \A r \in Sends : ids[r] # 0 => msgId'[r] = ids[r]
      /\ \A r \in Sends : msgId'[r] <= lastId => msgId'[r] = ids[r]
  BY PassFacts
<1>2. /\ Len(wire) \in Nat /\ Len(pass) \in Nat /\ DOMAIN wire = 1..Len(wire)
      /\ DOMAIN pass = 1..Len(pass) /\ DOMAIN wire' = 1..(Len(wire) + Len(pass))
      /\ \A k \in DOMAIN wire : wire'[k] = wire[k]
      /\ \A k \in DOMAIN wire' : k > Len(wire) =>
           wire'[k].r = pass[k - Len(wire)] /\ wire'[k].id = msgId'[pass[k - Len(wire)]]
  <2>1. wire \in Seq(Messages) /\ pass \in Seq(Sends)
    BY DEF Types, Pass, Listed
  <2>2. Len(wire) \in Nat /\ Len(pass) \in Nat /\ DOMAIN wire = 1..Len(wire) /\ DOMAIN pass = 1..Len(pass)
    BY <2>1
  <2> QED BY <2>2 DEF Pass, Sent, MessageAt
<1>3. DOMAIN wire \subseteq DOMAIN wire' /\ \A k \in DOMAIN wire' : k \in DOMAIN wire \/ k > Len(wire)
  BY <1>2
<1>4. lastId \in Nat /\ lastId' \in Nat
  BY DEF Types, Pass, Renumbered
<1>5. \A k \in DOMAIN wire : wire[k].id <= lastId
  BY DEF Types
<1>6. Received \subseteq 1..lastId /\ after' = after /\ owner' = owner
  BY DEF Types, Around
<1>7. ASSUME NEW y \in 1..lastId', NEW r \in Sends, Names(msgId, y, r)'
      PROVE  Names(ids, y, r) \/ msgId'[r] = y
  <2>1. CASE msgId'[r] = y
    BY <2>1
  <2>2. CASE y \in Received /\ owner[y] = r
    BY <2>2 DEF Names
  <2>3. CASE \E k \in DOMAIN wire' : wire'[k].id = y /\ wire'[k].r = r
    <3>1. PICK k \in DOMAIN wire' : wire'[k].id = y /\ wire'[k].r = r
      BY <2>3
    <3>2. CASE k \in DOMAIN wire
      BY <1>2, <3>1, <3>2 DEF Names
    <3>3. CASE k > Len(wire)
      BY <1>2, <3>1, <3>3
    <3> QED BY <1>3, <3>2, <3>3
  <2> QED BY <1>6, <1>7, <2>1, <2>2, <2>3 DEF Names, Received
<1>8. ASSUME NEW y \in 1..lastId', NEW r \in Sends, Names(ids, y, r)
      PROVE  Names(msgId, y, r)'
  <2>1. CASE ids[r] = y
    <3>1. ids[r] # 0
      BY <1>4, <2>1
    <3>2. msgId'[r] = y
      BY <1>1, <2>1, <3>1
    <3> QED BY <3>2 DEF Names
  <2>2. CASE y \in Received /\ owner[y] = r
    BY <1>6, <2>2 DEF Names, Received
  <2>3. CASE \E k \in DOMAIN wire : wire[k].id = y /\ wire[k].r = r
    BY <1>2, <1>3, <2>3 DEF Names
  <2> QED BY <1>8, <2>1, <2>2, <2>3 DEF Names
<1>9. ASSUME NEW y \in 1..lastId', NEW r \in Sends, lastId < y
      PROVE  ~Names(ids, y, r)
  <2>1. ids[r] \in Nat /\ ids[r] <= lastId
    BY DEF Mid, Numbered
  <2>2. ids[r] # y
    BY <1>4, <1>9, <2>1
  <2>3. y \notin Received
    BY <1>4, <1>6, <1>9
  <2>4. \A k \in DOMAIN wire : wire[k].id # y
    BY <1>4, <1>5, <1>9
  <2> QED BY <2>2, <2>3, <2>4 DEF Names
<1>10. ASSUME NEW y \in 1..lastId', NEW r \in Sends, msgId'[r] = y
       PROVE  Names(msgId, y, r)'
  BY <1>10 DEF Names
<1>11. ASSUME NEW y \in 1..lastId, NEW r \in Sends
       PROVE  Names(msgId, y, r)' <=> Names(ids, y, r)
  <2>1. y \in 1..lastId'
    BY <1>4 DEF Pass, Renumbered
  <2>2. msgId'[r] = y => Names(ids, y, r)
    BY <1>1, <1>4 DEF Names
  <2> QED BY <1>7, <1>8, <2>1, <2>2
<1>12. ASSUME NEW y \in 1..lastId', NEW r \in Sends, lastId < y
       PROVE  Names(msgId, y, r)' <=> msgId'[r] = y
  BY <1>7, <1>9, <1>10, <1>12
<1> QED BY <1>11, <1>12

\* An id stays the id of one send.
LEMMA PassNamesRight ==
  ASSUME Types, NEW q, NEW ids, NEW tok, NEW w, NEW n, NEW dues, NEW forced, NEW pass,
         Mid(q, ids, tok, w, n), Pass(pass, q, ids, tok, dues, forced), Around(w, n)
  PROVE  NamesRight(msgId, wiped)'
<1> USE SendsAreNat
<1>1. /\ \A r \in Sends : ids[r] # 0 => msgId'[r] = ids[r]
      /\ \A r \in Sends : lastId < msgId'[r] => r \in Ids(pass) /\ ids[r] = 0
  BY PassFacts
<1>2. /\ \A y \in 1..lastId, r \in Sends : Names(msgId, y, r)' <=> Names(ids, y, r)
      /\ \A y \in 1..lastId', r \in Sends :
           lastId < y => (Names(msgId, y, r)' <=> msgId'[r] = y)
  BY PassNames
<1>3. wiped' = w /\ lastId \in Nat /\ lastId' \in Nat
  BY DEF Around, Types, Pass, Renumbered
<1> SUFFICES ASSUME NEW y \in 1..lastId', NEW r \in Sends, Names(msgId, y, r)'
             PROVE  /\ r \notin w => msgId'[r] = y
                    /\ \A s \in Sends : Names(msgId, y, s)' => r = s
  BY <1>3 DEF NamesRight
<1>4. CASE y <= lastId
  <2>1. y \in 1..lastId
    BY <1>3, <1>4
  <2>2. Names(ids, y, r) /\ \A s \in Sends : Names(msgId, y, s)' <=> Names(ids, y, s)
    BY <1>2, <2>1
  <2>3. /\ r \notin w => ids[r] = y
        /\ \A s \in Sends : Names(ids, y, s) => r = s
    BY <2>1, <2>2 DEF Mid, NamesRight
  <2> QED BY <1>1, <2>1, <2>2, <2>3
<1>5. CASE lastId < y
  <2>1. \A s \in Sends : Names(msgId, y, s)' <=> msgId'[s] = y
    BY <1>2, <1>5
  <2>2. ASSUME NEW s \in Sends, msgId'[s] = y, msgId'[r] = y PROVE r = s
    <3>1. r \in Ids(pass) /\ s \in Ids(pass) /\ ids[r] = 0 /\ ids[s] = 0
      BY <1>1, <1>5, <2>2
    <3>2. ~(msgId'[r] < msgId'[s]) /\ ~(msgId'[s] < msgId'[r])
      BY <2>2
    <3>3. ~(r < s) /\ ~(s < r)
      BY <3>1, <3>2 DEF Pass, Renumbered
    <3> QED BY <3>3
  <2> QED BY <2>1, <2>2
<1> QED BY <1>3, <1>4, <1>5

\* The ids stay in the order of the sends, but for those wiped.
LEMMA PassOrdered ==
  ASSUME Types, NEW q, NEW ids, NEW tok, NEW w, NEW n, NEW dues, NEW forced, NEW pass,
         Mid(q, ids, tok, w, n), Pass(pass, q, ids, tok, dues, forced), Around(w, n)
  PROVE  Ordered(msgId, wiped)'
<1> USE SendsAreNat
<1>1. wiped' = w /\ lastId \in Nat /\ lastId' \in Nat /\ n \in Nat
  BY DEF Around, Types, Pass, Renumbered, Mid
<1> SUFFICES ASSUME NEW a \in Sends, NEW b \in Sends, a < b, msgId'[b] # 0, a \notin w
             PROVE  0 < msgId'[a] /\ msgId'[a] < msgId'[b]
  BY <1>1 DEF Ordered
<1>2. /\ a < b /\ ids[b] # 0 => 0 < ids[a] /\ ids[a] < ids[b]
      /\ ids[a] \in Nat /\ ids[a] <= lastId /\ ids[b] \in Nat
  BY DEF Mid, Ordered, Numbered
<1>3. /\ ids[a] # 0 => msgId'[a] = ids[a]
      /\ ids[b] # 0 => msgId'[b] = ids[b]
  BY PassFacts
<1>4. CASE ids[b] # 0
  BY <1>2, <1>3, <1>4
<1>5. CASE ids[b] = 0
  <2>1. b \in Ids(pass)
    BY <1>5 DEF Pass, Renumbered
  <2>2. lastId < msgId'[b] /\ b <= n /\ channel # 0
    <3>1. b <= n /\ channel # 0
      BY <2>1, PassFacts
    <3>2. lastId < msgId'[b]
      BY <1>5, <2>1 DEF Pass, Renumbered
    <3> QED BY <3>1, <3>2
  <2>3. CASE ids[a] # 0
    <3>1. msgId'[a] = ids[a] /\ 0 < ids[a] /\ msgId'[b] \in Nat
      BY <1>2, <1>3, <2>3 DEF Pass, Renumbered
    <3> QED BY <1>1, <1>2, <2>2, <3>1
  <2>4. CASE ids[a] = 0
    <3>1. a \in Ids(q) /\ a <= n
      BY <1>1, <2>2, <2>4 DEF Mid, Numbered
    <3>2. b \in Ids(q)
      BY <1>1, <2>2, <3>1 DEF Mid, Lists
    <3>3. a \in Ids(pass)
      BY <2>2, <3>1 DEF Pass, Listed, Promoted
    <3>4. lastId < msgId'[a] /\ msgId'[a] < msgId'[b]
      BY <1>5, <2>1, <2>4, <3>3 DEF Pass, Renumbered
    <3>5. msgId'[a] \in Nat
      BY DEF Pass, Renumbered
    <3> QED BY <1>1, <3>4, <3>5
  <2> QED BY <2>3, <2>4
<1> QED BY <1>4, <1>5

\* What was settled stays so.
LEMMA PassSettled ==
  ASSUME Types, NEW q, NEW ids, NEW tok, NEW w, NEW n, NEW dues, NEW forced, NEW pass,
         Mid(q, ids, tok, w, n), Pass(pass, q, ids, tok, dues, forced), Around(w, n),
         NEW a \in Sends, Settled(ids, a)
  PROVE  Settled(msgId, a)' /\ msgId'[a] = ids[a]
<1>1. ids[a] # 0
  BY DEF Settled, Types
<1>2. msgId'[a] = ids[a]
  BY <1>1, PassFacts
<1>3. outcome' = outcome
  BY DEF Around
<1> QED BY <1>2, <1>3 DEF Settled, Answered

\* What left the lists was settled.
LEMMA PassGone ==
  ASSUME Types, NEW q, NEW ids, NEW tok, NEW w, NEW n, NEW dues, NEW forced, NEW pass,
         Mid(q, ids, tok, w, n), Pass(pass, q, ids, tok, dues, forced), Around(w, n)
  PROVE  Gone(queue, msgId, wiped, asked)'
<1>1. wiped' = w /\ asked' = n
  BY DEF Around
<1>2. Ids(q) \cup Ids(running) \subseteq Ids(queue') \cup Ids(running')
  BY DEF Pass, Listed, Promoted
<1> SUFFICES ASSUME NEW a \in Sends, a <= n, a \notin Ids(queue') \cup Ids(running') \cup w
             PROVE  Settled(msgId, a)'
  BY <1>1 DEF Gone
<1>3. Settled(ids, a)
  BY <1>2 DEF Mid, Gone
<1> QED BY <1>3, PassSettled

\* What is carried out is so in order.
LEMMA PassRunInOrder ==
  ASSUME Types, NEW q, NEW ids, NEW tok, NEW w, NEW n, NEW dues, NEW forced, NEW pass,
         Mid(q, ids, tok, w, n), Pass(pass, q, ids, tok, dues, forced), Around(w, n)
  PROVE  RunInOrder(msgId, wiped)'
<1>1. wiped' = w /\ executed' = executed
  BY DEF Around
<1>2. early' = {} => early = {}
  BY DEF Pass
<1> SUFFICES ASSUME early = {}, NEW b \in Ids(executed), NEW a \in Sends, a < b, Good(w, a)
             PROVE  Settled(msgId, a)'
  BY <1>1, <1>2 DEF RunInOrder, Good
<1>3. Settled(ids, a)
  BY DEF Mid, RunInOrder
<1> QED BY <1>3, PassSettled

\* When a pass that is counted on leaves out a running send, what goes again in it
\* was wiped.
LEMMA LeftOut ==
  ASSUME Types, NEW q, NEW ids, NEW tok, NEW w, NEW n, NEW dues, NEW forced, NEW pass,
         Mid(q, ids, tok, w, n), Pass(pass, q, ids, tok, dues, forced), early' = {},
         NEW r \in Ids(running), r \notin Ids(pass), NEW b \in Ids(pass), b \notin Ids(q)
  PROVE  ~notice /\ channel # 0 /\ OnChannel(ids, tok) /\ ids[b] = 0 /\ b \in w
<1>1. b \in Again(tok, dues, forced) /\ r \notin Again(tok, dues, forced)
  BY DEF Pass, Listed, Promoted
<1>2. channel # 0 /\ ~forced /\ tok[b] # channel /\ b \in Ids(running)
  BY <1>1 DEF Again, SendsAgain
<1>3. ~notice
  BY <1>1, <1>2 DEF Pass
<1>4. OnChannel(ids, tok)
  BY <1>2, <1>3 DEF Mid, TokensRight
<1>5. ids[b] = 0
  BY <1>2, <1>4 DEF OnChannel
<1>6. b \in Sends /\ b <= n
  BY PassFacts
<1>7. b \in w
  BY <1>5, <1>6 DEF Mid, Numbered
<1> QED BY <1>2, <1>3, <1>4, <1>5, <1>7

\* A message of b that waits for y does so once the pass is over.
CoversAfter(w, b, y) ==
  \A a \in Sends : a < b /\ Good(w, a) =>
    msgId'[a] # 0 /\ (Settled(msgId, a)' \/ y >= msgId'[a])

\* The messages of the pass are after all that is before them.
LEMMA PassBehind ==
  ASSUME Types, NEW q, NEW ids, NEW tok, NEW w, NEW n, NEW dues, NEW forced, NEW pass,
         Mid(q, ids, tok, w, n), Pass(pass, q, ids, tok, dues, forced), Around(w, n)
  PROVE  Behind(msgId, wiped)'
<1> USE SendsAreNat
<1> DEFINE rest == Ids(running) \ Again(tok, dues, forced)
<1>1. /\ wiped' = w /\ after' = after /\ owner' = owner
      /\ early' = {} => early = {}
  BY DEF Around, Pass
<1> SUFFICES ASSUME early = {}, early' = {}
             PROVE  /\ \A k \in DOMAIN wire' : CoversAfter(w, wire'[k].r, wire'[k].after)
                    /\ \A id \in Received : CoversAfter(w, owner[id], after[id])
  BY <1>1 DEF Behind, Received, Covers, CoversAfter, Good
<1>2. ASSUME NEW b \in Sends, NEW y, Covers(ids, w, b, y)
      PROVE  CoversAfter(w, b, y)
  <2> SUFFICES ASSUME NEW a \in Sends, a < b, Good(w, a)
               PROVE  msgId'[a] # 0 /\ (Settled(msgId, a)' \/ y >= msgId'[a])
    BY DEF CoversAfter
  <2>1. ids[a] # 0 /\ (Settled(ids, a) \/ y >= ids[a])
    BY <1>2 DEF Covers
  <2>2. msgId'[a] = ids[a]
    BY <2>1, PassFacts
  <2> QED BY <2>1, <2>2, PassSettled
<1>3. ASSUME NEW id \in Received
      PROVE  CoversAfter(w, owner[id], after[id])
  <2>1. owner[id] \in Sends /\ Covers(ids, w, owner[id], after[id])
    BY DEF Types, Mid, Behind
  <2> QED BY <1>2, <2>1
<1>4. /\ wire \in Seq(Messages) /\ pass \in Seq(Sends) /\ Climbs(pass)
      /\ Len(wire) \in Nat /\ DOMAIN wire = 1..Len(wire) /\ DOMAIN pass = 1..Len(pass)
      /\ Len(pass) \in Nat
  <2>1. wire \in Seq(Messages) /\ pass \in Seq(Sends) /\ Climbs(pass)
    BY DEF Types, Pass, Listed
  <2> QED BY <2>1
<1>5. ASSUME NEW i \in DOMAIN pass
      PROVE  CoversAfter(w, pass[i], MessageAt(pass, i, rest).after)
  <2> DEFINE y == IF i = 1 THEN Before(rest, msgId') ELSE msgId'[pass[i - 1]]
             b == pass[i]
  <2>0. MessageAt(pass, i, rest).after = y
    BY DEF MessageAt
  <2>1. b \in Ids(pass) /\ b \in Sends /\ b <= n /\ channel # 0 /\ n \in Nat
    <3>1. b \in Ids(pass)
      BY <1>4, IdsOf
    <3> HIDE DEF b
    <3>2. b \in Sends /\ b <= n /\ channel # 0
      BY <3>1, PassFacts
    <3> QED BY <3>1, <3>2 DEF Mid
  <2> SUFFICES ASSUME NEW a \in Sends, a < b, Good(w, a)
               PROVE  msgId'[a] # 0 /\ (Settled(msgId, a)' \/ y >= msgId'[a])
    BY <2>0 DEF CoversAfter
  <2> HIDE DEF y, b
  <2>2. a \notin w /\ a <= n
    BY <2>1 DEF Good
  <2>3. msgId'[a] # 0
    <3>1. a \notin Ids(queue')
      BY <2>1 DEF Pass, Listed
    <3> QED BY <2>2, <3>1, PassFacts
  <2>4. msgId' \in [Sends -> Nat] /\ lastId' \in Nat /\ \A r \in Sends : msgId'[r] <= lastId'
    BY PassFacts DEF Pass, Renumbered
  <2>5. CASE a \in Ids(pass)
    <3>1. PICK j \in DOMAIN pass : pass[j] = a
      BY <1>4, <2>5, IdsOf
    <3>2. j < i /\ i \in Nat /\ j \in Nat
      BY <1>4, <3>1, ClimbsInOrder DEF b
    <3>3. i # 1 /\ i - 1 \in DOMAIN pass /\ j <= i - 1
      BY <1>4, <3>1, <3>2
    <3> DEFINE c == pass[i - 1]
    <3>4. y = msgId'[c] /\ c \in Sends
      BY <1>4, <3>3 DEF y
    <3>5. a = c \/ a < c
      <4>1. CASE j = i - 1
        BY <3>1, <4>1
      <4>2. CASE j < i - 1
        BY <3>1, <3>3, <4>2, <1>4 DEF Climbs
      <4> QED BY <3>2, <3>3, <4>1, <4>2
    <3>6. c \in Ids(pass)
      BY <1>4, <3>3, IdsOf
    <3> HIDE DEF c
    <3>7. a < c => msgId'[a] < msgId'[c]
      <4>1. msgId'[c] # 0
        <5>1. ids[c] # 0 => msgId'[c] # 0
          BY <3>4, PassFacts
        <5>2. ids[c] = 0 => msgId'[c] # 0
          BY <3>6 DEF Pass, Renumbered, Types
        <5> QED BY <5>1, <5>2
      <4>2. Ordered(msgId, wiped)'
        BY PassOrdered
      <4> QED BY <1>1, <2>2, <3>4, <4>1, <4>2 DEF Ordered
    <3> QED BY <2>3, <2>4, <3>4, <3>5, <3>7
  <2>6. CASE a \notin Ids(pass) /\ a \notin Ids(running)
    <3>1. a \notin Ids(q)
      BY <2>1, <2>6 DEF Pass, Listed, Promoted
    <3>2. Settled(ids, a)
      BY <2>2, <2>6, <3>1 DEF Mid, Gone
    <3> QED BY <2>3, <3>2, PassSettled
  <2>7. CASE a \notin Ids(pass) /\ a \in Ids(running) /\ i = 1
    <3>1. a \in rest
      BY <2>7 DEF Pass, Listed
    <3>2. rest \in SUBSET Sends
      <4>1. Ids(running) \subseteq Sends
        BY IdsOf DEF Types
      <4> QED BY <4>1
    <3> HIDE DEF rest
    <3> DEFINE z == msgId'
               l == lastId'
    <3>3. z \in [Sends -> Nat] /\ l \in Nat /\ \A r \in Sends : z[r] <= l
      BY <2>4
    <3> HIDE DEF z, l
    <3>4. z[a] <= Before(rest, z) /\ Before(rest, z) \in 0..l /\ z[a] \in Nat
      BY <3>1, <3>2, <3>3, BeforeIsGreatest
    <3>5. Before(rest, z) >= z[a]
      BY <3>3, <3>4
    <3> QED BY <2>3, <2>7, <3>5 DEF y, z
  <2>8. CASE a \notin Ids(pass) /\ a \in Ids(running) /\ i # 1
    <3> DEFINE c == pass[i - 1]
    <3>1. i - 1 \in DOMAIN pass /\ c \in Sends /\ c \in Ids(pass)
      <4>1. i - 1 \in DOMAIN pass
        BY <1>4, <2>8
      <4> QED BY <1>4, <4>1, IdsOf
    <3>2. y = msgId'[c]
      BY <2>8 DEF y
    <3> HIDE DEF c
    <3>3. a < c
      <4>1. CASE c \in Ids(q)
        BY <2>2, <2>8, <3>1, <4>1 DEF Mid, Lists
      <4>2. CASE c \notin Ids(q)
        <5>1. c \in w
          BY <2>8, <3>1, <4>2, LeftOut
        <5> QED BY <5>1 DEF Good
      <4> QED BY <4>1, <4>2
    <3>4. msgId'[c] # 0
      <4>1. ids[c] # 0 => msgId'[c] # 0
        <5>1. \A r \in Sends : ids[r] # 0 => msgId'[r] = ids[r]
          BY PassFacts
        <5> QED BY <3>1, <5>1
      <4>2. ids[c] = 0 => lastId < msgId'[c] /\ msgId'[c] \in Nat
        BY <3>1 DEF Pass, Renumbered
      <4>3. lastId \in Nat
        BY DEF Types
      <4> QED BY <4>1, <4>2, <4>3
    <3>5. Ordered(msgId, wiped)'
      BY PassOrdered
    <3>6. msgId'[a] < msgId'[c]
      BY <1>1, <2>2, <3>1, <3>3, <3>4, <3>5 DEF Ordered
    <3> QED BY <2>3, <2>4, <3>1, <3>2, <3>6
  <2> QED BY <2>5, <2>6, <2>7, <2>8
<1>6. ASSUME NEW k \in DOMAIN wire'
      PROVE  CoversAfter(w, wire'[k].r, wire'[k].after)
  <2>1. CASE k \in DOMAIN wire
    <3>1. wire'[k] = wire[k] /\ wire[k] \in Messages /\ Covers(ids, w, wire[k].r, wire[k].after)
      BY <1>4, <2>1 DEF Pass, Sent, Mid, Behind
    <3>2. wire[k].r \in Sends
      BY <3>1 DEF Messages
    <3>3. CoversAfter(w, wire[k].r, wire[k].after)
      BY <1>2, <3>1, <3>2
    <3> QED BY <3>1, <3>3
  <2>2. CASE k > Len(wire)
    <3> DEFINE i == k - Len(wire)
    <3>1. i \in DOMAIN pass /\ wire'[k] = MessageAt(pass, i, rest)
      BY <2>2 DEF Pass, Sent
    <3> HIDE DEF i
    <3>2. wire'[k].r = pass[i]
      BY <3>1 DEF MessageAt
    <3>3. CoversAfter(w, pass[i], MessageAt(pass, i, rest).after)
      BY <1>5, <3>1
    <3> QED BY <3>1, <3>2, <3>3
  <2>3. k \in DOMAIN wire \/ k > Len(wire)
    BY <1>4 DEF Pass, Sent
  <2> QED BY <2>1, <2>2, <2>3
<1> QED BY <1>3, <1>6

\* What was sent again has the token of the channel.
LEMMA PassTokensRight ==
  ASSUME Types, NEW q, NEW ids, NEW tok, NEW w, NEW n, NEW dues, NEW forced \in BOOLEAN,
         NEW pass, Mid(q, ids, tok, w, n), Pass(pass, q, ids, tok, dues, forced),
         Around(w, n), ~forced => notice' = notice
  PROVE  TokensRight(msgId, token)'
<1> USE SendsAreNat
<1>1. /\ channel' = channel /\ opened' = opened /\ after' = after
      /\ channel \in Nat /\ channel <= opened /\ opened \in Nat
      /\ token' = [ r \in Sends |-> IF r \in Ids(pass) THEN channel ELSE tok[r] ]
  BY BoundAssumption DEF Around, network, Types, Pass
<1>2. /\ \A r \in Sends : tok[r] <= opened
      /\ channel # 0 /\ ~notice => OnChannel(ids, tok)
      /\ \A r \in Ids(running) :
           channel # 0 /\ ids[r] # 0 /\ tok[r] = channel =>
             ids[r] \in Received \/ \E k \in DOMAIN wire : wire[k].id = ids[r]
  BY DEF Mid, TokensRight
<1>3. /\ \A r \in Ids(running') : r \in Sends /\ (r \in Ids(pass) \/ r \in Ids(running))
      /\ \A r \in Sends : r \notin Ids(pass) => msgId'[r] = ids[r]
  <2>1. running' \in Seq(Sends)
    BY DEF Pass, Listed
  <2>2. Ids(running') \subseteq Sends
    BY <2>1, IdsOf
  <2>3. \A r \in Ids(running') : r \in Ids(pass) \/ r \in Ids(running)
    BY PassFacts
  <2> QED BY <2>2, <2>3 DEF Pass, Renumbered
<1>4. \A r \in Sends : token'[r] <= opened
  BY <1>1, <1>2
<1>5. ASSUME channel # 0, ~notice', NEW r \in Ids(running'), msgId'[r] # 0
      PROVE  token'[r] = channel
  <2>1. CASE r \in Ids(pass)
    BY <1>1, <1>3, <2>1
  <2>2. CASE r \notin Ids(pass)
    <3>1. r \in Sends /\ r \in Ids(running) /\ ids[r] # 0 /\ token'[r] = tok[r]
      BY <1>1, <1>3, <1>5, <2>2
    <3>2. ~forced
      <4>1. r \notin Again(tok, dues, forced)
        BY <2>2 DEF Pass, Listed
      <4> QED BY <1>5, <3>1, <4>1 DEF Again, SendsAgain
    <3>3. OnChannel(ids, tok)
      BY <1>2, <1>5, <3>2
    <3> QED BY <3>1, <3>3 DEF OnChannel
  <2> QED BY <2>1, <2>2
<1>6. ASSUME NEW r \in Ids(running'), channel # 0, msgId'[r] # 0, token'[r] = channel
      PROVE  msgId'[r] \in Received \/ \E k \in DOMAIN wire' : wire'[k].id = msgId'[r]
  <2>0. wire \in Seq(Messages) /\ pass \in Seq(Sends)
    BY DEF Types, Pass, Listed
  <2>1. /\ Len(wire) \in Nat /\ Len(pass) \in Nat /\ DOMAIN wire = 1..Len(wire)
        /\ DOMAIN pass = 1..Len(pass)
    BY <2>0
  <2>2. CASE r \in Ids(pass)
    <3>1. PICK i \in DOMAIN pass : pass[i] = r
      BY <2>0, <2>2, IdsOf
    <3>2. Len(wire) + i \in DOMAIN wire' /\ wire'[Len(wire) + i].id = msgId'[r]
      <4>1. Len(wire) + i \in 1..(Len(wire) + Len(pass))
        BY <2>1
      <4> QED BY <3>1, <4>1 DEF Pass, Sent, MessageAt
    <3> QED BY <3>2
  <2>3. CASE r \notin Ids(pass)
    <3>1. r \in Sends /\ r \in Ids(running) /\ ids[r] = msgId'[r] /\ tok[r] = channel
      BY <1>1, <1>3, <1>6, <2>3
    <3>2. msgId'[r] \in Received \/ \E k \in DOMAIN wire : wire[k].id = msgId'[r]
      BY <1>2, <1>6, <3>1
    <3>3. \A k \in DOMAIN wire : k \in DOMAIN wire' /\ wire'[k] = wire[k]
      BY <2>1 DEF Pass, Sent
    <3> QED BY <3>2, <3>3
  <2> QED BY <2>2, <2>3
<1> QED BY <1>1, <1>4, <1>5, <1>6 DEF TokensRight, OnChannel, Received

\* What a send waits for, once the pass is over.
NamesAfter(y, s) ==
  \/ msgId'[s] = y
  \/ y \in Received /\ owner[y] = s
  \/ \E k \in DOMAIN wire' : wire'[k].id = y /\ wire'[k].r = s

DownAfter(w, r, y) ==
  \/ y = 0
  \/ \E s \in Sends : s < r /\ NamesAfter(y, s)
  \/ (\A s \in Sends : ~NamesAfter(y, s)) /\ \E s \in w : s < r

\* What waits for an earlier send does so after the pass.
LEMMA PassDown ==
  ASSUME Types, NEW q, NEW ids, NEW tok, NEW w, NEW n, NEW dues, NEW forced, NEW pass,
         Mid(q, ids, tok, w, n), Pass(pass, q, ids, tok, dues, forced), Around(w, n),
         NEW r, NEW y \in 0..lastId, Down(ids, w, r, y)
  PROVE  DownAfter(w, r, y)
<1>1. \A x \in 1..lastId, s \in Sends : NamesAfter(x, s) <=> Names(ids, x, s)
  <2> TAKE x \in 1..lastId, s \in Sends
  <2>1. Names(msgId, x, s)' <=> Names(ids, x, s)
    BY PassNames
  <2>2. NamesAfter(x, s) <=> Names(msgId, x, s)'
    BY DEF NamesAfter, Names, Around, Received
  <2> QED BY <2>1, <2>2
<1>2. y = 0 \/ y \in 1..lastId
  BY DEF Types
<1>3. CASE y = 0
  BY <1>3 DEF DownAfter
<1>4. CASE y # 0
  BY <1>1, <1>2, <1>4 DEF DownAfter, Down
<1> QED BY <1>3, <1>4

\* What seals or will seal does so after the pass.
LEMMA PassSeals ==
  ASSUME Types, NEW q, NEW ids, NEW tok, NEW w, NEW n, NEW dues, NEW forced, NEW pass,
         Mid(q, ids, tok, w, n), Pass(pass, q, ids, tok, dues, forced), Around(w, n)
  PROVE  /\ \A z \in 1..lastId : Seals(ids, z) => Seals(msgId, z)'
         /\ \A k \in DOMAIN wire : WillSeal(ids, k) => WillSeal(msgId, k)'
<1> USE SendsAreNat
<1>0. wire \in Seq(Messages) /\ pass \in Seq(Sends) /\ running' \in Seq(Sends)
  BY DEF Types, Pass, Listed
<1>1. /\ Len(wire) \in Nat /\ Len(pass) \in Nat /\ DOMAIN wire = 1..Len(wire)
      /\ DOMAIN pass = 1..Len(pass)
  BY <1>0
<1>2. /\ DOMAIN wire \subseteq DOMAIN wire'
      /\ \A k \in DOMAIN wire : wire'[k] = wire[k]
      /\ \A k \in DOMAIN wire' : k \in DOMAIN wire \/ k > Len(wire)
  BY <1>1 DEF Pass, Sent
<1>3. \A k \in DOMAIN wire' : k > Len(wire) =>
        \E r \in Ids(running') : wire'[k].id = msgId'[r] /\ r \in Sends
  <2> TAKE k \in DOMAIN wire'
  <2> HAVE k > Len(wire)
  <2> DEFINE i == k - Len(wire)
  <2>1. i \in DOMAIN pass /\ wire'[k].id = msgId'[pass[i]]
    BY DEF Pass, Sent, MessageAt
  <2> HIDE DEF i
  <2>2. pass[i] \in Ids(pass)
    BY <1>0, <2>1, IdsOf
  <2>3. pass[i] \in Ids(running') /\ pass[i] \in Sends
    BY <2>2, PassFacts
  <2> QED BY <2>1, <2>3
<1>4. /\ after' = after /\ Received \subseteq 1..lastId /\ after \in [Received -> 0..lastId]
      /\ lastId \in Nat
      /\ \A k \in DOMAIN wire : wire[k].id \in 1..lastId
  BY DEF Types, Around
<1>5. /\ \A r \in Ids(running') :
           0 < msgId'[r] /\ msgId'[r] <= lastId => r \in Ids(running) /\ ids[r] = msgId'[r]
      /\ \A r \in Ids(running') : r \in Sends /\ msgId'[r] \in Nat
  <2>1. Ids(running') \subseteq Sends
    BY <1>0, IdsOf
  <2>2. \A r \in Ids(running') :
          0 < msgId'[r] /\ msgId'[r] <= lastId => r \in Ids(running) /\ ids[r] = msgId'[r]
    BY PassFacts
  <2> QED BY <2>1, <2>2 DEF Pass, Renumbered
<1>6. ASSUME NEW z \in 1..lastId, NEW r \in Ids(running'), 0 < msgId'[r], msgId'[r] < z
      PROVE  r \in Ids(running) /\ ids[r] = msgId'[r]
  BY <1>4, <1>5, <1>6
<1>7. \A k \in DOMAIN wire' : wire'[k].id \in Nat /\ wire'[k].id > 0
  <2> TAKE k \in DOMAIN wire'
  <2>1. CASE k \in DOMAIN wire
    BY <1>2, <1>4, <2>1
  <2>2. CASE k > Len(wire)
    <3> DEFINE i == k - Len(wire)
    <3>1. i \in DOMAIN pass /\ wire'[k].id = msgId'[pass[i]]
      BY <2>2 DEF Pass, Sent, MessageAt
    <3> HIDE DEF i
    <3>2. pass[i] \in Ids(pass) /\ pass[i] \in Sends
      BY <1>0, <3>1, IdsOf
    <3>3. msgId'[pass[i]] \in Nat
      BY <3>2 DEF Pass, Renumbered
    <3>4. ids[pass[i]] = 0 => msgId'[pass[i]] > lastId
      BY <3>2, <3>3 DEF Pass, Renumbered
    <3>5. ids[pass[i]] # 0 => msgId'[pass[i]] # 0
      BY <3>2 DEF Pass, Renumbered
    <3> QED BY <1>4, <3>1, <3>3, <3>4, <3>5
  <2> QED BY <1>2, <2>1, <2>2
<1>8. ASSUME NEW z \in 1..lastId, Seals(ids, z)
      PROVE  Seals(msgId, z)'
  <2>1. /\ \A i \in Received : i <= z => after[i] < z
        /\ \A r \in Ids(running) : 0 < ids[r] /\ ids[r] < z => ids[r] \in Received
        /\ \A k \in DOMAIN wire : wire[k].id < z => wire[k].id \in Received
    BY <1>8 DEF Seals
  <2>2. \A r \in Ids(running') : 0 < msgId'[r] /\ msgId'[r] < z => msgId'[r] \in Received
    BY <1>6, <2>1
  <2>3. ASSUME NEW k \in DOMAIN wire', wire'[k].id < z PROVE wire'[k].id \in Received
    <3>1. CASE k \in DOMAIN wire
      BY <1>2, <2>1, <2>3, <3>1
    <3>2. CASE k > Len(wire)
      BY <1>3, <1>7, <2>2, <2>3, <3>2
    <3> QED BY <1>2, <3>1, <3>2
  <2> QED BY <1>4, <2>1, <2>2, <2>3 DEF Seals, Received
<1>9. ASSUME NEW k \in DOMAIN wire, WillSeal(ids, k)
      PROVE  WillSeal(msgId, k)'
  <2> DEFINE z == wire[k].id
  <2>1. z \in 1..lastId /\ wire'[k].id = z /\ wire'[k].after = wire[k].after /\ k \in Nat /\ k <= Len(wire)
    BY <1>1, <1>2, <1>4
  <2>2. /\ wire[k].after < z
        /\ \A i \in Received : i < z => after[i] < z
        /\ \A l \in DOMAIN wire : l < k /\ wire[l].id < z => wire[l].after < z
        /\ \A r \in Ids(running) : 0 < ids[r] /\ ids[r] < z =>
             ids[r] \in Received \/ \E l \in DOMAIN wire : l < k /\ wire[l].id = ids[r]
        /\ \A l \in DOMAIN wire : l > k /\ wire[l].id < z =>
             wire[l].id \in Received \/ \E j \in DOMAIN wire : j < k /\ wire[j].id = wire[l].id
    BY <1>9 DEF WillSeal
  <2> HIDE DEF z
  <2>3. \A l \in DOMAIN wire' : l < k => l \in DOMAIN wire
    BY <1>1, <1>2, <2>1
  <2>4. \A l \in DOMAIN wire' : l < k /\ wire'[l].id < z => wire'[l].after < z
    BY <1>2, <2>2, <2>3
  <2>5. ASSUME NEW r \in Ids(running'), 0 < msgId'[r], msgId'[r] < z
        PROVE  msgId'[r] \in Received \/ \E l \in DOMAIN wire' : l < k /\ wire'[l].id = msgId'[r]
    <3>1. r \in Ids(running) /\ ids[r] = msgId'[r]
      BY <1>6, <2>1, <2>5
    <3>2. msgId'[r] \in Received \/ \E l \in DOMAIN wire : l < k /\ wire[l].id = msgId'[r]
      BY <2>2, <2>5, <3>1
    <3> QED BY <1>2, <3>2
  <2>6. ASSUME NEW l \in DOMAIN wire', l > k, wire'[l].id < z
        PROVE  wire'[l].id \in Received \/ \E j \in DOMAIN wire' : j < k /\ wire'[j].id = wire'[l].id
    <3>1. CASE l \in DOMAIN wire
      BY <1>2, <2>2, <2>6, <3>1
    <3>2. CASE l > Len(wire)
      BY <1>3, <1>7, <2>5, <2>6, <3>2
    <3> QED BY <1>2, <3>1, <3>2
  <2> QED BY <1>4, <2>1, <2>2, <2>4, <2>5, <2>6 DEF WillSeal, Received
<1> QED BY <1>8, <1>9

\* The first message of a pass waits for an earlier send, or it is of a wiped one
\* and seals.
LEMMA PassFirst ==
  ASSUME Types, NEW q, NEW ids, NEW tok, NEW w, NEW n, NEW dues, NEW forced, NEW pass,
         Mid(q, ids, tok, w, n), Pass(pass, q, ids, tok, dues, forced), Around(w, n),
         early' = {}, 1 \in DOMAIN pass, NEW k \in DOMAIN wire', k = Len(wire) + 1
  PROVE  \/ DownAfter(w, pass[1], wire'[k].after)
         \/ pass[1] \in w /\ WillSeal(msgId, k)'
<1> USE SendsAreNat
<1> DEFINE rest == Ids(running) \ Again(tok, dues, forced)
           b == pass[1]
           y == wire'[k].after
           z == msgId'[b]
<1>0. /\ wire \in Seq(Messages) /\ pass \in Seq(Sends) /\ Climbs(pass)
      /\ running \in Seq(Sends) /\ running' \in Seq(Sends)
  BY DEF Types, Pass, Listed
<1>1. /\ Len(wire) \in Nat /\ Len(pass) \in Nat /\ DOMAIN wire = 1..Len(wire)
      /\ DOMAIN pass = 1..Len(pass)
  BY <1>0
<1>2. /\ DOMAIN wire \subseteq DOMAIN wire' /\ DOMAIN wire' \subseteq Nat
      /\ \A l \in DOMAIN wire : wire'[l] = wire[l] /\ l < k
      /\ \A l \in DOMAIN wire' : l < k => l \in DOMAIN wire
      /\ \A l \in DOMAIN wire' : l > k =>
           /\ l - Len(wire) \in DOMAIN pass /\ l - Len(wire) > 1
           /\ wire'[l].id = msgId'[pass[l - Len(wire)]]
  <2>1. DOMAIN wire' = 1..(Len(wire) + Len(pass))
    BY DEF Pass, Sent
  <2>2. \A l \in DOMAIN wire' : l > k =>
           /\ l - Len(wire) \in DOMAIN pass /\ wire'[l].id = msgId'[pass[l - Len(wire)]]
    BY <1>1 DEF Pass, Sent, MessageAt
  <2>3. \A l \in DOMAIN wire' : l > k => l - Len(wire) > 1
    BY <1>1, <2>1
  <2>4. \A l \in DOMAIN wire : wire'[l] = wire[l]
    BY DEF Pass, Sent
  <2>5. /\ DOMAIN wire \subseteq DOMAIN wire' /\ DOMAIN wire' \subseteq Nat
        /\ \A l \in DOMAIN wire : l < k
        /\ \A l \in DOMAIN wire' : l < k => l \in DOMAIN wire
    BY <1>1, <2>1
  <2> QED BY <2>2, <2>3, <2>4, <2>5
<1>3. wire'[k].id = z /\ wire'[k].r = b /\ y = Before(rest, msgId')
  <2>1. wire'[k] = MessageAt(pass, 1, rest)
    BY <1>1 DEF Pass, Sent
  <2> QED BY <2>1 DEF MessageAt
<1>4. /\ rest \in SUBSET Sends /\ rest \subseteq Ids(running)
      /\ b \in Ids(pass) /\ b \in Sends /\ channel # 0
      /\ n \in Nat /\ lastId \in Nat /\ lastId' \in Nat
  <2>1. Ids(running) \subseteq Sends
    BY <1>0, IdsOf
  <2>2. b \in Ids(pass)
    BY <1>0, IdsOf
  <2> HIDE DEF b
  <2>3. b \in Sends /\ channel # 0
    BY <2>2, PassFacts
  <2> QED BY <2>1, <2>2, <2>3 DEF Mid, Types, Pass, Renumbered
<1> HIDE DEF rest, b, y, z
<1>5. y \in Nat /\ (y = 0 \/ \E r \in rest : msgId'[r] = y)
  <2> DEFINE m == msgId'
             l == lastId'
  <2>1. m \in [Sends -> Nat] /\ l \in Nat /\ \A r \in Sends : m[r] <= l
    BY PassFacts DEF Pass, Renumbered
  <2>2. y = Before(rest, m)
    BY <1>3
  <2> HIDE DEF m, l
  <2>3. y \in 0..l /\ (y = 0 \/ \E r \in rest : m[r] = y)
    BY <1>4, <2>1, <2>2, BeforeIsGreatest
  <2> QED BY <2>1, <2>3 DEF m
<1>6. CASE y = 0
  BY <1>6 DEF DownAfter, b, y
<1>7. ASSUME NEW r \in rest, msgId'[r] = y, y # 0
      PROVE  \/ DownAfter(w, b, y)
             \/ b \in w /\ WillSeal(msgId, k)'
  <2>1. r \in Sends /\ r \in Ids(running)
    BY <1>4
  <2>2. CASE r < b
    BY <1>7, <2>1, <2>2 DEF DownAfter, NamesAfter
  <2>3. CASE ~(r < b)
    <3>1. b \notin Ids(q)
      BY <1>4, <2>1, <2>3 DEF Mid, Lists
    <3>2. r \notin Ids(pass)
      <4>1. r \notin Again(tok, dues, forced) /\ r \notin Ids(q)
        BY <2>1 DEF rest, Mid, Lists
      <4> QED BY <4>1 DEF Pass, Listed, Promoted
    <3>3. ~notice /\ channel # 0 /\ OnChannel(ids, tok) /\ ids[b] = 0 /\ b \in w
      BY <1>4, <2>1, <3>1, <3>2, LeftOut
    <3>4. lastId < z /\ z \in Nat
      BY <1>4, <3>3 DEF Pass, Renumbered, z
    <3>5. y <= lastId
      <4>1. msgId'[r] = ids[r]
        BY <2>1, <3>2 DEF Pass, Renumbered
      <4>2. ids[r] <= lastId
        BY <2>1 DEF Mid, Numbered
      <4> QED BY <1>7, <4>1, <4>2
    <3>6. y < z
      BY <1>4, <1>5, <3>4, <3>5
    <3>7. \A i \in Received : after[i] < z
      <4>1. \A i \in Received : after[i] \in Nat /\ after[i] <= lastId
        BY <1>4 DEF Types
      <4> QED BY <1>4, <3>4, <4>1
    <3>8. \A l \in DOMAIN wire' : l < k => wire'[l].after < z
      <4>1. \A l \in DOMAIN wire : wire[l].after \in Nat /\ wire[l].after <= lastId
        BY <1>4 DEF Types
      <4> QED BY <1>2, <1>4, <3>4, <4>1
    <3>9. ASSUME NEW s \in Ids(running'), 0 < msgId'[s], msgId'[s] < z
          PROVE  msgId'[s] \in Received \/ \E l \in DOMAIN wire' : l < k /\ wire'[l].id = msgId'[s]
      <4>0. s \in Sends
        BY <1>0, IdsOf
      <4>1. ~(s \in Ids(pass) /\ ids[s] = 0)
        <5> SUFFICES ASSUME s \in Ids(pass), ids[s] = 0 PROVE FALSE
          OBVIOUS
        <5>1. PICK i \in DOMAIN pass : pass[i] = s
          BY <1>0, IdsOf
        <5>2. i = 1 \/ 1 < i
          BY <1>1
        <5>3. s = b \/ b < s
          BY <1>1, <5>1, <5>2 DEF b, Pass, Listed, Climbs
        <5>4. msgId'[s] = z \/ z < msgId'[s]
          BY <1>4, <3>3, <5>3 DEF Pass, Renumbered, z
        <5>5. msgId'[s] \in Nat
          BY <4>0 DEF Pass, Renumbered
        <5> QED BY <3>4, <3>9, <5>4, <5>5
      <4>2. msgId'[s] = ids[s] /\ ids[s] # 0
        <5>1. msgId'[s] = ids[s]
          BY <4>0, <4>1 DEF Pass, Renumbered
        <5> QED BY <3>9, <5>1
      <4>3. s \in Ids(running)
        <5>1. ids[s] <= lastId
          BY <4>0 DEF Mid, Numbered
        <5>2. 0 < msgId'[s] /\ msgId'[s] <= lastId
          BY <3>9, <4>2, <5>1
        <5> QED BY <5>2, PassFacts
      <4>4. tok[s] = channel
        BY <3>3, <4>2, <4>3 DEF OnChannel
      <4>5. ids[s] \in Received \/ \E l \in DOMAIN wire : wire[l].id = ids[s]
        BY <1>4, <4>2, <4>3, <4>4 DEF Mid, TokensRight
      <4> QED BY <1>2, <4>2, <4>5
    <3>10. ASSUME NEW l \in DOMAIN wire', l > k, wire'[l].id < z
           PROVE  wire'[l].id \in Received \/ \E j \in DOMAIN wire' : j < k /\ wire'[j].id = wire'[l].id
      <4> DEFINE i == l - Len(wire)
                 s == pass[i]
      <4>1. i \in DOMAIN pass /\ wire'[l].id = msgId'[s]
        BY <1>2, <3>10
      <4> HIDE DEF i
      <4>2. s \in Ids(pass)
        BY <1>0, <4>1, IdsOf
      <4> HIDE DEF s
      <4>3. s \in Ids(running') /\ s \in Sends
        BY <4>2, PassFacts
      <4>4. 0 < msgId'[s]
        <5>1. msgId'[s] \in Nat
          BY <4>3 DEF Pass, Renumbered
        <5>2. ids[s] = 0 => lastId < msgId'[s]
          BY <4>2 DEF Pass, Renumbered
        <5>3. ids[s] # 0 => msgId'[s] # 0
          BY <4>3 DEF Pass, Renumbered
        <5> QED BY <1>4, <5>1, <5>2, <5>3
      <4> QED BY <3>9, <3>10, <4>1, <4>3, <4>4
    <3>11. after' = after /\ wire'[k].after < z /\ wire'[k].id = z
      BY <1>3, <3>6 DEF Around, y
    <3>12. WillSeal(msgId, k)'
      BY <3>7, <3>8, <3>9, <3>10, <3>11 DEF WillSeal, Received
    <3> QED BY <3>3, <3>12
  <2> QED BY <2>2, <2>3
<1>8. CASE y # 0
  <2>1. PICK r \in rest : msgId'[r] = y
    BY <1>5, <1>8
  <2> QED BY <1>7, <1>8, <2>1 DEF b, y
<1> QED BY <1>6, <1>8

\* The messages of the pass wait for earlier sends, or seal.
LEMMA PassWaitsRight ==
  ASSUME Types, NEW q, NEW ids, NEW tok, NEW w, NEW n, NEW dues, NEW forced, NEW pass,
         Mid(q, ids, tok, w, n), Pass(pass, q, ids, tok, dues, forced), Around(w, n)
  PROVE  WaitsRight(msgId, wiped)'
<1> USE SendsAreNat
<1>1. /\ wiped' = w /\ after' = after /\ owner' = owner /\ (early' = {} => early = {})
  BY DEF Around, Pass
<1> SUFFICES ASSUME early = {}, early' = {}
             PROVE  /\ \A z \in Received : \/ DownAfter(w, owner[z], after[z])
                                           \/ owner[z] \in w /\ Seals(msgId, z)'
                    /\ \A k \in DOMAIN wire' :
                         \/ DownAfter(w, wire'[k].r, wire'[k].after)
                         \/ wire'[k].id \in Received
                         \/ wire'[k].r \in w /\ WillSeal(msgId, k)'
  <2>1. \A y, s : Names(msgId, y, s)' <=> NamesAfter(y, s)
    BY <1>1 DEF Names, NamesAfter, Received
  <2>2. \A r, y : Down(msgId, wiped, r, y)' <=> DownAfter(w, r, y)
    BY <1>1, <2>1 DEF Down, DownAfter
  <2>3. (\A z \in Received : \/ DownAfter(w, owner[z], after[z])
                             \/ owner[z] \in w /\ Seals(msgId, z)')
        => (\A z \in Received : \/ Down(msgId, wiped, owner[z], after[z])
                                \/ owner[z] \in wiped /\ Seals(msgId, z))'
    BY <1>1, <2>2 DEF Received
  <2>4. (\A k \in DOMAIN wire' : \/ DownAfter(w, wire'[k].r, wire'[k].after)
                                 \/ wire'[k].id \in Received
                                 \/ wire'[k].r \in w /\ WillSeal(msgId, k)')
        => (\A k \in DOMAIN wire : \/ Down(msgId, wiped, wire[k].r, wire[k].after)
                                   \/ wire[k].id \in Received
                                   \/ wire[k].r \in wiped /\ WillSeal(msgId, k))'
    BY <1>1, <2>2 DEF Received
  <2> QED BY <1>1, <2>3, <2>4 DEF WaitsRight
<1>2. /\ Received \subseteq 1..lastId /\ after \in [Received -> 0..lastId]
      /\ \A k \in DOMAIN wire : wire[k].after \in 0..lastId
  BY DEF Types
<1>3. /\ \A z \in Received : Down(ids, w, owner[z], after[z]) \/ (owner[z] \in w /\ Seals(ids, z))
      /\ \A k \in DOMAIN wire :
           \/ Down(ids, w, wire[k].r, wire[k].after) \/ wire[k].id \in Received
           \/ wire[k].r \in w /\ WillSeal(ids, k)
  BY DEF Mid, WaitsRight
<1>4. ASSUME NEW z \in Received
      PROVE  DownAfter(w, owner[z], after[z]) \/ (owner[z] \in w /\ Seals(msgId, z)')
  <2>1. CASE Down(ids, w, owner[z], after[z])
    <3>1. after[z] \in 0..lastId
      BY <1>2
    <3> QED BY <2>1, <3>1, PassDown
  <2>2. CASE owner[z] \in w /\ Seals(ids, z)
    <3>1. z \in 1..lastId
      BY <1>2
    <3> QED BY <2>2, <3>1, PassSeals
  <2> QED BY <1>3, <2>1, <2>2
<1>5. /\ wire \in Seq(Messages) /\ pass \in Seq(Sends) /\ Climbs(pass)
  BY DEF Types, Pass, Listed
<1>6. /\ Len(wire) \in Nat /\ Len(pass) \in Nat /\ DOMAIN wire = 1..Len(wire)
      /\ DOMAIN pass = 1..Len(pass)
  BY <1>5
<1>7. ASSUME NEW k \in DOMAIN wire'
      PROVE  \/ DownAfter(w, wire'[k].r, wire'[k].after)
             \/ wire'[k].id \in Received
             \/ wire'[k].r \in w /\ WillSeal(msgId, k)'
  <2>0. k \in DOMAIN wire \/ k > Len(wire)
    BY <1>6 DEF Pass, Sent
  <2>1. CASE k \in DOMAIN wire
    <3>1. wire'[k] = wire[k]
      BY <2>1 DEF Pass, Sent
    <3>2. CASE Down(ids, w, wire[k].r, wire[k].after)
      <4>1. wire[k].after \in 0..lastId
        BY <1>2, <2>1
      <4>2. DownAfter(w, wire[k].r, wire[k].after)
        BY <3>2, <4>1, PassDown
      <4> QED BY <3>1, <4>2
    <3>3. CASE wire[k].id \in Received
      BY <3>1, <3>3
    <3>4. CASE wire[k].r \in w /\ WillSeal(ids, k)
      <4>1. WillSeal(msgId, k)'
        BY <2>1, <3>4, PassSeals
      <4> QED BY <3>1, <3>4, <4>1
    <3> QED BY <1>3, <2>1, <3>2, <3>3, <3>4
  <2>2. CASE k > Len(wire)
    <3> DEFINE i == k - Len(wire)
               rest == Ids(running) \ Again(tok, dues, forced)
    <3>1. i \in DOMAIN pass /\ wire'[k] = MessageAt(pass, i, rest) /\ k = Len(wire) + i
      <4>1. i \in DOMAIN pass /\ wire'[k] = MessageAt(pass, i, rest)
        BY <2>2 DEF Pass, Sent
      <4>2. DOMAIN wire' = 1..(Len(wire) + Len(pass))
        BY DEF Pass, Sent
      <4>3. k \in Nat
        BY <1>6, <4>2
      <4> QED BY <1>6, <4>1, <4>3
    <3> HIDE DEF i, rest
    <3>2. wire'[k].r = pass[i]
      BY <3>1 DEF MessageAt
    <3>3. CASE i = 1
      <4>1. 1 \in DOMAIN pass /\ k = Len(wire) + 1
        BY <3>1, <3>3
      <4>2. \/ DownAfter(w, pass[1], wire'[k].after)
            \/ pass[1] \in w /\ WillSeal(msgId, k)'
        BY <4>1, PassFirst
      <4> QED BY <3>2, <3>3, <4>2
    <3>4. CASE i # 1
      <4>1. i - 1 \in DOMAIN pass /\ wire'[k].after = msgId'[pass[i - 1]] /\ i - 1 < i
        BY <1>6, <3>1, <3>4 DEF MessageAt
      <4>2. pass[i - 1] \in Sends /\ pass[i - 1] < pass[i]
        BY <1>5, <3>1, <4>1 DEF Climbs
      <4> QED BY <3>2, <4>1, <4>2 DEF DownAfter, NamesAfter
    <3> QED BY <3>3, <3>4
  <2> QED BY <2>0, <2>1, <2>2
<1>8. \A z \in Received : \/ DownAfter(w, owner[z], after[z])
                          \/ owner[z] \in w /\ Seals(msgId, z)'
  BY <1>4
<1>9. \A k \in DOMAIN wire' :
        \/ DownAfter(w, wire'[k].r, wire'[k].after)
        \/ wire'[k].id \in Received
        \/ wire'[k].r \in w /\ WillSeal(msgId, k)'
  BY <1>7
<1> QED BY <1>8, <1>9

\* A pass keeps what it relies on, and the types.
LEMMA PassKeepsMid ==
  ASSUME Types, NEW q, NEW ids, NEW tok, NEW w, NEW n, NEW dues \in SUBSET Sends,
         NEW forced \in BOOLEAN, Mid(q, ids, tok, w, n),
         ProcessRequestQueue(q, running, ids, tok, dues, forced),
         Around(w, n), ~forced => notice' = notice
  PROVE  /\ Mid(queue, msgId, token, wiped, asked)'
         /\ early \subseteq early' /\ early' \subseteq Sends
         /\ queue' \in Seq(Sends) /\ running' \in Seq(Sends) /\ msgId' \in [Sends -> Nat]
         /\ token' \in [Sends -> Nat] /\ due' \subseteq Sends
         /\ lastId' \in Nat /\ lastId <= lastId' /\ wire' \in Seq(Messages)
         /\ \A k \in DOMAIN wire' : wire'[k].id \in 1..lastId' /\ wire'[k].after \in 0..lastId'
         /\ \A r \in Sends : msgId'[r] <= lastId => msgId'[r] = ids[r]
<1> USE SendsAreNat
<1>1. PICK pass \in Seq(Sends) : Pass(pass, q, ids, tok, dues, forced)
  BY PassEffect
<1>2. /\ queue' \in Seq(Sends) /\ running' \in Seq(Sends) /\ msgId' \in [Sends -> Nat]
      /\ token' \in [Sends -> Nat] /\ due' \subseteq Sends
      /\ lastId' \in Nat /\ lastId <= lastId' /\ wire' \in Seq(Messages)
  <2>1. token' \in [Sends -> Nat]
    <3>1. channel \in Nat /\ tok \in [Sends -> Nat]
      BY DEF Types, Mid
    <3>2. token' = [ r \in Sends |-> IF r \in Ids(pass) THEN channel ELSE tok[r] ]
      BY <1>1 DEF Pass
    <3> QED BY <3>1, <3>2
  <2>2. due' \subseteq Sends
    BY <1>1 DEF Pass
  <2> QED BY <1>1, <2>1, <2>2 DEF Pass, Listed, Renumbered
<1>3. early \subseteq early' /\ early' \subseteq Sends
  <2>1. Again(tok, dues, forced) \subseteq Ids(running) /\ Ids(running) \subseteq Sends
    BY IdsOf DEF Again, Types
  <2> QED BY <1>1, <2>1 DEF Pass, Types
<1>4. wiped' = w /\ asked' = n /\ w \subseteq Sends /\ n \in 0..MaxSends
  BY DEF Around, Mid
<1>5. Lists(queue, asked)' /\ Numbered(queue, msgId, wiped, asked)'
  BY <1>1, PassLists, PassNumbered
<1>6. NamesRight(msgId, wiped)' /\ Ordered(msgId, wiped)'
  BY <1>1, PassNamesRight, PassOrdered
<1>7. Gone(queue, msgId, wiped, asked)' /\ RunInOrder(msgId, wiped)'
  BY <1>1, PassGone, PassRunInOrder
<1>8. Behind(msgId, wiped)'
  BY <1>1, PassBehind
<1>9. TokensRight(msgId, token)'
  BY <1>1, PassTokensRight
<1>10. WaitsRight(msgId, wiped)'
  BY <1>1, PassWaitsRight
<1>11. Mid(queue, msgId, token, wiped, asked)'
  BY <1>2, <1>4, <1>5, <1>6, <1>7, <1>8, <1>9, <1>10 DEF Mid
<1>12. \A r \in Sends : msgId'[r] <= lastId => msgId'[r] = ids[r]
  BY <1>1, PassFacts
<1>13. ASSUME NEW k \in DOMAIN wire'
       PROVE  wire'[k].id \in 1..lastId' /\ wire'[k].after \in 0..lastId'
  <2>0. wire \in Seq(Messages) /\ Len(wire) \in Nat /\ DOMAIN wire = 1..Len(wire)
    BY DEF Types
  <2>1. lastId \in Nat /\ (k \in DOMAIN wire \/ k > Len(wire))
    BY <1>1, <2>0 DEF Types, Pass, Sent
  <2>2. CASE k \in DOMAIN wire
    <3>1. wire'[k] = wire[k] /\ wire[k].id \in 1..lastId /\ wire[k].after \in 0..lastId
      BY <1>1, <2>2 DEF Pass, Sent, Types
    <3>2. lastId \in Nat
      BY DEF Types
    <3> QED BY <1>2, <3>1, <3>2
  <2>3. CASE k > Len(wire)
    <3> DEFINE i == k - Len(wire)
               rest == Ids(running) \ Again(tok, dues, forced)
    <3>1. i \in DOMAIN pass /\ wire'[k] = MessageAt(pass, i, rest) /\ pass \in Seq(Sends)
      BY <1>1, <2>3 DEF Pass, Sent
    <3> HIDE DEF i
    <3>2. pass[i] \in Ids(pass) /\ pass[i] \in Sends
      BY <3>1, IdsOf
    <3>3. \A r \in Sends : msgId'[r] <= lastId'
      BY <1>1, PassFacts
    <3>4. msgId'[pass[i]] \in 1..lastId'
      <4>1. ids[pass[i]] = 0 => lastId < msgId'[pass[i]]
        BY <1>1, <3>2 DEF Pass, Renumbered
      <4>2. ids[pass[i]] # 0 => msgId'[pass[i]] # 0
        BY <1>1, <3>2 DEF Pass, Renumbered
      <4>3. lastId \in Nat /\ msgId'[pass[i]] \in Nat
        BY <1>2, <3>2 DEF Types
      <4>4. 0 < msgId'[pass[i]]
        BY <4>1, <4>2, <4>3
      <4>5. msgId'[pass[i]] <= lastId'
        BY <3>2, <3>3
      <4> QED BY <1>2, <4>3, <4>4, <4>5
    <3>5. (IF i = 1 THEN Before(rest, msgId') ELSE msgId'[pass[i - 1]]) \in 0..lastId'
      <4>1. CASE i = 1
        <5> DEFINE m == msgId'
                   l == lastId'
        <5>1. rest \in SUBSET Sends
          <6>1. Ids(running) \subseteq Sends
            BY IdsOf DEF Types
          <6> QED BY <6>1
        <5>2. m \in [Sends -> Nat] /\ l \in Nat /\ \A r \in Sends : m[r] <= l
          BY <1>2, <3>3
        <5> HIDE DEF m, l, rest
        <5>3. Before(rest, m) \in 0..l
          BY <5>1, <5>2, BeforeIsGreatest
        <5> QED BY <4>1, <5>3 DEF m, l
      <4>2. CASE i # 1
        <5>1. DOMAIN pass = 1..Len(pass) /\ Len(pass) \in Nat
          BY <3>1
        <5>2. i - 1 \in DOMAIN pass
          BY <3>1, <4>2, <5>1
        <5>3. pass[i - 1] \in Sends
          BY <3>1, <5>2
        <5>4. msgId'[pass[i - 1]] \in Nat /\ msgId'[pass[i - 1]] <= lastId'
          BY <1>2, <3>3, <5>3
        <5> QED BY <1>2, <4>2, <5>4
      <4> QED BY <4>1, <4>2
    <3> HIDE DEF rest
    <3>6. wire'[k].id = msgId'[pass[i]]
          /\ wire'[k].after = IF i = 1 THEN Before(rest, msgId') ELSE msgId'[pass[i - 1]]
      BY <3>1 DEF MessageAt
    <3> QED BY <3>4, <3>5, <3>6
  <2> QED BY <2>1, <2>2, <2>3
<1> QED BY <1>2, <1>3, <1>11, <1>12, <1>13

-----------------------------------------------------------------------------
(* What the handlers do before a pass, or without one. *)

\* A message is written.
LEMMA AskKeepsMid ==
  ASSUME Types, Mid(queue, msgId, token, wiped, asked), asked < MaxSends
  PROVE  Mid(Append(queue, asked + 1), msgId, token, wiped, asked + 1)
<1> USE SendsAreNat
<1> DEFINE e == asked + 1
           q == Append(queue, e)
<1>1. /\ asked \in Nat /\ e \in Nat /\ e \in Sends /\ e \in 0..MaxSends /\ MaxSends \in Nat
      /\ queue \in Seq(Sends) /\ Climbs(queue)
  BY BoundAssumption DEF Types, Sends, Mid, Lists
<1>2. /\ Len(queue) \in Nat /\ DOMAIN queue = 1..Len(queue) /\ q \in Seq(Sends)
      /\ DOMAIN q = 1..(Len(queue) + 1) /\ Len(q) = Len(queue) + 1
      /\ \A i \in 1..Len(queue) : q[i] = queue[i]
      /\ q[Len(queue) + 1] = e
  BY <1>1
<1> HIDE DEF q
<1>3. /\ \A r \in Ids(running) \cup Ids(queue) : r <= asked
      /\ \A r \in Ids(queue), s \in Sends : s <= asked /\ s \notin Ids(queue) => s < r
      /\ \A r \in Ids(running) : r \notin Ids(queue)
      /\ Ids(running) \subseteq Sends /\ Ids(queue) \subseteq Sends
  BY IdsOf DEF Types, Mid, Lists
<1>4. Ids(q) = Ids(queue) \cup {e}
  <2>1. Ids(q) = { q[i] : i \in 1..(Len(queue) + 1) } /\ Ids(queue) = { queue[i] : i \in 1..Len(queue) }
    BY <1>2 DEF Ids
  <2>2. 1..(Len(queue) + 1) = 1..Len(queue) \cup {Len(queue) + 1}
    BY <1>2
  <2> QED BY <1>2, <2>1, <2>2
<1>5. \A r \in Ids(queue) : r < e
  <2> TAKE r \in Ids(queue)
  <2>1. r \in Nat /\ r <= asked
    BY <1>3
  <2> QED BY <1>1, <2>1
<1>6. Climbs(q)
  <2> SUFFICES ASSUME NEW i \in DOMAIN q, NEW j \in DOMAIN q, i < j PROVE q[i] < q[j]
    BY DEF Climbs
  <2>1. i \in 1..Len(queue)
    BY <1>2
  <2>2. CASE j \in 1..Len(queue)
    BY <1>1, <1>2, <2>1, <2>2 DEF Climbs
  <2>3. CASE j = Len(queue) + 1
    <3>1. queue[i] \in Ids(queue)
      BY <2>1 DEF Ids
    <3> QED BY <1>2, <1>5, <2>1, <2>3, <3>1
  <2> QED BY <1>2, <2>2, <2>3
<1> HIDE DEF e
<1>7. e = asked + 1
  BY DEF e
<1>8. Lists(q, e)
  <2>1. \A r \in Ids(running) \cup Ids(q) : r <= e
    <3> TAKE r \in Ids(running) \cup Ids(q)
    <3>1. r = e \/ (r \in Nat /\ r <= asked)
      BY <1>3, <1>4
    <3> QED BY <1>1, <1>7, <3>1
  <2>2. \A r \in Ids(q), s \in Sends : s <= e /\ s \notin Ids(q) => s < r
    <3> TAKE r \in Ids(q), s \in Sends
    <3> HAVE s <= e /\ s \notin Ids(q)
    <3>1. s <= asked /\ s \notin Ids(queue) /\ s < e
      BY <1>1, <1>4, <1>7
    <3> QED BY <1>3, <1>4, <3>1
  <2>3. \A r \in Ids(running) : r \notin Ids(q)
    BY <1>1, <1>3, <1>4, <1>7
  <2>4. Climbs(running)
    BY DEF Mid, Lists
  <2> QED BY <1>6, <2>1, <2>2, <2>3, <2>4 DEF Lists
<1>9. Numbered(q, msgId, wiped, e)
  <2>1. \A r \in Sends : r \in Ids(q) \/ r > e => r \in Ids(queue) \/ r > asked
    BY <1>1, <1>4, <1>7
  <2>2. \A r \in Sends : r <= e /\ r \notin Ids(q) => r <= asked /\ r \notin Ids(queue)
    BY <1>1, <1>4, <1>7
  <2> QED BY <2>1, <2>2 DEF Mid, Numbered
<1>10. Gone(q, msgId, wiped, e)
  <2>2. \A r \in Sends : r <= e /\ r \notin Ids(q) => r <= asked /\ r \notin Ids(queue)
    BY <1>1, <1>4, <1>7
  <2> QED BY <2>2 DEF Mid, Gone
<1>11. Mid(q, msgId, token, wiped, e)
  BY <1>1, <1>2, <1>8, <1>9, <1>10 DEF Mid
<1> QED BY <1>11 DEF q, e

\* Running sends lose their ids.
LEMMA WipeKeepsMid ==
  ASSUME Types, Mid(queue, msgId, token, wiped, asked), LeavingRight(msgId, wiped, leaving),
         NEW wipe \in SUBSET Ids(running), NEW ids, NEW tok,
         ids = [ r \in Sends |-> IF r \in wipe THEN 0 ELSE msgId[r] ],
         tok = [ r \in Sends |-> IF r \in wipe THEN 0 ELSE token[r] ]
  PROVE  /\ Mid(queue, ids, tok, wiped \cup wipe, asked)
         /\ LeavingRight(ids, wiped \cup wipe, leaving)
<1> USE SendsAreNat
<1> DEFINE w == wiped \cup wipe
<1>1. /\ Ids(running) \subseteq Sends /\ wipe \subseteq Sends /\ w \subseteq Sends
      /\ msgId \in [Sends -> Nat] /\ token \in [Sends -> Nat]
  BY IdsOf DEF Types
<1>2. /\ ids \in [Sends -> Nat] /\ tok \in [Sends -> Nat]
      /\ \A r \in Sends : r \notin w => ids[r] = msgId[r]
      /\ \A r \in Sends : ids[r] # 0 => ids[r] = msgId[r] /\ tok[r] = token[r]
      /\ \A r \in Sends : tok[r] = 0 \/ tok[r] = token[r]
      /\ \A r \in Sends : ids[r] = 0 \/ ids[r] = msgId[r]
      /\ \A r \in Sends : r \notin wipe => ids[r] = msgId[r]
  BY <1>1
<1>3. \A a \in Sends : Good(w, a) => Good(wiped, a) /\ a \notin w /\ a \notin wiped
  BY DEF Good
<1>4. Numbered(queue, ids, w, asked)
  <2>1. /\ \A r \in Sends : r \in Ids(queue) \/ r > asked => msgId[r] = 0 /\ r \notin wiped
        /\ \A r \in Sends : r <= asked /\ r \notin Ids(queue) /\ r \notin wiped => msgId[r] # 0
        /\ \A r \in Sends : msgId[r] <= lastId
    BY DEF Mid, Numbered
  <2>2. \A r \in Sends : r \in Ids(queue) \/ r > asked => r \notin wipe
    <3>1. /\ \A r \in Ids(running) : r <= asked /\ r \notin Ids(queue)
          /\ asked \in Nat
      BY DEF Mid, Lists, Types
    <3> QED BY <3>1
  <2>3. \A r \in Sends : ids[r] <= lastId
    <3>1. lastId \in Nat
      BY DEF Types
    <3> QED BY <1>2, <2>1, <3>1
  <2> QED BY <1>2, <2>1, <2>2, <2>3 DEF Numbered
<1>5. \A y, r : y # 0 /\ r \in Sends /\ Names(ids, y, r) => Names(msgId, y, r)
  BY <1>2 DEF Names
<1>6. NamesRight(ids, w)
  <2> SUFFICES ASSUME NEW y \in 1..lastId, NEW r \in Sends, Names(ids, y, r)
               PROVE  /\ r \notin w => ids[r] = y
                      /\ \A s \in Sends : Names(ids, y, s) => r = s
    BY DEF NamesRight
  <2>1. y # 0
    BY DEF Types
  <2>2. Names(msgId, y, r) /\ \A s \in Sends : Names(ids, y, s) => Names(msgId, y, s)
    BY <1>5, <2>1
  <2> QED BY <1>2, <2>2 DEF Mid, NamesRight
<1>7. Ordered(ids, w)
  <2> SUFFICES ASSUME NEW a \in Sends, NEW b \in Sends, a < b, ids[b] # 0, a \notin w
               PROVE  0 < ids[a] /\ ids[a] < ids[b]
    BY DEF Ordered
  <2>1. ids[b] = msgId[b] /\ ids[a] = msgId[a] /\ a \notin wiped
    BY <1>2
  <2> QED BY <2>1 DEF Mid, Ordered
<1>8. \A a \in Sends : Settled(msgId, a) /\ a \notin w => Settled(ids, a)
  BY <1>2 DEF Settled
<1>9. Gone(queue, ids, w, asked)
  BY <1>8 DEF Mid, Gone
<1>10. \A b, y : Covers(msgId, wiped, b, y) => Covers(ids, w, b, y)
  <2> TAKE b, y
  <2> HAVE Covers(msgId, wiped, b, y)
  <2> SUFFICES ASSUME NEW a \in Sends, a < b, Good(w, a)
               PROVE  ids[a] # 0 /\ (Settled(ids, a) \/ y >= ids[a])
    BY DEF Covers
  <2>1. Good(wiped, a) /\ a \notin w
    BY <1>3
  <2>2. msgId[a] # 0 /\ (Settled(msgId, a) \/ y >= msgId[a])
    BY <2>1 DEF Covers
  <2> QED BY <1>2, <1>8, <2>1, <2>2
<1>11. Behind(ids, w)
  BY <1>10 DEF Mid, Behind
<1>12. RunInOrder(ids, w)
  <2> SUFFICES ASSUME early = {}, NEW b \in Ids(executed), NEW a \in Sends, a < b, Good(w, a)
               PROVE  Settled(ids, a)
    BY DEF RunInOrder
  <2>1. Good(wiped, a) /\ a \notin w
    BY <1>3
  <2>2. Settled(msgId, a)
    BY <2>1 DEF Mid, RunInOrder
  <2> QED BY <1>8, <2>1, <2>2
<1>13. TokensRight(ids, tok)
  <2>1. \A r \in Sends : tok[r] <= opened
    <3>1. opened \in Nat /\ \A r \in Sends : token[r] <= opened
      BY BoundAssumption DEF Types, Mid, TokensRight
    <3> QED BY <1>2, <3>1
  <2>2. channel # 0 /\ ~notice => OnChannel(ids, tok)
    <3>1. channel # 0 /\ ~notice => OnChannel(msgId, token)
      BY DEF Mid, TokensRight
    <3> QED BY <1>1, <1>2, <3>1 DEF OnChannel
  <2>3. \A r \in Ids(running) :
           channel # 0 /\ ids[r] # 0 /\ tok[r] = channel =>
             ids[r] \in Received \/ \E k \in DOMAIN wire : wire[k].id = ids[r]
    <3> TAKE r \in Ids(running)
    <3> HAVE channel # 0 /\ ids[r] # 0 /\ tok[r] = channel
    <3>1. ids[r] = msgId[r] /\ token[r] = channel
      BY <1>1, <1>2
    <3>2. channel # 0 /\ msgId[r] # 0 /\ token[r] = channel =>
             msgId[r] \in Received \/ \E k \in DOMAIN wire : wire[k].id = msgId[r]
      BY DEF Mid, TokensRight
    <3> QED BY <3>1, <3>2
  <2> QED BY <2>1, <2>2, <2>3 DEF TokensRight
<1>14. ASSUME NEW r \in Sends, NEW y \in 0..lastId, Down(msgId, wiped, r, y)
       PROVE  Down(ids, w, r, y)
  <2>1. CASE y = 0
    BY <2>1 DEF Down
  <2>2. ASSUME y # 0, NEW s \in Sends, s < r, Names(msgId, y, s) PROVE Down(ids, w, r, y)
    <3>1. CASE Names(ids, y, s)
      BY <2>2, <3>1 DEF Down
    <3>2. CASE ~Names(ids, y, s)
      <4>1. s \in wipe
        BY <1>2, <2>2, <3>2 DEF Names
      <4>2. \A t \in Sends : Names(msgId, y, t) => s = t
        <5>1. y \in 1..lastId
          BY <2>2 DEF Types
        <5> QED BY <2>2, <5>1 DEF Mid, NamesRight
      <4>3. \A t \in Sends : ~Names(ids, y, t)
        BY <1>5, <2>2, <3>2, <4>2
      <4> QED BY <2>2, <4>1, <4>3 DEF Down
    <3> QED BY <3>1, <3>2
  <2>3. ASSUME y # 0, \A s \in Sends : ~Names(msgId, y, s), NEW s \in wiped, s < r
        PROVE  Down(ids, w, r, y)
    <3>1. \A t \in Sends : ~Names(ids, y, t)
      BY <1>5, <2>3
    <3> QED BY <2>3, <3>1 DEF Down
  <2> QED BY <1>14, <2>1, <2>2, <2>3 DEF Down
<1>15. \A z \in Received : Seals(msgId, z) => Seals(ids, z)
  BY <1>1, <1>2 DEF Seals
<1>16. \A k \in DOMAIN wire : WillSeal(msgId, k) => WillSeal(ids, k)
  <2> TAKE k \in DOMAIN wire
  <2> HAVE WillSeal(msgId, k)
  <2> DEFINE z == wire[k].id
  <2>1. \A r \in Ids(running) : 0 < msgId[r] /\ msgId[r] < z =>
          msgId[r] \in Received \/ \E l \in DOMAIN wire : l < k /\ wire[l].id = msgId[r]
    BY DEF WillSeal
  <2>2. \A r \in Ids(running) : 0 < ids[r] /\ ids[r] < z =>
          ids[r] \in Received \/ \E l \in DOMAIN wire : l < k /\ wire[l].id = ids[r]
    <3> TAKE r \in Ids(running)
    <3> HAVE 0 < ids[r] /\ ids[r] < z
    <3>1. ids[r] = msgId[r]
      BY <1>1, <1>2
    <3> QED BY <2>1, <3>1
  <2> HIDE DEF z
  <2> QED BY <2>2 DEF WillSeal, z
<1>17. WaitsRight(ids, w)
  <2> SUFFICES ASSUME early = {}
               PROVE  /\ \A z \in Received : \/ Down(ids, w, owner[z], after[z])
                                             \/ owner[z] \in w /\ Seals(ids, z)
                      /\ \A k \in DOMAIN wire :
                           \/ Down(ids, w, wire[k].r, wire[k].after) \/ wire[k].id \in Received
                           \/ wire[k].r \in w /\ WillSeal(ids, k)
    BY DEF WaitsRight
  <2>1. /\ \A z \in Received : \/ Down(msgId, wiped, owner[z], after[z])
                               \/ owner[z] \in wiped /\ Seals(msgId, z)
        /\ \A k \in DOMAIN wire :
             \/ Down(msgId, wiped, wire[k].r, wire[k].after) \/ wire[k].id \in Received
             \/ wire[k].r \in wiped /\ WillSeal(msgId, k)
    BY DEF Mid, WaitsRight
  <2>2. /\ \A z \in Received : after[z] \in 0..lastId /\ owner[z] \in Sends
        /\ \A k \in DOMAIN wire : wire[k].after \in 0..lastId /\ wire[k].r \in Sends
    <3>1. \A k \in DOMAIN wire : wire[k] \in Messages
      BY DEF Types
    <3> QED BY <3>1 DEF Types, Messages
  <2> QED BY <1>14, <1>15, <1>16, <2>1, <2>2
<1>18. LeavingRight(ids, w, leaving)
  BY <1>2 DEF LeavingRight
<1>19. Mid(queue, ids, tok, w, asked)
  BY <1>1, <1>2, <1>4, <1>6, <1>7, <1>9, <1>11, <1>12, <1>13, <1>17 DEF Mid
<1> QED BY <1>18, <1>19

-----------------------------------------------------------------------------
(* The actions of the client keep ChainInv. *)

\* What a handler that makes a pass keeps, apart from what it does to answers.
LEMMA HandlerPasses ==
  ASSUME Types, NEW q, NEW ids, NEW tok, NEW w, NEW n, NEW dues \in SUBSET Sends,
         NEW forced \in BOOLEAN, NEW lv, Mid(q, ids, tok, w, n), LeavingRight(ids, w, lv),
         ProcessRequestQueue(q, running, ids, tok, dues, forced), Around(w, n),
         ~forced => notice' = notice, notice' \in BOOLEAN, leaving' = lv,
         UNCHANGED <<lost, announce>>, inbox' \subseteq inbox,
         done' \in [Sends -> {"none", "ok", "fail"}]
  PROVE  /\ Types' /\ Mid(queue, msgId, token, wiped, asked)'
         /\ LeavingRight(msgId, wiped, leaving)' /\ early \subseteq early'
<1> USE SendsAreNat
<1>1. /\ Mid(queue, msgId, token, wiped, asked)'
      /\ early \subseteq early' /\ early' \subseteq Sends
      /\ queue' \in Seq(Sends) /\ running' \in Seq(Sends) /\ msgId' \in [Sends -> Nat]
      /\ token' \in [Sends -> Nat] /\ due' \subseteq Sends
      /\ lastId' \in Nat /\ lastId <= lastId' /\ wire' \in Seq(Messages)
      /\ \A k \in DOMAIN wire' : wire'[k].id \in 1..lastId' /\ wire'[k].after \in 0..lastId'
      /\ \A r \in Sends : msgId'[r] <= lastId => msgId'[r] = ids[r]
  BY PassKeepsMid
<1>2. /\ UNCHANGED <<after, outcome, owner, executed, channel, opened>>
      /\ wiped' = w /\ asked' = n
  BY DEF Around, network
<1>3. 1..lastId \subseteq 1..lastId' /\ 0..lastId \subseteq 0..lastId'
  BY <1>1 DEF Types
<1>4. Types'
  <2>1. /\ Received \subseteq 1..lastId' /\ after \in [Received -> 0..lastId']
    BY <1>3 DEF Types
  <2>2. wiped' \subseteq Sends /\ asked' \in 0..MaxSends
    BY <1>2 DEF Mid
  <2>3. inbox' \subseteq Answered
    BY DEF Types
  <2> QED BY <1>1, <1>2, <2>1, <2>2, <2>3 DEF Types, Received, Answered
<1>5. LeavingRight(msgId, wiped, leaving)'
  <2>1. lv \subseteq Answered
    BY DEF LeavingRight
  <2>2. ASSUME NEW id \in lv, NEW a \in Sends, a \notin w, msgId'[a] = id
        PROVE  outcome[id] # "retry"
    <3>1. id <= lastId
      BY <2>1, <2>2 DEF Types
    <3>2. ids[a] = id
      BY <1>1, <2>2, <3>1
    <3> QED BY <2>2, <3>2 DEF LeavingRight
  <2> QED BY <1>2, <2>1, <2>2 DEF LeavingRight, Answered
<1> QED BY <1>1, <1>4, <1>5

\* What is said of answers stays true when nothing is answered.
LEMMA AnswersStay ==
  ASSUME ChainInv, UNCHANGED <<outcome, owner, lost, executed, done, announce>>,
         wiped' = wiped, early \subseteq early'
  PROVE  OkExecuted' /\ WipedRight' /\ FailsRight' /\ LostRight' /\ InOrder'
<1>1. \A r : Retried(r) <=> Retried(r)'
  BY DEF Retried, Answered
<1>2. FailsRight'
  <2>1. early' = {} => early = {}
    OBVIOUS
  <2> QED BY <1>1, <2>1 DEF ChainInv, FailsRight, Answered
<1>3. OkExecuted' /\ LostRight'
  BY DEF ChainInv, OkExecuted, LostRight, Answered
<1>4. WipedRight'
  BY DEF ChainInv, WipedRight, Answered
<1>5. InOrder'
  BY DEF ChainInv, InOrder
<1> QED BY <1>2, <1>3, <1>4, <1>5

\* A message the user sends is put last and goes with the pass that follows.
LEMMA PerformKeeps == ChainInv /\ Perform => ChainInv'
<1> SUFFICES ASSUME ChainInv, Perform PROVE ChainInv'
  OBVIOUS
<1>1. /\ asked < MaxSends /\ asked' = asked + 1
      /\ ProcessRequestQueue(Append(queue, asked + 1), running, msgId, token, due, FALSE)
      /\ UNCHANGED <<leaving, network, notice, server, announce, inbox, executed, done,
                     wiped, losses>>
  BY DEF Perform
<1>2. Types /\ Mid(Append(queue, asked + 1), msgId, token, wiped, asked + 1)
  BY <1>1, AskKeepsMid DEF ChainInv
<1>3. /\ Around(wiped, asked + 1) /\ notice' = notice /\ leaving' = leaving
      /\ UNCHANGED <<lost, announce>> /\ inbox' = inbox
      /\ UNCHANGED <<outcome, owner, lost, executed, done, announce>> /\ wiped' = wiped
  BY <1>1 DEF Around, server
<1>4. /\ due \in SUBSET Sends /\ notice' \in BOOLEAN /\ done' \in [Sends -> {"none", "ok", "fail"}]
      /\ FALSE \in BOOLEAN /\ LeavingRight(msgId, wiped, leaving)
  BY <1>2, <1>3 DEF Types, ChainInv
<1>5. /\ Types' /\ Mid(queue, msgId, token, wiped, asked)'
      /\ LeavingRight(msgId, wiped, leaving)' /\ early \subseteq early'
  <2> DEFINE q == Append(queue, asked + 1)
             n == asked + 1
  <2>1. Mid(q, msgId, token, wiped, n) /\ Around(wiped, n)
        /\ ProcessRequestQueue(q, running, msgId, token, due, FALSE)
    BY <1>1, <1>2, <1>3
  <2> HIDE DEF q, n
  <2> QED BY <1>2, <1>3, <1>4, <2>1, HandlerPasses
<1> QED BY <1>3, <1>5, AnswersStay DEF ChainInv

\* A pass on its own.
LEMMA PassAlone ==
  ASSUME ChainInv, NEW forced \in BOOLEAN, AsItIs(forced), notice' \in BOOLEAN,
         ~forced => notice' = notice,
         UNCHANGED <<leaving, network, server, announce, inbox, asked, executed,
                     done, wiped, losses>>
  PROVE  ChainInv'
<1>1. ProcessRequestQueue(queue, running, msgId, token, due, forced)
  BY DEF AsItIs
<1>2. Types /\ Mid(queue, msgId, token, wiped, asked) /\ LeavingRight(msgId, wiped, leaving)
  BY DEF ChainInv
<1>3. /\ Around(wiped, asked) /\ leaving' = leaving
      /\ UNCHANGED <<lost, announce>> /\ inbox' = inbox
      /\ UNCHANGED <<outcome, owner, lost, executed, done, announce>> /\ wiped' = wiped
  BY DEF Around, server
<1>4. due \in SUBSET Sends /\ done' \in [Sends -> {"none", "ok", "fail"}]
  BY <1>2, <1>3 DEF Types
<1>5. /\ Types' /\ Mid(queue, msgId, token, wiped, asked)'
      /\ LeavingRight(msgId, wiped, leaving)' /\ early \subseteq early'
  BY <1>1, <1>2, <1>3, <1>4, HandlerPasses
<1> QED BY <1>3, <1>5, AnswersStay DEF ChainInv

\* A pass on its own.
LEMMA TickKeeps == ChainInv /\ Tick => ChainInv'
<1> SUFFICES ASSUME ChainInv, Tick PROVE ChainInv'
  OBVIOUS
<1>1. /\ AsItIs(FALSE) /\ notice' = notice
      /\ UNCHANGED <<leaving, network, server, announce, inbox, asked, executed,
                     done, wiped, losses>>
  BY DEF Tick
<1>2. FALSE \in BOOLEAN /\ notice \in BOOLEAN
  BY DEF ChainInv, Types
<1> QED BY <1>1, <1>2, PassAlone

\* The report of a connection sends all again that is running, and ends the time
\* in which a pass may leave one out.
LEMMA RunConnectedKeeps == ChainInv /\ RunConnected => ChainInv'
<1> SUFFICES ASSUME ChainInv, RunConnected PROVE ChainInv'
  OBVIOUS
<1>1. /\ AsItIs(TRUE) /\ notice' = FALSE
      /\ UNCHANGED <<leaving, network, server, announce, inbox, asked, executed,
                     done, wiped, losses>>
  BY DEF RunConnected
<1>2. TRUE \in BOOLEAN /\ notice' \in BOOLEAN
  BY <1>1
<1> QED BY <1>1, <1>2, PassAlone

\* An answer that asks for another attempt takes the id of its send away; another
\* marks the send to leave the lists.
LEMMA RunResultKeeps ==
  ASSUME ChainInv, NEW id, RunResult(id)
  PROVE  ChainInv'
<1> USE SendsAreNat
<1> DEFINE found == { r \in Ids(running) : msgId[r] = id }
           again == outcome[id] = "retry"
           wipe  == IF again THEN found ELSE {}
           ids   == [ r \in Sends |-> IF r \in wipe THEN 0 ELSE msgId[r] ]
           tok   == [ r \in Sends |-> IF r \in wipe THEN 0 ELSE token[r] ]
           w     == wiped \cup wipe
           lv    == IF again /\ found # {} THEN leaving ELSE leaving \cup {id}
<1>1. /\ id \in inbox /\ inbox' = inbox \ {id}
      /\ done' = [ r \in Sends |-> IF r \in found /\ ~again THEN outcome[id] ELSE done[r] ]
      /\ leaving' = lv /\ wiped' = w
      /\ ProcessRequestQueue(queue, running, ids, tok, due, FALSE)
      /\ UNCHANGED <<network, notice, server, announce, asked, executed, losses>>
  BY DEF RunResult
<1>2. Types /\ Mid(queue, msgId, token, wiped, asked) /\ LeavingRight(msgId, wiped, leaving)
  BY DEF ChainInv
<1>3. /\ id \in Answered /\ id \in Received /\ id \in 1..lastId /\ owner[id] \in Sends
      /\ outcome[id] \in {"ok", "fail", "retry"}
      /\ Ids(running) \subseteq Sends /\ found \subseteq Sends
  <2>1. Ids(running) \subseteq Sends
    BY <1>2, IdsOf DEF Types
  <2> QED BY <1>1, <1>2, <2>1 DEF Types
<1>4. \A r \in found : owner[id] = r
  <2> TAKE r \in found
  <2>1. Names(msgId, id, r) /\ Names(msgId, id, owner[id]) /\ r \in Sends
    BY <1>3 DEF Names
  <2> QED BY <1>2, <1>3, <2>1 DEF Mid, NamesRight
<1>5. wipe \in SUBSET Ids(running)
  OBVIOUS
<1>6. Mid(queue, ids, tok, w, asked) /\ LeavingRight(ids, w, leaving)
  <2> HIDE DEF wipe, ids, tok, w
  <2>1. /\ ids = [ r \in Sends |-> IF r \in wipe THEN 0 ELSE msgId[r] ]
        /\ tok = [ r \in Sends |-> IF r \in wipe THEN 0 ELSE token[r] ]
        /\ w = wiped \cup wipe
    BY DEF ids, tok, w
  <2> QED BY <1>2, <1>5, <2>1, WipeKeepsMid
<1>7. LeavingRight(ids, w, lv)
  <2>1. leaving \subseteq Answered /\ lv \subseteq Answered
    BY <1>2, <1>3 DEF LeavingRight
  <2>2. ASSUME NEW i \in lv, NEW a \in Sends, a \notin w, ids[a] = i
        PROVE  outcome[i] # "retry"
    <3>1. CASE i \in leaving
      BY <1>6, <2>2, <3>1 DEF LeavingRight
    <3>2. CASE i = id /\ ~again
      BY <3>2
    <3>3. CASE i = id /\ again /\ found = {}
      <4>1. msgId[a] = id /\ a \notin wiped /\ a \notin Ids(running) /\ msgId[a] # 0
        BY <1>3, <2>2, <3>3
      <4>2. a \notin Ids(queue) /\ a <= asked
        <5>1. asked \in Nat
          BY <1>2 DEF Types
        <5> QED BY <1>2, <4>1, <5>1 DEF Mid, Numbered
      <4> QED BY <1>2, <3>3, <4>1, <4>2 DEF Mid, Gone, Settled
    <3> QED BY <2>2, <3>1, <3>2, <3>3
  <2> HIDE DEF lv
  <2> QED BY <2>1, <2>2 DEF LeavingRight
<1>8. done' \in [Sends -> {"none", "ok", "fail"}]
  <2>1. ~again => outcome[id] \in {"none", "ok", "fail"}
    BY <1>3
  <2>2. done \in [Sends -> {"none", "ok", "fail"}]
    BY <1>2 DEF Types
  <2> QED BY <1>1, <2>1, <2>2
<1>9. \A r \in Sends : done'[r] = "fail" => done[r] = "fail" \/ (owner[id] = r /\ outcome[id] = "fail")
  BY <1>1, <1>4
<1>10. \A r \in wipe : outcome[id] = "retry" /\ owner[id] = r
  BY <1>4
<1> HIDE DEF ids, tok, w, lv, wipe, found
<1>11. /\ Types' /\ Mid(queue, msgId, token, wiped, asked)'
       /\ LeavingRight(msgId, wiped, leaving)' /\ early \subseteq early'
  <2>1. /\ Around(w, asked) /\ notice' = notice /\ notice' \in BOOLEAN /\ due \in SUBSET Sends
        /\ UNCHANGED <<lost, announce>> /\ inbox' \subseteq inbox /\ FALSE \in BOOLEAN
    BY <1>1, <1>2 DEF Around, server, Types
  <2> QED BY <1>1, <1>2, <1>6, <1>7, <1>8, <2>1, HandlerPasses
<1>12. UNCHANGED <<outcome, owner, lost, executed, announce>>
  BY <1>1 DEF server
<1>13. \A r : Retried(r) <=> Retried(r)'
  BY <1>12 DEF Retried, Answered
<1>14. FailsRight'
  <2>1. early' = {} => early = {}
    BY <1>11
  <2>2. early = {} =>
          /\ \A i \in Answered : outcome[i] = "fail" => Retried(owner[i])
          /\ \A r \in Sends : done[r] = "fail" => Retried(r)
    BY DEF ChainInv, FailsRight
  <2>3. early = {} => \A r \in Sends : done'[r] = "fail" => Retried(r)
    BY <1>3, <1>9, <2>2
  <2> QED BY <1>12, <1>13, <2>1, <2>2, <2>3 DEF FailsRight, Answered
<1>15. OkExecuted' /\ LostRight'
  BY <1>12 DEF ChainInv, OkExecuted, LostRight, Answered
<1>16. WipedRight'
  <2>1. wiped' = wiped \cup wipe
    BY <1>1 DEF w
  <2> QED BY <1>3, <1>10, <1>12, <2>1 DEF ChainInv, WipedRight, Answered
<1>17. InOrder'
  <2>1. wiped \subseteq wiped'
    BY <1>1 DEF w
  <2>2. early # {} => early' # {}
    BY <1>11
  <2> QED BY <1>12, <2>1, <2>2 DEF ChainInv, InOrder
<1> QED BY <1>11, <1>14, <1>15, <1>16, <1>17 DEF ChainInv

\* The parts of Mid that read neither the tokens nor the channel.
LEMMA PartsStay ==
  ASSUME Mid(queue, msgId, token, wiped, asked),
         UNCHANGED <<queue, running, msgId, lastId, wire, after, outcome, owner, executed,
                     asked, wiped, early>>
  PROVE  /\ Lists(queue, asked)' /\ Numbered(queue, msgId, wiped, asked)'
         /\ NamesRight(msgId, wiped)' /\ Ordered(msgId, wiped)'
         /\ Gone(queue, msgId, wiped, asked)' /\ Behind(msgId, wiped)'
         /\ RunInOrder(msgId, wiped)' /\ WaitsRight(msgId, wiped)'
<1>1. Lists(queue, asked)' /\ Numbered(queue, msgId, wiped, asked)'
  BY DEF Mid, Lists, Numbered
<1>2. NamesRight(msgId, wiped)' /\ Ordered(msgId, wiped)'
  BY DEF Mid, NamesRight, Names, Ordered, Received
<1>3. Gone(queue, msgId, wiped, asked)' /\ RunInOrder(msgId, wiped)'
  BY DEF Mid, Gone, RunInOrder, Settled, Good, Answered
<1>4. Behind(msgId, wiped)'
  BY DEF Mid, Behind, Covers, Settled, Good, Answered, Received
<1>5. WaitsRight(msgId, wiped)'
  <2>1. \A z : Seals(msgId, z) => Seals(msgId, z)'
    BY DEF Seals, Received
  <2>2. \A k : WillSeal(msgId, k) => WillSeal(msgId, k)'
    BY DEF WillSeal, Received
  <2>3. \A z : Down(msgId, wiped, owner[z], after[z]) => Down(msgId, wiped, owner[z], after[z])'
    BY DEF Down, Names, Received
  <2>4. \A k : Down(msgId, wiped, wire[k].r, wire[k].after) =>
               Down(msgId, wiped, wire[k].r, wire[k].after)'
    BY DEF Down, Names, Received
  <2> QED BY <2>1, <2>2, <2>3, <2>4 DEF Mid, WaitsRight, Received
<1> QED BY <1>1, <1>2, <1>3, <1>4, <1>5

\* A retry timeout makes a send due and nothing else.
LEMMA TimePassesKeeps ==
  ASSUME ChainInv, NEW r \in Sends, TimePasses(r)
  PROVE  ChainInv'
<1>1. /\ r \in Ids(running) \ due /\ due' = due \cup {r}
      /\ UNCHANGED <<queue, running, msgId, token, lastId, leaving, network, notice, wire,
                     server, announce, inbox, past>>
  BY DEF TimePasses
<1>2. Types'
  BY <1>1 DEF ChainInv, Types, network, server, past, Received, Answered
<1>3. Mid(queue, msgId, token, wiped, asked)'
  <2>1. UNCHANGED <<queue, running, msgId, token, lastId, wire, after, outcome, owner,
                    executed, asked, wiped, early, channel, opened, notice>>
    BY <1>1 DEF network, server, past
  <2>2. TokensRight(msgId, token)'
    BY <2>1 DEF ChainInv, Mid, TokensRight, OnChannel, Received
  <2>3. Mid(queue, msgId, token, wiped, asked)
    BY DEF ChainInv
  <2> QED BY <2>1, <2>2, <2>3, PartsStay DEF Mid
<1>4. LeavingRight(msgId, wiped, leaving)'
  BY <1>1 DEF ChainInv, LeavingRight, server, past, Answered
<1>5. OkExecuted' /\ WipedRight' /\ FailsRight' /\ LostRight' /\ InOrder'
  BY <1>1, AnswersStay DEF server, past
<1> QED BY <1>2, <1>3, <1>4, <1>5 DEF ChainInv

\* The channel is there before anything was sent on it.
LEMMA ConnectKeeps == ChainInv /\ Connect => ChainInv'
<1> SUFFICES ASSUME ChainInv, Connect PROVE ChainInv'
  OBVIOUS
<1> USE SendsAreNat
<1>1. /\ channel = 0 /\ opened < MaxChannel /\ opened' = opened + 1 /\ channel' = opened + 1
      /\ notice' = TRUE
      /\ UNCHANGED <<queue, running, msgId, token, due, lastId, leaving, wire,
                     server, announce, inbox, past>>
  BY DEF Connect, engine
<1>2. Types'
  <2>1. opened' \in 0..MaxChannel /\ channel' \in {0, opened'}
    BY <1>1, BoundAssumption DEF ChainInv, Types
  <2> QED BY <1>1, <2>1 DEF ChainInv, Types, server, past, Received, Answered
<1>3. Mid(queue, msgId, token, wiped, asked)'
  <2>1. TokensRight(msgId, token)'
    <3>0. Types /\ TokensRight(msgId, token)
      BY DEF ChainInv, Mid
    <3>1. \A r \in Sends : token[r] <= opened /\ token[r] \in Nat /\ opened \in Nat
      <4>1. token \in [Sends -> Nat] /\ opened \in 0..MaxChannel
        BY <3>0 DEF Types
      <4>2. \A r \in Sends : token[r] <= opened
        BY <3>0 DEF TokensRight
      <4> QED BY <4>1, <4>2, BoundAssumption
    <3>2. \A r \in Sends : token[r] <= opened + 1 /\ token[r] # opened + 1
      BY <3>1
    <3>3. Ids(running) \subseteq Sends
      BY IdsOf DEF ChainInv, Types
    <3> QED BY <1>1, <3>2, <3>3 DEF TokensRight
  <2>2. UNCHANGED <<queue, running, msgId, token, lastId, wire, after, outcome, owner,
                    executed, asked, wiped, early>>
    BY <1>1 DEF server, past
  <2>3. Mid(queue, msgId, token, wiped, asked)
    BY DEF ChainInv
  <2> QED BY <2>1, <2>2, <2>3, PartsStay DEF Mid
<1>4. LeavingRight(msgId, wiped, leaving)'
  BY <1>1 DEF ChainInv, LeavingRight, server, past, Answered
<1>5. OkExecuted' /\ WipedRight' /\ FailsRight' /\ LostRight' /\ InOrder'
  BY <1>1, AnswersStay DEF server, past
<1> QED BY <1>2, <1>3, <1>4, <1>5 DEF ChainInv

\* What was on its way is lost, and nothing is taken for sent on the new channel.
LEMMA DisconnectKeeps == ChainInv /\ Disconnect => ChainInv'
<1> SUFFICES ASSUME ChainInv, Disconnect PROVE ChainInv'
  OBVIOUS
<1> USE SendsAreNat
<1>1. /\ channel' = 0 /\ wire' = <<>>
      /\ UNCHANGED <<queue, running, msgId, token, due, lastId, leaving, opened, notice,
                     server, announce, inbox, past>>
  BY DEF Disconnect, engine
<1>2. wire' \in Seq(Messages) /\ DOMAIN wire' = {}
  <2>1. <<>> \in Seq(Messages) /\ DOMAIN <<>> = {}
    OBVIOUS
  <2> QED BY <1>1, <2>1
<1>3. Types'
  BY <1>1, <1>2 DEF ChainInv, Types, server, past, Received, Answered
<1>4. UNCHANGED <<after, outcome, owner, wiped, early, executed, asked>>
  BY <1>1 DEF server, past
<1>5. \A y, s : Names(msgId, y, s)' => Names(msgId, y, s)
  BY <1>1, <1>2, <1>4 DEF Names, Received
<1>6. ASSUME NEW r \in Sends, NEW y \in 0..lastId, Down(msgId, wiped, r, y)
      PROVE  Down(msgId, wiped, r, y)'
  <2>1. CASE y = 0
    BY <2>1 DEF Down
  <2>2. ASSUME y # 0, NEW s \in Sends, s < r, Names(msgId, y, s)
        PROVE  Down(msgId, wiped, r, y)'
    <3>1. CASE Names(msgId, y, s)'
      BY <2>2, <3>1 DEF Down
    <3>2. CASE ~Names(msgId, y, s)'
      <4>0. y \in 1..lastId
        BY <2>2 DEF ChainInv, Types
      <4>1. s \in wiped
        <5>1. msgId[s] # y
          BY <1>1, <3>2 DEF Names
        <5> QED BY <2>2, <4>0, <5>1 DEF ChainInv, Mid, NamesRight
      <4>2. \A t \in Sends : Names(msgId, y, t) => s = t
        BY <2>2, <4>0 DEF ChainInv, Mid, NamesRight
      <4>3. \A t \in Sends : ~Names(msgId, y, t)'
        BY <1>5, <3>2, <4>2
      <4> QED BY <1>4, <2>2, <4>1, <4>3 DEF Down
    <3> QED BY <3>1, <3>2
  <2>3. ASSUME \A s \in Sends : ~Names(msgId, y, s), NEW s \in wiped, s < r
        PROVE  Down(msgId, wiped, r, y)'
    <3>1. \A t \in Sends : ~Names(msgId, y, t)'
      BY <1>5, <2>3
    <3> QED BY <1>4, <2>3, <3>1 DEF Down
  <2> QED BY <1>6, <2>1, <2>2, <2>3 DEF Down
<1>7. \A z \in Received : Seals(msgId, z) => Seals(msgId, z)'
  BY <1>1, <1>2, <1>4 DEF Seals, Received
<1>8. WaitsRight(msgId, wiped)'
  <2>1. ASSUME early = {}, NEW z \in Received
        PROVE  Down(msgId, wiped, owner[z], after[z])' \/ (owner[z] \in wiped /\ Seals(msgId, z)')
    <3>1. Down(msgId, wiped, owner[z], after[z]) \/ (owner[z] \in wiped /\ Seals(msgId, z))
      BY <2>1 DEF ChainInv, Mid, WaitsRight
    <3>2. owner[z] \in Sends /\ after[z] \in 0..lastId
      BY DEF ChainInv, Types
    <3> DEFINE r == owner[z]
               y == after[z]
    <3>3. r = r' /\ y' = y
      BY <1>4
    <3>4. ASSUME NEW c, NEW d, c = r, d = y, Down(msgId, wiped, c, d)'
          PROVE  Down(msgId, wiped, owner[z], after[z])'
      BY <1>4, <3>4 DEF Down, Names
    <3>5. Down(msgId, wiped, r, y) => Down(msgId, wiped, owner[z], after[z])'
      <4> SUFFICES ASSUME Down(msgId, wiped, r, y) PROVE Down(msgId, wiped, owner[z], after[z])'
        OBVIOUS
      <4>1. \E c \in Sends, d \in 0..lastId : c = r /\ d = y /\ Down(msgId, wiped, c, d)
        BY <3>2
      <4>2. PICK c \in Sends, d \in 0..lastId : c = r /\ d = y /\ Down(msgId, wiped, c, d)
        BY <4>1
      <4>3. Down(msgId, wiped, c, d)'
        BY <1>6, <4>2
      <4> QED BY <3>4, <4>2, <4>3
    <3> QED BY <1>7, <3>1, <3>5
  <2> QED BY <1>2, <1>4, <2>1 DEF WaitsRight, Received
<1>9. NamesRight(msgId, wiped)'
  BY <1>1, <1>4, <1>5 DEF ChainInv, Mid, NamesRight
<1>10. Behind(msgId, wiped)'
  BY <1>1, <1>2, <1>4 DEF ChainInv, Mid, Behind, Covers, Settled, Good, Received, Answered
<1>11. TokensRight(msgId, token)'
  BY <1>1 DEF ChainInv, Mid, TokensRight
<1>12. Mid(queue, msgId, token, wiped, asked)'
  BY <1>1, <1>4, <1>8, <1>9, <1>10, <1>11
     DEF ChainInv, Mid, Lists, Numbered, Ordered, Gone, Settled, RunInOrder, Good, Answered
<1>13. LeavingRight(msgId, wiped, leaving)'
  BY <1>1, <1>4 DEF ChainInv, LeavingRight, Answered
<1>14. OkExecuted' /\ WipedRight' /\ FailsRight' /\ LostRight' /\ InOrder'
  BY <1>1, AnswersStay DEF server, past
<1> QED BY <1>3, <1>12, <1>13, <1>14 DEF ChainInv

\* A send leaves the lists when its answer was final.
LEMMA RunCompletedKeeps ==
  ASSUME ChainInv, NEW id, RunCompleted(id)
  PROVE  ChainInv'
<1> USE SendsAreNat
<1> DEFINE P == { i \in DOMAIN running : msgId[running[i]] # id }
<1>1. /\ id \in leaving /\ leaving' = leaving \ {id} /\ running' = SelectAt(running, P)
      /\ UNCHANGED <<queue, msgId, token, due, lastId, channel, opened, notice, wire, after,
                     outcome, owner, lost, announce, inbox, asked, executed, done, wiped,
                     early, losses>>
  BY DEF RunCompleted, network, server, past
<1>2. running \in Seq(Sends) /\ Climbs(running)
  BY DEF ChainInv, Types, Mid, Lists
<1>3. running' \in Seq(Sends) /\ Climbs(running') /\ Ids(running') = { running[i] : i \in P }
  <2>1. P \in SUBSET (DOMAIN running)
    OBVIOUS
  <2> HIDE DEF P
  <2> QED BY <1>1, <1>2, <2>1, ClimbsSelected
<1>4. /\ Ids(running') \subseteq Ids(running)
      /\ \A r \in Ids(running) : r \notin Ids(running') => msgId[r] = id
  <2>1. DOMAIN running = 1..Len(running)
    BY <1>2
  <2> QED BY <1>3, <2>1 DEF Ids
<1> HIDE DEF P
<1>5. Types'
  BY <1>1, <1>3 DEF ChainInv, Types, Received, Answered
<1>6. Lists(queue, asked)'
  BY <1>1, <1>3, <1>4 DEF ChainInv, Mid, Lists
<1>7. Gone(queue, msgId, wiped, asked)'
  <2> SUFFICES ASSUME NEW a \in Sends, a <= asked, a \notin Ids(queue) \cup Ids(running') \cup wiped
               PROVE  Settled(msgId, a)
    BY <1>1 DEF Gone, Settled, Answered
  <2>1. CASE a \notin Ids(running)
    BY <2>1 DEF ChainInv, Mid, Gone
  <2>2. CASE a \in Ids(running)
    <3>1. msgId[a] = id
      BY <1>4, <2>2
    <3> QED BY <1>1, <3>1 DEF ChainInv, LeavingRight, Settled
  <2> QED BY <2>1, <2>2
<1>8. TokensRight(msgId, token)'
  BY <1>1, <1>4 DEF ChainInv, Mid, TokensRight, OnChannel, Received
<1>9. WaitsRight(msgId, wiped)'
  <2>1. \A z : Seals(msgId, z) => Seals(msgId, z)'
    BY <1>1, <1>4 DEF Seals, Received
  <2>2. \A k : WillSeal(msgId, k) => WillSeal(msgId, k)'
    BY <1>1, <1>4 DEF WillSeal, Received
  <2>3. \A z : Down(msgId, wiped, owner[z], after[z]) => Down(msgId, wiped, owner[z], after[z])'
    BY <1>1 DEF Down, Names, Received
  <2>4. \A k : Down(msgId, wiped, wire[k].r, wire[k].after) =>
               Down(msgId, wiped, wire[k].r, wire[k].after)'
    BY <1>1 DEF Down, Names, Received
  <2> QED BY <1>1, <2>1, <2>2, <2>3, <2>4 DEF ChainInv, Mid, WaitsRight, Received
<1>10. Mid(queue, msgId, token, wiped, asked)'
  BY <1>1, <1>6, <1>7, <1>8, <1>9
     DEF ChainInv, Mid, Numbered, NamesRight, Names, Ordered, Settled, Behind, Covers,
         RunInOrder, Good, Received, Answered
<1>11. LeavingRight(msgId, wiped, leaving)'
  BY <1>1 DEF ChainInv, LeavingRight, Answered
<1>12. OkExecuted' /\ WipedRight' /\ FailsRight' /\ LostRight' /\ InOrder'
  BY <1>1, AnswersStay
<1> QED BY <1>5, <1>10, <1>11, <1>12 DEF ChainInv

\* Running sends older than the first message of the new session lose their ids.
LEMMA RunNewSessionKeeps == ChainInv /\ RunNewSession => ChainInv'
<1> SUFFICES ASSUME ChainInv, RunNewSession PROVE ChainInv'
  OBVIOUS
<1> DEFINE wipe == { r \in Ids(running) : msgId[r] < announce }
           ids   == [ r \in Sends |-> IF r \in wipe THEN 0 ELSE msgId[r] ]
           tok   == [ r \in Sends |-> IF r \in wipe THEN 0 ELSE token[r] ]
           w     == wiped \cup wipe
<1>1. /\ announce # 0 /\ announce' = 0
      /\ msgId' = ids /\ token' = tok /\ due' = due \cup wipe /\ wiped' = w
      /\ UNCHANGED <<queue, running, lastId, leaving, channel, opened, notice, wire, after,
                     outcome, owner, lost, inbox, asked, executed, done, early, losses>>
  BY DEF RunNewSession, network, server
<1>2. Types /\ Mid(queue, msgId, token, wiped, asked) /\ LeavingRight(msgId, wiped, leaving)
  BY DEF ChainInv
<1>3. Ids(running) \subseteq Sends /\ wipe \in SUBSET Ids(running)
  BY <1>2, IdsOf DEF Types
<1>4. Mid(queue, ids, tok, w, asked) /\ LeavingRight(ids, w, leaving)
  <2> HIDE DEF wipe, ids, tok, w
  <2>1. /\ ids = [ r \in Sends |-> IF r \in wipe THEN 0 ELSE msgId[r] ]
        /\ tok = [ r \in Sends |-> IF r \in wipe THEN 0 ELSE token[r] ]
        /\ w = wiped \cup wipe
    BY DEF ids, tok, w
  <2> QED BY <1>2, <1>3, <2>1, WipeKeepsMid
<1>5. wiped \subseteq w /\ wipe \subseteq Sends
  BY <1>3
<1> HIDE DEF ids, tok, w
<1>6. Mid(queue, msgId, token, wiped, asked)'
  <2>1. (Lists(queue, asked) /\ Numbered(queue, msgId, wiped, asked))'
    BY <1>1, <1>4 DEF Mid, Lists, Numbered
  <2>2. (NamesRight(msgId, wiped) /\ Ordered(msgId, wiped))'
    BY <1>1, <1>4 DEF Mid, NamesRight, Names, Ordered, Received
  <2>3. (Gone(queue, msgId, wiped, asked) /\ RunInOrder(msgId, wiped))'
    BY <1>1, <1>4 DEF Mid, Gone, RunInOrder, Good, Settled, Answered
  <2>4. Behind(msgId, wiped)'
    BY <1>1, <1>4 DEF Mid, Behind, Covers, Good, Settled, Received, Answered
  <2>5. TokensRight(msgId, token)'
    BY <1>1, <1>4 DEF Mid, TokensRight, OnChannel, Received
  <2>6. \A z : Seals(ids, z) => Seals(msgId, z)'
    BY <1>1 DEF Seals, Received
  <2>7. \A k : WillSeal(ids, k) => WillSeal(msgId, k)'
    BY <1>1 DEF WillSeal, Received
  <2>8. \A s, z : Down(ids, w, s, z) => Down(msgId, wiped, s, z)'
    BY <1>1 DEF Down, Names, Received
  <2>9. WaitsRight(msgId, wiped)'
    BY <1>1, <1>4, <2>6, <2>7, <2>8 DEF Mid, WaitsRight, Received
  <2> QED BY <1>1, <1>4, <2>1, <2>2, <2>3, <2>4, <2>5, <2>9 DEF Mid
<1>7. LeavingRight(msgId, wiped, leaving)'
  BY <1>1, <1>4 DEF LeavingRight, Answered
<1>8. Types'
  <2>1. msgId' \in [Sends -> Nat] /\ token' \in [Sends -> Nat] /\ wiped' \subseteq Sends
    BY <1>1, <1>4 DEF Mid
  <2>2. due' \subseteq Sends /\ announce' \in Nat
    BY <1>1, <1>2, <1>5 DEF Types
  <2> QED BY <1>1, <1>2, <2>1, <2>2 DEF Types, Received, Answered
<1>9. OkExecuted' /\ LostRight'
  BY <1>1 DEF ChainInv, OkExecuted, LostRight, Answered
<1>10. lost # {} /\ lost' # {}
  BY <1>1 DEF ChainInv, LostRight
<1>11. WipedRight' /\ FailsRight'
  BY <1>10 DEF WipedRight, FailsRight, Retried
<1>12. InOrder'
  BY <1>1, <1>5 DEF ChainInv, InOrder
<1> QED BY <1>6, <1>7, <1>8, <1>9, <1>11, <1>12 DEF ChainInv

-----------------------------------------------------------------------------
(* The actions of the server keep ChainInv. *)

\* The message at the head of the wire is there, and its send is known by its id.
LEMMA ReceiveNames ==
  ASSUME ChainInv, Receive
  PROVE  /\ wire \in Seq(Messages) /\ wire # <<>> /\ Len(wire) \in Nat \ {0}
         /\ DOMAIN wire = 1..Len(wire) /\ DOMAIN wire' = 1..(Len(wire) - 1)
         /\ wire' \in Seq(Messages) /\ 1 \in DOMAIN wire
         /\ \A k \in DOMAIN wire' : k + 1 \in DOMAIN wire /\ wire'[k] = wire[k + 1]
         /\ \A k \in DOMAIN wire : k = 1 \/ (k - 1 \in DOMAIN wire' /\ wire'[k - 1] = wire[k])
         /\ Received' = Received \cup {wire[1].id}
         /\ \A i \in Received : after'[i] = after[i] /\ owner'[i] = owner[i]
         /\ wire[1].id \notin Received =>
              after'[wire[1].id] = wire[1].after /\ owner'[wire[1].id] = wire[1].r
         /\ after' \in [Received' -> 0..lastId] /\ owner' \in [Received' -> Sends]
         /\ \A y \in 1..lastId, s \in Sends : Names(msgId, y, s)' <=> Names(msgId, y, s)
         /\ UNCHANGED <<queue, running, msgId, token, due, lastId, leaving, channel, opened,
                        notice, outcome, lost, announce, inbox, asked, executed, done,
                        wiped, early, losses>>
<1> DEFINE m == wire[1]
<1>1. /\ wire \in Seq(Messages) /\ wire # <<>> /\ wire' = Tail(wire) /\ Head(wire) = m
      /\ UNCHANGED <<queue, running, msgId, token, due, lastId, leaving, channel, opened,
                     notice, outcome, lost, announce, inbox, asked, executed, done,
                     wiped, early, losses>>
  BY DEF ChainInv, Types, Receive, engine, network, past
<1>2. /\ Len(wire) \in Nat \ {0} /\ DOMAIN wire = 1..Len(wire)
      /\ DOMAIN wire' = 1..(Len(wire) - 1) /\ wire' \in Seq(Messages)
      /\ \A i \in 1..(Len(wire) - 1) : wire'[i] = wire[i + 1]
  BY <1>1, HeadTaken
<1>3. /\ 1 \in DOMAIN wire /\ m \in Messages
      /\ \A k \in DOMAIN wire' : k + 1 \in DOMAIN wire /\ wire'[k] = wire[k + 1]
      /\ \A k \in DOMAIN wire : k = 1 \/ (k - 1 \in DOMAIN wire' /\ wire'[k - 1] = wire[k])
  <2>1. 1 \in DOMAIN wire
    BY <1>2
  <2>2. m \in Messages
    BY <1>1, <2>1
  <2>3. \A k \in DOMAIN wire' : k + 1 \in DOMAIN wire /\ wire'[k] = wire[k + 1]
    BY <1>2
  <2>4. ASSUME NEW k \in DOMAIN wire, k # 1 PROVE k - 1 \in DOMAIN wire' /\ wire'[k - 1] = wire[k]
    <3>1. k - 1 \in 1..(Len(wire) - 1) /\ (k - 1) + 1 = k
      BY <1>2, <2>4
    <3> QED BY <1>2, <3>1
  <2> QED BY <2>1, <2>2, <2>3, <2>4
<1>4. /\ m.id \in 1..lastId /\ m.after \in 0..lastId /\ m.r \in Sends
      /\ Received \subseteq 1..lastId
      /\ after \in [Received -> 0..lastId] /\ owner \in [Received -> Sends]
  BY <1>3 DEF ChainInv, Types, Messages
<1> HIDE DEF m
<1>5. /\ Received' = Received \cup {m.id}
      /\ \A i \in Received : after'[i] = after[i] /\ owner'[i] = owner[i]
      /\ m.id \notin Received => after'[m.id] = m.after /\ owner'[m.id] = m.r
      /\ after' \in [Received' -> 0..lastId] /\ owner' \in [Received' -> Sends]
  <2>1. CASE m.id \in Received
    <3>1. after' = after /\ owner' = owner
      BY <1>1, <2>1 DEF Receive
    <3> QED BY <1>4, <2>1, <3>1 DEF Received
  <2>2. CASE m.id \notin Received
    <3>1. /\ after' = [ i \in Received \cup {m.id} |-> IF i = m.id THEN m.after ELSE after[i] ]
          /\ owner' = [ i \in Received \cup {m.id} |-> IF i = m.id THEN m.r ELSE owner[i] ]
      BY <1>1, <2>2 DEF Receive
    <3>2. Received' = Received \cup {m.id}
      BY <3>1 DEF Received
    <3> QED BY <1>4, <2>2, <3>1, <3>2
  <2> QED BY <2>1, <2>2
<1>6. ASSUME NEW y \in 1..lastId, NEW s \in Sends, Names(msgId, y, s)
      PROVE  Names(msgId, y, s)'
  <2>1. CASE msgId[s] = y
    BY <1>1, <2>1 DEF Names
  <2>2. CASE y \in Received /\ owner[y] = s
    BY <1>5, <2>2 DEF Names
  <2>3. ASSUME NEW k \in DOMAIN wire, wire[k].id = y, wire[k].r = s PROVE Names(msgId, y, s)'
    <3>1. CASE k = 1
      <4>1. m.id = y /\ m.r = s
        BY <2>3, <3>1 DEF m
      <4>2. CASE m.id \notin Received
        BY <1>5, <4>1, <4>2 DEF Names
      <4>3. CASE m.id \in Received
        <5>1. Names(msgId, y, owner[y]) /\ owner[y] \in Sends
          BY <1>4, <4>1, <4>3 DEF Names
        <5>2. owner[y] = s
          BY <1>6, <5>1 DEF ChainInv, Mid, NamesRight
        <5> QED BY <1>5, <4>1, <4>3, <5>2 DEF Names
      <4> QED BY <4>2, <4>3
    <3>2. CASE k # 1
      <4>1. k - 1 \in DOMAIN wire' /\ wire'[k - 1].id = y /\ wire'[k - 1].r = s
        BY <1>3, <2>3, <3>2
      <4> QED BY <4>1 DEF Names
    <3> QED BY <3>1, <3>2
  <2> QED BY <1>6, <2>1, <2>2, <2>3 DEF Names
<1>7. ASSUME NEW y \in 1..lastId, NEW s \in Sends, Names(msgId, y, s)'
      PROVE  Names(msgId, y, s)
  <2>1. CASE msgId'[s] = y
    BY <1>1, <2>1 DEF Names
  <2>2. CASE y \in Received' /\ owner'[y] = s
    <3>1. CASE y \in Received
      BY <1>5, <2>2, <3>1 DEF Names
    <3>2. CASE y \notin Received
      <4>1. m.id = y /\ m.r = s
        BY <1>5, <2>2, <3>2
      <4> QED BY <1>3, <4>1 DEF Names, m
    <3> QED BY <3>1, <3>2
  <2>3. CASE \E k \in DOMAIN wire' : wire'[k].id = y /\ wire'[k].r = s
    BY <1>3, <2>3 DEF Names
  <2> QED BY <1>7, <2>1, <2>2, <2>3 DEF Names
<1> QED BY <1>1, <1>2, <1>3, <1>5, <1>6, <1>7 DEF m

\* A message that arrives waits for the same as on its way.
LEMMA ReceiveKeeps == ChainInv /\ Receive => ChainInv'
<1> SUFFICES ASSUME ChainInv, Receive PROVE ChainInv'
  OBVIOUS
<1> USE SendsAreNat
<1> DEFINE m == wire[1]
<1>1. /\ wire \in Seq(Messages) /\ wire # <<>> /\ Len(wire) \in Nat \ {0}
      /\ DOMAIN wire = 1..Len(wire) /\ DOMAIN wire' = 1..(Len(wire) - 1)
      /\ wire' \in Seq(Messages) /\ 1 \in DOMAIN wire
      /\ \A k \in DOMAIN wire' : k + 1 \in DOMAIN wire /\ wire'[k] = wire[k + 1]
      /\ \A k \in DOMAIN wire : k = 1 \/ (k - 1 \in DOMAIN wire' /\ wire'[k - 1] = wire[k])
      /\ Received' = Received \cup {m.id}
      /\ \A i \in Received : after'[i] = after[i] /\ owner'[i] = owner[i]
      /\ m.id \notin Received => after'[m.id] = m.after /\ owner'[m.id] = m.r
      /\ after' \in [Received' -> 0..lastId] /\ owner' \in [Received' -> Sends]
      /\ \A y \in 1..lastId, s \in Sends : Names(msgId, y, s)' <=> Names(msgId, y, s)
      /\ UNCHANGED <<queue, running, msgId, token, due, lastId, leaving, channel, opened,
                     notice, outcome, lost, announce, inbox, asked, executed, done,
                     wiped, early, losses>>
  BY ReceiveNames
<1>2. /\ Types /\ Mid(queue, msgId, token, wiped, asked) /\ LeavingRight(msgId, wiped, leaving)
      /\ m.id \in 1..lastId /\ m.after \in 0..lastId /\ m.r \in Sends
  <2>1. Types /\ Mid(queue, msgId, token, wiped, asked) /\ LeavingRight(msgId, wiped, leaving)
    BY DEF ChainInv
  <2>2. m \in Messages
    BY <1>1
  <2> QED BY <1>1, <2>1, <2>2 DEF Types, Messages
<1> HIDE DEF m
<1>3. \A i \in Received' : i \in Received \/ (i = m.id /\ m.id \notin Received)
  BY <1>1
<1>4. Types'
  <2>1. \A k \in DOMAIN wire' : wire'[k].id \in 1..lastId /\ wire'[k].after \in 0..lastId
    BY <1>1, <1>2 DEF Types
  <2>2. Received' \subseteq 1..lastId
    BY <1>1, <1>2 DEF Types
  <2> QED BY <1>1, <1>2, <2>1, <2>2 DEF Types, Answered
<1>5. Lists(queue, asked)' /\ Numbered(queue, msgId, wiped, asked)' /\ Ordered(msgId, wiped)'
  BY <1>1, <1>2 DEF Mid, Lists, Numbered, Ordered
<1>6. Gone(queue, msgId, wiped, asked)' /\ RunInOrder(msgId, wiped)'
  BY <1>1, <1>2 DEF Mid, Gone, RunInOrder, Settled, Good, Answered
<1>7. NamesRight(msgId, wiped)'
  BY <1>1, <1>2 DEF Mid, NamesRight
<1>8. Behind(msgId, wiped)'
  <2> SUFFICES ASSUME early = {}
               PROVE  /\ \A k \in DOMAIN wire' : Covers(msgId, wiped, wire'[k].r, wire'[k].after)
                      /\ \A i \in Received' : Covers(msgId, wiped, owner'[i], after'[i])
    BY <1>1 DEF Behind, Covers, Settled, Good, Answered
  <2>1. /\ \A k \in DOMAIN wire : Covers(msgId, wiped, wire[k].r, wire[k].after)
        /\ \A i \in Received : Covers(msgId, wiped, owner[i], after[i])
    BY <1>2 DEF Mid, Behind
  <2>2. Covers(msgId, wiped, m.r, m.after)
    BY <1>1, <2>1 DEF m
  <2> QED BY <1>1, <1>3, <2>1, <2>2
<1>9. TokensRight(msgId, token)'
  <2>1. \A r \in Ids(running) :
          channel # 0 /\ msgId[r] # 0 /\ token[r] = channel =>
             msgId[r] \in Received' \/ \E k \in DOMAIN wire' : wire'[k].id = msgId[r]
    <3> TAKE r \in Ids(running)
    <3> HAVE channel # 0 /\ msgId[r] # 0 /\ token[r] = channel
    <3>1. msgId[r] \in Received \/ \E k \in DOMAIN wire : wire[k].id = msgId[r]
      BY <1>2 DEF Mid, TokensRight
    <3> QED BY <1>1, <3>1 DEF m
  <2> QED BY <1>1, <1>2, <2>1 DEF Mid, TokensRight, OnChannel
<1>10. \A r \in Sends, y \in 0..lastId :
         Down(msgId, wiped, r, y) =>
           \/ y = 0
           \/ \E s \in Sends : s < r /\ Names(msgId, y, s)'
           \/ (\A s \in Sends : ~Names(msgId, y, s)') /\ \E s \in wiped : s < r
  <2> TAKE r \in Sends, y \in 0..lastId
  <2>1. y = 0 \/ y \in 1..lastId
    BY <1>2 DEF Types
  <2> QED BY <1>1, <2>1 DEF Down
<1>11. ASSUME NEW z \in Received, Seals(msgId, z)
       PROVE  Seals(msgId, z)'
  <2>1. /\ \A i \in Received : i <= z => after[i] < z
        /\ \A r \in Ids(running) : 0 < msgId[r] /\ msgId[r] < z => msgId[r] \in Received
        /\ \A k \in DOMAIN wire : wire[k].id < z => wire[k].id \in Received
    BY <1>11 DEF Seals
  <2>2. z \in Nat /\ m.id \in Nat
    BY <1>2 DEF Types
  <2>3. m.id \notin Received => ~(m.id <= z)
    <3>1. m.id < z => m.id \in Received
      BY <1>1, <2>1 DEF m
    <3> QED BY <1>11, <2>2, <3>1
  <2> QED BY <1>1, <1>3, <2>1, <2>3 DEF Seals
<1>12. ASSUME NEW z \in Received', z = m.id, m.id \notin Received, WillSeal(msgId, 1)
       PROVE  Seals(msgId, z)'
  <2>1. /\ m.after < z
        /\ \A i \in Received : i < z => after[i] < z
        /\ \A r \in Ids(running) : 0 < msgId[r] /\ msgId[r] < z =>
             msgId[r] \in Received \/ \E l \in DOMAIN wire : l < 1 /\ wire[l].id = msgId[r]
        /\ \A l \in DOMAIN wire : l > 1 /\ wire[l].id < z =>
             wire[l].id \in Received \/ \E j \in DOMAIN wire : j < 1 /\ wire[j].id = wire[l].id
    BY <1>12 DEF WillSeal, m
  <2>2. \A l \in DOMAIN wire : ~(l < 1)
    BY <1>1
  <2>3. \A i \in Received' : i <= z => after'[i] < z
    <3> TAKE i \in Received'
    <3>1. CASE i = m.id /\ m.id \notin Received
      BY <1>1, <1>12, <2>1, <3>1
    <3>2. CASE i \in Received
      <4>0. i # z /\ i \in 1..lastId /\ z \in 1..lastId
        BY <1>2, <1>12, <3>2 DEF Types
      <4>1. i # z /\ i \in Nat /\ z \in Nat
        BY <1>2, <4>0 DEF Types
      <4>2. i <= z => i < z
        BY <4>1
      <4> QED BY <1>1, <2>1, <3>2, <4>2
    <3> QED BY <1>3, <3>1, <3>2
  <2>4. \A k \in DOMAIN wire' : wire'[k].id < z => wire'[k].id \in Received'
    <3> TAKE k \in DOMAIN wire'
    <3>1. k + 1 \in DOMAIN wire /\ wire'[k] = wire[k + 1] /\ k + 1 > 1
      BY <1>1
    <3> QED BY <1>1, <2>1, <2>2, <3>1
  <2>5. \A r \in Ids(running) : 0 < msgId[r] /\ msgId[r] < z => msgId[r] \in Received'
    BY <1>1, <2>1, <2>2
  <2> QED BY <1>1, <2>3, <2>4, <2>5 DEF Seals
<1>13. ASSUME NEW k \in DOMAIN wire', WillSeal(msgId, k + 1)
       PROVE  WillSeal(msgId, k)'
  <2> DEFINE z == wire'[k].id
  <2>1. /\ k \in Nat /\ k + 1 \in DOMAIN wire /\ wire'[k] = wire[k + 1] /\ z = wire[k + 1].id
        /\ \A l \in DOMAIN wire : l \in Nat
    BY <1>1
  <2> HIDE DEF z
  <2>2. /\ wire'[k].after < z
        /\ \A i \in Received : i < z => after[i] < z
        /\ \A l \in DOMAIN wire : l < k + 1 /\ wire[l].id < z => wire[l].after < z
        /\ \A r \in Ids(running) : 0 < msgId[r] /\ msgId[r] < z =>
             msgId[r] \in Received \/ \E l \in DOMAIN wire : l < k + 1 /\ wire[l].id = msgId[r]
        /\ \A l \in DOMAIN wire : l > k + 1 /\ wire[l].id < z =>
             wire[l].id \in Received \/ \E j \in DOMAIN wire : j < k + 1 /\ wire[j].id = wire[l].id
    BY <1>13, <2>1 DEF WillSeal
  <2>3. \A l \in DOMAIN wire' : l \in Nat /\ (l < k => l + 1 < k + 1) /\ (l > k => l + 1 > k + 1)
    BY <1>1, <2>1
  <2>4. ASSUME NEW y, NEW l \in DOMAIN wire, l < k + 1, wire[l].id = y
        PROVE  y \in Received' \/ \E j \in DOMAIN wire' : j < k /\ wire'[j].id = y
    <3>1. CASE l = 1
      BY <1>1, <2>4, <3>1 DEF m
    <3>2. CASE l # 1
      <4>1. l - 1 \in DOMAIN wire' /\ wire'[l - 1] = wire[l] /\ l - 1 < k
        BY <1>1, <2>1, <2>4, <3>2
      <4> QED BY <2>4, <4>1
    <3> QED BY <3>1, <3>2
  <2>5. \A i \in Received' : i < z => after'[i] < z
    <3> TAKE i \in Received'
    <3>1. CASE i \in Received
      BY <1>1, <2>2, <3>1
    <3>2. CASE i = m.id /\ m.id \notin Received
      <4>1. 1 < k + 1 /\ 1 \in DOMAIN wire
        BY <1>1, <2>1
      <4>2. m.id < z => m.after < z
        BY <2>2, <4>1 DEF m
      <4> QED BY <1>1, <3>2, <4>2
    <3> QED BY <1>3, <3>1, <3>2
  <2>6. \A l \in DOMAIN wire' : l < k /\ wire'[l].id < z => wire'[l].after < z
    BY <1>1, <2>2, <2>3
  <2>7. ASSUME NEW r \in Ids(running), 0 < msgId[r], msgId[r] < z
        PROVE  msgId[r] \in Received' \/ \E l \in DOMAIN wire' : l < k /\ wire'[l].id = msgId[r]
    <3>1. CASE msgId[r] \in Received
      BY <1>1, <3>1
    <3>2. CASE \E l \in DOMAIN wire : l < k + 1 /\ wire[l].id = msgId[r]
      BY <2>4, <3>2
    <3> QED BY <2>2, <2>7, <3>1, <3>2
  <2>8. ASSUME NEW l \in DOMAIN wire', l > k, wire'[l].id < z
        PROVE  wire'[l].id \in Received' \/ \E j \in DOMAIN wire' : j < k /\ wire'[j].id = wire'[l].id
    <3>0. l + 1 \in DOMAIN wire /\ wire[l + 1] = wire'[l] /\ l + 1 > k + 1
      BY <1>1, <2>3, <2>8
    <3>1. wire'[l].id \in Received \/ \E j \in DOMAIN wire : j < k + 1 /\ wire[j].id = wire'[l].id
      BY <2>2, <2>8, <3>0
    <3>2. CASE wire'[l].id \in Received
      BY <1>1, <3>2
    <3>3. CASE \E j \in DOMAIN wire : j < k + 1 /\ wire[j].id = wire'[l].id
      BY <2>4, <3>3
    <3> QED BY <3>1, <3>2, <3>3
  <2>9. msgId' = msgId /\ running' = running
    BY <1>1
  <2> QED BY <2>2, <2>5, <2>6, <2>7, <2>8, <2>9 DEF WillSeal, z
<1>14. WaitsRight(msgId, wiped)'
  <2>1. \A z \in Received', y \in 0..lastId : after'[z] = y =>
          (Down(msgId, wiped, owner'[z], y) => Down(msgId, wiped, owner[z], after[z])')
    <3> TAKE z \in Received', y \in 0..lastId
    <3>1. owner'[z] \in Sends
      BY <1>1
    <3> QED BY <1>1, <1>10, <3>1 DEF Down, Names
  <2>2. \A k \in DOMAIN wire', y \in 0..lastId : wire'[k].after = y =>
          (Down(msgId, wiped, wire'[k].r, y) => Down(msgId, wiped, wire[k].r, wire[k].after)')
    <3> TAKE k \in DOMAIN wire', y \in 0..lastId
    <3>0. wire'[k] \in Messages
      BY <1>1
    <3>1. wire'[k].r \in Sends
      BY <3>0 DEF Messages
    <3> QED BY <1>1, <1>10, <3>1 DEF Down, Names
  <2> SUFFICES ASSUME early = {}
               PROVE  /\ \A z \in Received' : \/ Down(msgId, wiped, owner[z], after[z])'
                                              \/ owner'[z] \in wiped /\ Seals(msgId, z)'
                      /\ \A k \in DOMAIN wire' :
                           \/ Down(msgId, wiped, wire[k].r, wire[k].after)'
                           \/ wire'[k].id \in Received'
                           \/ wire'[k].r \in wiped /\ WillSeal(msgId, k)'
    BY <1>1 DEF WaitsRight
  <2>3. /\ \A z \in Received : \/ Down(msgId, wiped, owner[z], after[z])
                               \/ owner[z] \in wiped /\ Seals(msgId, z)
        /\ \A k \in DOMAIN wire :
             \/ Down(msgId, wiped, wire[k].r, wire[k].after) \/ wire[k].id \in Received
             \/ wire[k].r \in wiped /\ WillSeal(msgId, k)
    BY <1>2 DEF Mid, WaitsRight
  <2>4. ASSUME NEW z \in Received'
        PROVE  \/ Down(msgId, wiped, owner[z], after[z])'
               \/ owner'[z] \in wiped /\ Seals(msgId, z)'
    <3>0. after'[z] \in 0..lastId
      BY <1>1
    <3>1. CASE z \in Received
      <4>1. owner'[z] = owner[z] /\ after'[z] = after[z]
        BY <1>1, <3>1
      <4>2. CASE Down(msgId, wiped, owner[z], after[z])
        BY <2>1, <3>0, <4>1, <4>2
      <4>3. CASE owner[z] \in wiped /\ Seals(msgId, z)
        BY <1>11, <3>1, <4>1, <4>3
      <4> QED BY <2>3, <3>1, <4>2, <4>3
    <3>2. CASE z = m.id /\ m.id \notin Received
      <4>1. owner'[z] = m.r /\ after'[z] = m.after /\ 1 \in DOMAIN wire
        BY <1>1, <3>2
      <4>2. CASE Down(msgId, wiped, m.r, m.after)
        BY <2>1, <3>0, <4>1, <4>2
      <4>3. CASE m.r \in wiped /\ WillSeal(msgId, 1)
        BY <1>12, <3>2, <4>1, <4>3
      <4> QED BY <2>3, <3>2, <4>1, <4>2, <4>3 DEF m
    <3> QED BY <1>3, <3>1, <3>2
  <2>5. ASSUME NEW k \in DOMAIN wire'
        PROVE  \/ Down(msgId, wiped, wire[k].r, wire[k].after)'
               \/ wire'[k].id \in Received'
               \/ wire'[k].r \in wiped /\ WillSeal(msgId, k)'
    <3>1. k + 1 \in DOMAIN wire /\ wire'[k] = wire[k + 1]
      BY <1>1
    <3>2. wire'[k].after \in 0..lastId
      BY <1>2, <3>1 DEF Types
    <3>3. CASE Down(msgId, wiped, wire[k + 1].r, wire[k + 1].after)
      BY <2>2, <3>1, <3>2, <3>3
    <3>4. CASE wire[k + 1].id \in Received
      BY <1>1, <3>1, <3>4
    <3>5. CASE wire[k + 1].r \in wiped /\ WillSeal(msgId, k + 1)
      BY <1>13, <3>1, <3>5
    <3> QED BY <2>3, <3>1, <3>3, <3>4, <3>5
  <2> QED BY <2>4, <2>5
<1>15. Mid(queue, msgId, token, wiped, asked)'
  BY <1>1, <1>2, <1>5, <1>6, <1>7, <1>8, <1>9, <1>14 DEF Mid
<1>16. LeavingRight(msgId, wiped, leaving)'
  BY <1>1, <1>2 DEF LeavingRight, Answered
<1>17. Answered' = Answered /\ \A i \in Answered : owner'[i] = owner[i]
  BY <1>1, <1>2 DEF Types, Answered
<1>18. OkExecuted' /\ WipedRight' /\ LostRight' /\ InOrder'
  <2>1. OkExecuted' /\ LostRight'
    BY <1>1, <1>17 DEF ChainInv, OkExecuted, LostRight
  <2>2. WipedRight'
    BY <1>1, <1>17 DEF ChainInv, WipedRight
  <2>3. InOrder'
    BY <1>1 DEF ChainInv, InOrder
  <2> QED BY <2>1, <2>2, <2>3
<1>19. FailsRight'
  BY <1>1, <1>17 DEF ChainInv, FailsRight, Retried, Answered
<1> QED BY <1>4, <1>15, <1>16, <1>18, <1>19 DEF ChainInv

\* What an answer of the server keeps, apart from what it says of the send.
LEMMA SayKeeps ==
  ASSUME ChainInv, NEW id \in Pending, NEW what \in {"ok", "fail", "retry"}, Say(id, what),
         UNCHANGED <<engine, leaving, network, notice, wire, after, owner, lost, announce,
                     asked, done, wiped, early, losses>>,
         executed' \in Seq(Sends), Ids(executed) \subseteq Ids(executed')
  PROVE  /\ Types' /\ LeavingRight(msgId, wiped, leaving)'
         /\ RunInOrder(msgId, wiped)' => Mid(queue, msgId, token, wiped, asked)'
         /\ WipedRight' /\ LostRight'
         /\ \A i \in Answered : outcome'[i] = outcome[i]
         /\ Answered' = Answered \cup {id} /\ outcome'[id] = what /\ id \in Received
         /\ id \notin Answered /\ owner[id] \in Sends
         /\ \A a : Settled(msgId, a) => Settled(msgId, a)'
         /\ \A r : Retried(r) => Retried(r)'
<1>1. /\ outcome' = [ i \in Answered \cup {id} |-> IF i = id THEN what ELSE outcome[i] ]
      /\ inbox' = inbox \cup {id} /\ id \in Received /\ id \notin Answered
      /\ UNCHANGED <<queue, running, msgId, token, due, lastId, leaving, channel, opened,
                     notice, wire, after, owner, lost, announce, asked, done, wiped, early>>
  BY DEF Say, Pending, engine, network
<1>2. /\ Types /\ Mid(queue, msgId, token, wiped, asked) /\ LeavingRight(msgId, wiped, leaving)
      /\ WipedRight /\ LostRight
  BY DEF ChainInv
<1>3. /\ Answered' = Answered \cup {id} /\ outcome'[id] = what
      /\ \A i \in Answered : outcome'[i] = outcome[i]
      /\ Received' = Received /\ owner[id] \in Sends
  BY <1>1, <1>2 DEF Answered, Received, Types
<1>4. Types'
  <2>1. outcome' \in [Answered' -> {"ok", "fail", "retry"}]
    BY <1>1, <1>2, <1>3 DEF Types
  <2>2. Answered' \subseteq Received' /\ inbox' \subseteq Answered'
    BY <1>1, <1>2, <1>3 DEF Types
  <2> QED BY <1>1, <1>2, <1>3, <2>1, <2>2 DEF Types
<1>5. \A a : Settled(msgId, a) => Settled(msgId, a)'
  BY <1>1, <1>3 DEF Settled
<1>6. \A r : Retried(r) => Retried(r)'
  BY <1>1, <1>3 DEF Retried
<1>7. LeavingRight(msgId, wiped, leaving)'
  BY <1>1, <1>2, <1>3 DEF LeavingRight
<1>8. WipedRight' /\ LostRight'
  BY <1>1, <1>2, <1>3 DEF WipedRight, LostRight
<1>9. ASSUME RunInOrder(msgId, wiped)'
      PROVE  Mid(queue, msgId, token, wiped, asked)'
  <2>1. Lists(queue, asked)' /\ Numbered(queue, msgId, wiped, asked)' /\ Ordered(msgId, wiped)'
    BY <1>1, <1>2 DEF Mid, Lists, Numbered, Ordered
  <2>2. NamesRight(msgId, wiped)'
    BY <1>1, <1>2, <1>3 DEF Mid, NamesRight, Names
  <2>3. Gone(queue, msgId, wiped, asked)'
    BY <1>1, <1>2, <1>5 DEF Mid, Gone
  <2>4. Behind(msgId, wiped)'
    <3> SUFFICES ASSUME early = {}
                 PROVE  /\ \A k \in DOMAIN wire : Covers(msgId, wiped, wire[k].r, wire[k].after)'
                        /\ \A i \in Received : Covers(msgId, wiped, owner[i], after[i])'
      BY <1>1, <1>3 DEF Behind
    <3>1. /\ \A k \in DOMAIN wire : Covers(msgId, wiped, wire[k].r, wire[k].after)
          /\ \A i \in Received : Covers(msgId, wiped, owner[i], after[i])
      BY <1>2 DEF Mid, Behind
    <3> QED BY <1>1, <1>5, <3>1 DEF Covers, Good
  <2>5. TokensRight(msgId, token)'
    BY <1>1, <1>2, <1>3 DEF Mid, TokensRight, OnChannel
  <2>6. WaitsRight(msgId, wiped)'
    <3>1. \A z : Seals(msgId, z) => Seals(msgId, z)'
      BY <1>1, <1>3 DEF Seals
    <3>2. \A k : WillSeal(msgId, k) => WillSeal(msgId, k)'
      BY <1>1, <1>3 DEF WillSeal
    <3>3. \A z : Down(msgId, wiped, owner[z], after[z]) => Down(msgId, wiped, owner[z], after[z])'
      BY <1>1, <1>3 DEF Down, Names
    <3>4. \A k : Down(msgId, wiped, wire[k].r, wire[k].after) =>
                 Down(msgId, wiped, wire[k].r, wire[k].after)'
      BY <1>1, <1>3 DEF Down, Names
    <3> QED BY <1>1, <1>2, <1>3, <3>1, <3>2, <3>3, <3>4 DEF Mid, WaitsRight
  <2> QED BY <1>1, <1>2, <1>9, <2>1, <2>2, <2>3, <2>4, <2>5, <2>6 DEF Mid
<1> QED BY <1>1, <1>3, <1>4, <1>5, <1>6, <1>7, <1>8, <1>9

\* When nothing new is carried out, what is carried out stays in order.
LEMMA NothingRun ==
  ASSUME ChainInv, UNCHANGED <<executed, wiped, early, msgId>>,
         \A a : Settled(msgId, a) => Settled(msgId, a)'
  PROVE  RunInOrder(msgId, wiped)' /\ InOrder'
<1>1. RunInOrder(msgId, wiped) /\ InOrder
  BY DEF ChainInv, Mid
<1>2. RunInOrder(msgId, wiped)'
  BY <1>1 DEF RunInOrder, Good
<1> QED BY <1>1, <1>2 DEF InOrder

\* The server asks for another attempt; nothing is carried out.
LEMMA AskAgainKeeps ==
  ASSUME ChainInv, NEW id \in Pending, AskAgain(id)
  PROVE  ChainInv'
<1>1. /\ Say(id, "retry") /\ executed' = executed
      /\ UNCHANGED <<engine, leaving, network, notice, wire, after, owner, lost, announce,
                     asked, done, wiped, early, losses>>
  BY DEF AskAgain, past
<1>2. executed' \in Seq(Sends) /\ Ids(executed) \subseteq Ids(executed')
  BY <1>1 DEF ChainInv, Types
<1>3. "retry" \in {"ok", "fail", "retry"}
  OBVIOUS
<1>4. /\ Types' /\ LeavingRight(msgId, wiped, leaving)'
      /\ RunInOrder(msgId, wiped)' => Mid(queue, msgId, token, wiped, asked)'
      /\ WipedRight' /\ LostRight'
      /\ \A i \in Answered : outcome'[i] = outcome[i]
      /\ Answered' = Answered \cup {id} /\ outcome'[id] = "retry"
      /\ \A a : Settled(msgId, a) => Settled(msgId, a)'
      /\ \A r : Retried(r) => Retried(r)'
  BY <1>1, <1>2, <1>3, SayKeeps
<1>5. RunInOrder(msgId, wiped)' /\ InOrder'
  BY <1>1, <1>4, NothingRun DEF engine
<1>6. OkExecuted'
  BY <1>1, <1>4 DEF ChainInv, OkExecuted
<1>7. FailsRight'
  BY <1>1, <1>4 DEF ChainInv, FailsRight
<1> QED BY <1>4, <1>5, <1>6, <1>7 DEF ChainInv

\* What a message that is carried out waited for was carried out before it, so all
\* earlier sends were answered.
LEMMA ExecuteKeeps ==
  ASSUME ChainInv, NEW id \in Pending, Execute(id)
  PROVE  ChainInv'
<1> USE SendsAreNat
<1> DEFINE b == owner[id]
           y == after[id]
<1>1. /\ Say(id, "ok") /\ Ready(id)
      /\ executed' = IF b \in Ids(executed) THEN executed ELSE Append(executed, b)
      /\ UNCHANGED <<engine, leaving, network, notice, wire, after, owner, lost, announce,
                     asked, done, wiped, early, losses>>
      /\ UNCHANGED <<msgId, wiped, early, owner, lost, done>>
  BY DEF Execute, engine
<1>2. Types /\ Mid(queue, msgId, token, wiped, asked) /\ OkExecuted /\ InOrder
  BY DEF ChainInv
<1>3. /\ id \in Received /\ id \notin Answered /\ b \in Sends /\ y \in 0..lastId
      /\ id \in 1..lastId /\ executed \in Seq(Sends)
  BY <1>2 DEF Pending, Types
<1> HIDE DEF b, y
<1>4. /\ executed' \in Seq(Sends) /\ Ids(executed') = Ids(executed) \cup {b}
      /\ Len(executed) \in Nat /\ \A i \in 1..Len(executed) : executed'[i] = executed[i]
      /\ Len(executed') >= Len(executed)
      /\ b \in Ids(executed) => executed' = executed
      /\ b \notin Ids(executed) =>
           Len(executed') = Len(executed) + 1 /\ executed'[Len(executed) + 1] = b
  <2>1. CASE b \in Ids(executed)
    <3>1. executed' = executed /\ Len(executed) \in Nat
      BY <1>1, <1>3, <2>1
    <3> QED BY <1>3, <2>1, <3>1
  <2>2. CASE b \notin Ids(executed)
    <3>1. executed' = Append(executed, b)
      BY <1>1, <2>2
    <3>2. /\ executed' \in Seq(Sends) /\ Len(executed) \in Nat /\ Len(executed') = Len(executed) + 1
          /\ \A i \in 1..Len(executed) : executed'[i] = executed[i]
          /\ executed'[Len(executed) + 1] = b
      BY <1>3, <3>1
    <3>3. Ids(executed') = Ids(executed) \cup {b}
      <4>1. 1..(Len(executed) + 1) = 1..Len(executed) \cup {Len(executed) + 1}
        BY <3>2
      <4>2. Ids(executed') = { executed'[i] : i \in 1..(Len(executed) + 1) }
            /\ Ids(executed) = { executed[i] : i \in 1..Len(executed) }
        BY <3>2 DEF Ids
      <4> QED BY <3>2, <4>1, <4>2
    <3> QED BY <2>2, <3>2, <3>3
  <2> QED BY <2>1, <2>2
<1>5. "ok" \in {"ok", "fail", "retry"}
  OBVIOUS
<1>6. /\ Types' /\ LeavingRight(msgId, wiped, leaving)'
      /\ RunInOrder(msgId, wiped)' => Mid(queue, msgId, token, wiped, asked)'
      /\ WipedRight' /\ LostRight'
      /\ \A i \in Answered : outcome'[i] = outcome[i]
      /\ Answered' = Answered \cup {id} /\ outcome'[id] = "ok"
      /\ \A a : Settled(msgId, a) => Settled(msgId, a)'
      /\ \A r : Retried(r) => Retried(r)'
  BY <1>1, <1>4, <1>5, SayKeeps
<1>7. ASSUME early = {}, NEW a \in Sends, a < b, Good(wiped, a)
      PROVE  Settled(msgId, a)
  <2>1. msgId[a] # 0 /\ (Settled(msgId, a) \/ y >= msgId[a])
    BY <1>2, <1>3, <1>7 DEF Mid, Behind, Covers, b, y
  <2>2. ASSUME y >= msgId[a] PROVE Settled(msgId, a)
    <3>0. msgId[a] \in Nat /\ y \in Nat
      BY <1>2, <1>3 DEF Types
    <3>1. msgId[a] \in Nat /\ y \in Nat /\ y # 0
      BY <2>1, <2>2, <3>0
    <3>2. y \in Answered /\ outcome[y] = "ok" /\ y \in Received /\ y \in 1..lastId
      BY <1>1, <1>2, <1>3, <3>1 DEF Ready, Types, y
    <3> DEFINE c == owner[y]
    <3>3. c \in Sends /\ c \in Ids(executed) /\ Names(msgId, y, c)
      BY <1>2, <3>2 DEF OkExecuted, Types, Names
    <3> HIDE DEF c
    <3>4. CASE a < c
      BY <1>2, <1>7, <3>3, <3>4 DEF Mid, RunInOrder
    <3>5. CASE ~(a < c)
      <4>1. c \notin wiped
        BY <1>7, <3>3, <3>5 DEF Good
      <4>2. msgId[c] = y
        BY <1>2, <3>2, <3>3, <4>1 DEF Mid, NamesRight
      <4>3. ~(c < a)
        <5>1. c < a => msgId[c] < msgId[a]
          BY <1>2, <2>1, <3>3, <4>1 DEF Mid, Ordered
        <5> QED BY <2>2, <3>1, <4>2, <5>1
      <4>4. c = a
        BY <3>3, <3>5, <4>3
      <4> QED BY <3>2, <4>2, <4>4 DEF Settled
    <3> QED BY <3>4, <3>5
  <2> QED BY <2>1, <2>2
<1>8. RunInOrder(msgId, wiped)'
  <2> SUFFICES ASSUME early = {}, NEW x \in Ids(executed'), NEW a \in Sends, a < x,
                      Good(wiped, a)
               PROVE  Settled(msgId, a)
    BY <1>1, <1>6 DEF RunInOrder, Good
  <2>1. CASE x = b
    BY <1>7, <2>1
  <2>2. CASE x \in Ids(executed)
    BY <1>2, <2>2 DEF Mid, RunInOrder
  <2> QED BY <1>4, <2>1, <2>2
<1>9. OkExecuted'
  BY <1>1, <1>2, <1>4, <1>6 DEF OkExecuted, b
<1>10. FailsRight'
  BY <1>1, <1>6 DEF ChainInv, FailsRight
<1>11. ASSUME early = {}, \A r \in wiped : ~(r <= b), NEW x \in Ids(executed), x > b
       PROVE  FALSE
  <2>1. Good(wiped, b) /\ b \notin wiped
    <3>1. wiped \subseteq Sends
      BY <1>2 DEF Types
    <3> QED BY <1>3, <1>11, <3>1 DEF Good
  <2>2. x \in Nat /\ b \in Nat /\ b < x
    <3>1. x \in Sends
      BY <1>3, <1>11, IdsOf
    <3> QED BY <1>3, <1>11, <3>1
  <2>3. Settled(msgId, b)
    BY <1>2, <1>3, <1>11, <2>1, <2>2 DEF Mid, RunInOrder
  <2>4. msgId[b] = id
    BY <1>2, <1>3, <2>1 DEF Mid, NamesRight, Names, b
  <2> QED BY <1>3, <2>3, <2>4 DEF Settled
<1>12. InOrder'
  <2> SUFFICES ASSUME early = {}, NEW i \in 1..Len(executed'), NEW j \in 1..Len(executed'),
                      i < j, executed'[i] > executed'[j],
                      \A r \in wiped : ~(r <= executed'[j])
               PROVE  FALSE
    BY <1>1 DEF InOrder
  <2>1. CASE b \in Ids(executed)
    <3>1. executed' = executed
      BY <1>4, <2>1
    <3> QED BY <1>2, <3>1 DEF InOrder
  <2>2. CASE b \notin Ids(executed) /\ j \in 1..Len(executed)
    <3>1. i \in 1..Len(executed)
      BY <1>4, <2>2
    <3>2. executed'[i] = executed[i] /\ executed'[j] = executed[j]
      BY <1>4, <2>2, <3>1
    <3> QED BY <1>2, <2>2, <3>1, <3>2 DEF InOrder
  <2>3. CASE b \notin Ids(executed) /\ j = Len(executed) + 1
    <3>1. i \in 1..Len(executed) /\ executed'[j] = b
      BY <1>4, <2>3
    <3>2. executed'[i] \in Ids(executed)
      BY <1>4, <3>1 DEF Ids
    <3> QED BY <1>11, <3>1, <3>2
  <2> QED BY <1>4, <2>1, <2>2, <2>3
<1> QED BY <1>6, <1>8, <1>9, <1>10, <1>12 DEF ChainInv

\* No messages wait for one another unless one was sent again early: of some that
\* do, the least that is sealed, if there is one, waits for a lesser one; and of
\* messages that wait for earlier sends one has the earliest.
LEMMA NoCircle ==
  ASSUME Types, Mid(queue, msgId, token, wiped, asked), early = {}
  PROVE  Circle = {}
<1> USE SendsAreNat
<1> DEFINE Sealed(z) == owner[z] \in wiped /\ Seals(msgId, z)
<1>1. /\ Received \subseteq 1..lastId /\ lastId \in Nat /\ 0 \notin Received
      /\ Received \subseteq Nat
      /\ after \in [Received -> 0..lastId] /\ owner \in [Received -> Sends]
  <2>1. /\ Received \subseteq 1..lastId /\ lastId \in Nat
        /\ after \in [Received -> 0..lastId] /\ owner \in [Received -> Sends]
    BY DEF Types
  <2> QED BY <2>1
<1>2. \A z \in Received : Down(msgId, wiped, owner[z], after[z]) \/ Sealed(z)
  BY DEF Mid, WaitsRight
<1>3. ASSUME NEW S \in SUBSET Received, S # {}, \A x \in S : after[x] \in S,
             \A x \in S : Down(msgId, wiped, owner[x], after[x])
      PROVE  FALSE
  <2> DEFINE O == { owner[x] : x \in S }
  <2>1. O \in SUBSET Nat /\ O # {}
    <3>1. \A x \in S : owner[x] \in Sends
      BY <1>1, <1>3
    <3>2. \A x \in S : owner[x] \in Nat
      BY <3>1
    <3> QED BY <1>3, <3>2
  <2>2. PICK o \in O : \A p \in O : o <= p
    <3> HIDE DEF O
    <3> QED BY <2>1, LeastOfSome
  <2>3. PICK x \in S : owner[x] = o
    BY <2>2
  <2> DEFINE y == after[x]
             p == owner[y]
  <2>4. y \in S /\ y \in Received /\ y # 0 /\ y \in 1..lastId /\ p \in O /\ p \in Sends /\ o \in Sends
    BY <1>1, <1>3, <2>3
  <2>5. Names(msgId, y, p)
    BY <2>4 DEF Names
  <2>6. ~(p < o)
    <3>1. o <= p /\ o \in Nat /\ p \in Nat
      BY <2>1, <2>2, <2>4
    <3> QED BY <3>1
  <2>7. Down(msgId, wiped, o, y)
    BY <1>3, <2>3
  <2>8. \A s \in Sends : Names(msgId, y, s) => p = s
    BY <2>4, <2>5 DEF Mid, NamesRight
  <2> HIDE DEF y, p, O
  <2> QED BY <2>4, <2>5, <2>6, <2>7, <2>8 DEF Down
<1>4. ASSUME NEW S \in SUBSET Received, S # {}, \A x \in S : after[x] \in S
      PROVE  FALSE
  <2> DEFINE T == { x \in S : Sealed(x) }
  <2>1. CASE T = {}
    <3>1. \A x \in S : Down(msgId, wiped, owner[x], after[x])
      BY <1>2, <2>1
    <3> QED BY <1>3, <1>4, <3>1
  <2>2. CASE T # {}
    <3>1. T \in SUBSET Nat
      BY <1>1
    <3>2. PICK z \in T : \A x \in T : z <= x
      <4> HIDE DEF T
      <4> QED BY <2>2, <3>1, LeastOfSome
    <3> DEFINE R == { x \in S : x < z }
    <3>3. \A i \in Received : i <= z => after[i] < z
      BY <3>2 DEF Seals
    <3>4. z \in S /\ z \in Received /\ z <= z
      BY <1>1, <3>2
    <3>5. R \in SUBSET Received /\ after[z] \in R
      BY <1>4, <3>3, <3>4
    <3>6. \A x \in R : after[x] \in R
      <4> TAKE x \in R
      <4>1. x \in Received /\ x \in S /\ x < z /\ x \in Nat /\ z \in Nat
        BY <1>1, <3>4
      <4>2. x <= z
        BY <4>1
      <4> QED BY <1>4, <3>3, <4>1, <4>2
    <3>7. \A x \in R : Down(msgId, wiped, owner[x], after[x])
      <4> TAKE x \in R
      <4>1. x \in Received /\ x \in S /\ x < z /\ x \in Nat /\ z \in Nat
        BY <1>1, <3>4
      <4>2. x \notin T
        <5>1. ~(z <= x)
          BY <4>1
        <5> QED BY <3>2, <5>1
      <4> QED BY <1>2, <4>1, <4>2
    <3>8. R # {}
      BY <3>5
    <3> HIDE DEF R
    <3> QED BY <1>3, <3>5, <3>6, <3>7, <3>8
  <2> QED BY <2>1, <2>2
<1>5. ASSUME NEW id \in Circle PROVE FALSE
  <2>1. PICK S \in SUBSET Pending : id \in S /\ \A x \in S : after[x] \in S
    BY <1>5 DEF Circle
  <2>2. S \in SUBSET Received /\ S # {}
    BY <2>1 DEF Pending
  <2> QED BY <1>4, <2>1, <2>2
<1> QED BY <1>5

\* The wait of a message fails only when a send before it was asked for again, or
\* a session was lost.
LEMMA WaitFailsKeeps ==
  ASSUME ChainInv, NEW id \in Pending, WaitFails(id)
  PROVE  ChainInv'
<1> USE SendsAreNat
<1> DEFINE r == owner[id]
           y == after[id]
<1>1. /\ Say(id, "fail") /\ executed' = executed /\ ~Ready(id) /\ Hopeless(id)
      /\ UNCHANGED <<engine, leaving, network, notice, wire, after, owner, lost, announce,
                     asked, done, wiped, early, losses>>
      /\ UNCHANGED <<msgId, wiped, early, owner, lost, done>>
  BY DEF WaitFails, past, engine
<1>2. executed' \in Seq(Sends) /\ Ids(executed) \subseteq Ids(executed')
  BY <1>1 DEF ChainInv, Types
<1>3. "fail" \in {"ok", "fail", "retry"}
  OBVIOUS
<1>4. /\ Types' /\ LeavingRight(msgId, wiped, leaving)'
      /\ RunInOrder(msgId, wiped)' => Mid(queue, msgId, token, wiped, asked)'
      /\ WipedRight' /\ LostRight'
      /\ \A i \in Answered : outcome'[i] = outcome[i]
      /\ Answered' = Answered \cup {id} /\ outcome'[id] = "fail"
      /\ \A a : Settled(msgId, a) => Settled(msgId, a)'
      /\ \A s : Retried(s) => Retried(s)'
  BY <1>1, <1>2, <1>3, SayKeeps
<1>5. RunInOrder(msgId, wiped)' /\ InOrder'
  BY <1>1, <1>4, NothingRun
<1>6. OkExecuted'
  BY <1>1, <1>4 DEF ChainInv, OkExecuted
<1>7. /\ Types /\ Mid(queue, msgId, token, wiped, asked) /\ WipedRight /\ FailsRight
  BY DEF ChainInv
<1>8. /\ id \in Received /\ r \in Sends /\ y \in 0..lastId
      /\ \A i \in Answered : i \in Received /\ owner[i] \in Sends /\ outcome[i] \in {"ok", "fail", "retry"}
  BY <1>7 DEF Pending, Types
<1> HIDE DEF r, y
<1>9. ASSUME NEW s \in Sends, s <= r, s \in wiped \/ Retried(s)
      PROVE  Retried(r)
  <2>1. lost # {} \/ \E i \in Answered : outcome[i] = "retry" /\ owner[i] <= s
    <3>1. CASE s \in wiped
      <4>1. lost # {} \/ \E i \in Answered : outcome[i] = "retry" /\ owner[i] = s
        BY <1>7, <3>1 DEF WipedRight
      <4>2. s <= s
        OBVIOUS
      <4> QED BY <4>1, <4>2
    <3>2. CASE Retried(s)
      BY <3>2 DEF Retried
    <3> QED BY <1>9, <3>1, <3>2
  <2>2. \A i \in Answered : owner[i] <= s => owner[i] <= r
    <3> TAKE i \in Answered
    <3>1. owner[i] \in Sends /\ s \in Sends /\ r \in Sends
      BY <1>8, <1>9
    <3>2. owner[i] \in Nat /\ s \in Nat /\ r \in Nat
      BY <3>1
    <3> QED BY <1>9, <3>2
  <2> QED BY <2>1, <2>2 DEF Retried
<1>10. ASSUME early = {} PROVE Retried(r)
  <2>1. y # 0
    BY <1>1 DEF Ready, y
  <2>2. CASE r \in wiped
    <3>1. r \in Nat
      BY <1>8
    <3>2. r <= r
      BY <3>1
    <3> QED BY <1>8, <1>9, <2>2, <3>2
  <2>3. CASE Down(msgId, wiped, r, y)
    <3>1. ASSUME NEW s \in wiped, s < r PROVE Retried(r)
      <4>1. s \in Sends /\ s <= r
        BY <1>7, <1>8, <3>1 DEF Types
      <4> QED BY <1>9, <3>1, <4>1
    <3>2. ASSUME NEW s \in Sends, s < r, Names(msgId, y, s), s \notin wiped
          PROVE  Retried(r)
      <4>1. y \in 1..lastId
        BY <1>7, <1>8, <2>1 DEF Types
      <4>2. msgId[s] = y /\ \A t \in Sends : Names(msgId, y, t) => s = t
        BY <1>7, <3>2, <4>1 DEF Mid, NamesRight
      <4>3. s <= r
        BY <1>8, <3>2
      <4>4. CASE y \in Answered /\ outcome[y] # "ok"
        <5>1. Names(msgId, y, owner[y]) /\ owner[y] \in Sends
          BY <1>8, <4>4 DEF Names
        <5>2. owner[y] = s
          BY <4>2, <5>1
        <5>3. CASE outcome[y] = "retry"
          BY <4>3, <4>4, <5>2, <5>3 DEF Retried
        <5>4. CASE outcome[y] = "fail"
          <6>1. Retried(s)
            BY <1>7, <1>10, <4>4, <5>2, <5>4 DEF FailsRight
          <6> QED BY <1>9, <4>3, <6>1
        <5> QED BY <1>8, <4>4, <5>3, <5>4
      <4>5. CASE y \in lost
        BY <4>5 DEF Retried
      <4>6. ~\A t \in Sends : msgId[t] # y
        BY <4>2
      <4>7. id \notin Circle
        BY <1>7, <1>10, NoCircle
      <4> QED BY <1>1, <4>4, <4>5, <4>6, <4>7 DEF Hopeless, y
    <3> QED BY <2>1, <2>3, <3>1, <3>2 DEF Down
  <2>4. Down(msgId, wiped, r, y) \/ r \in wiped
    BY <1>7, <1>8, <1>10 DEF Mid, WaitsRight, r, y
  <2> QED BY <2>2, <2>3, <2>4
<1>11. FailsRight'
  <2> SUFFICES ASSUME early = {}
               PROVE  /\ \A i \in Answered' : outcome'[i] = "fail" => Retried(owner[i])
                      /\ \A s \in Sends : done[s] = "fail" => Retried(s)
    BY <1>1, <1>4 DEF FailsRight
  <2>1. /\ \A i \in Answered : outcome[i] = "fail" => Retried(owner[i])
        /\ \A s \in Sends : done[s] = "fail" => Retried(s)
    BY <1>7 DEF FailsRight
  <2>2. Retried(owner[id])
    BY <1>10 DEF r
  <2> QED BY <1>4, <2>1, <2>2
<1> QED BY <1>4, <1>5, <1>6, <1>11 DEF ChainInv

\* The messages of a lost session stay behind what they wait for.
LEMMA LoseSessionKeeps == ChainInv /\ LoseSession => ChainInv'
<1> SUFFICES ASSUME ChainInv, LoseSession PROVE ChainInv'
  OBVIOUS
<1> DEFINE gone == { i \in Pending : i < Head(wire).id }
<1>1. /\ wire # <<>> /\ gone # {} /\ lost' = lost \cup gone /\ announce' = Head(wire).id
      /\ UNCHANGED <<queue, running, msgId, token, due, lastId, leaving, channel, opened, notice,
                     wire, after, outcome, owner, inbox, asked, executed, done, wiped, early>>
  BY DEF LoseSession, engine, network
<1>2. /\ Types /\ Mid(queue, msgId, token, wiped, asked) /\ LeavingRight(msgId, wiped, leaving)
  BY DEF ChainInv
<1>3. lost' # {} /\ gone \subseteq Received
  BY <1>1 DEF Pending
<1>4. Head(wire).id \in Nat
  <2>1. wire \in Seq(Messages)
    BY <1>2 DEF Types
  <2>2. Head(wire) \in Messages
    BY <1>1, <2>1, HeadTaken
  <2> QED BY <2>2 DEF Messages
<1> HIDE DEF gone
<1>5. Types'
  BY <1>1, <1>2, <1>3, <1>4 DEF Types, Received, Answered
<1>6. TokensRight(msgId, token)'
  BY <1>1, <1>2 DEF Mid, TokensRight, OnChannel, Received
<1>7. Mid(queue, msgId, token, wiped, asked)'
  BY <1>1, <1>2, <1>6, PartsStay DEF Mid
<1>8. LeavingRight(msgId, wiped, leaving)'
  BY <1>1, <1>2 DEF LeavingRight, Answered
<1>9. OkExecuted'
  BY <1>1 DEF ChainInv, OkExecuted, Answered
<1>10. WipedRight' /\ FailsRight' /\ LostRight'
  BY <1>3 DEF WipedRight, FailsRight, LostRight, Retried
<1>11. InOrder'
  BY <1>1 DEF ChainInv, InOrder
<1> QED BY <1>5, <1>7, <1>8, <1>9, <1>10, <1>11 DEF ChainInv

-----------------------------------------------------------------------------
(* The invariant, from the first state on. *)

\* Nothing has happened in the first state.
LEMMA InitHolds == Init => ChainInv
<1> SUFFICES ASSUME Init PROVE ChainInv
  OBVIOUS
<1> USE SendsAreNat
<1>1. /\ queue = <<>> /\ running = <<>> /\ wire = <<>> /\ executed = <<>>
      /\ after = <<>> /\ outcome = <<>> /\ owner = <<>>
      /\ msgId = [r \in Sends |-> 0] /\ token = [r \in Sends |-> 0]
      /\ due = {} /\ leaving = {} /\ lastId = 0 /\ channel = 0 /\ opened = 0
      /\ notice = FALSE /\ lost = {} /\ announce = 0 /\ inbox = {} /\ asked = 0
      /\ done = [r \in Sends |-> "none"] /\ wiped = {} /\ early = {}
  BY DEF Init
<1>2. /\ DOMAIN queue = {} /\ DOMAIN running = {} /\ DOMAIN wire = {} /\ DOMAIN executed = {}
      /\ Received = {} /\ Answered = {} /\ DOMAIN owner = {}
  BY <1>1 DEF Received, Answered
<1>3. Ids(queue) = {} /\ Ids(running) = {} /\ Ids(executed) = {} /\ Len(executed) = 0
  BY <1>1 DEF Ids
<1>4. \A r \in Sends : msgId[r] = 0 /\ token[r] = 0 /\ r \in Nat /\ r # 0 /\ r > 0
  BY <1>1 DEF Sends
<1>5. Types
  <2>1. /\ queue \in Seq(Sends) /\ running \in Seq(Sends) /\ wire \in Seq(Messages)
        /\ executed \in Seq(Sends)
    BY <1>1
  <2>2. /\ after \in [Received -> 0..lastId] /\ owner \in [Received -> Sends]
        /\ outcome \in [Answered -> {"ok", "fail", "retry"}]
    BY <1>1, <1>2
  <2>3. /\ msgId \in [Sends -> Nat] /\ token \in [Sends -> Nat]
        /\ done \in [Sends -> {"none", "ok", "fail"}]
    BY <1>1
  <2>4. opened \in 0..MaxChannel /\ asked \in 0..MaxSends /\ channel \in {0, opened}
    BY <1>1, BoundAssumption
  <2> QED BY <1>1, <1>2, <2>1, <2>2, <2>3, <2>4 DEF Types
<1>6. \A id, r : r \in Sends /\ id # 0 => ~Names(msgId, id, r)
  BY <1>2, <1>4 DEF Names
<1>7. Mid(queue, msgId, token, wiped, asked)
  <2>1. Lists(queue, asked)
    BY <1>2, <1>3 DEF Lists, Climbs
  <2>2. Numbered(queue, msgId, wiped, asked)
    <3>1. \A r \in Sends : r > asked /\ ~(r <= asked) /\ msgId[r] = 0 /\ msgId[r] <= lastId
      BY <1>1, <1>4
    <3> QED BY <1>1, <3>1 DEF Numbered
  <2>3. NamesRight(msgId, wiped)
    <3>1. \A id \in 1..lastId : FALSE
      BY <1>1
    <3> QED BY <3>1 DEF NamesRight
  <2>4. Ordered(msgId, wiped)
    BY <1>4 DEF Ordered
  <2>5. Gone(queue, msgId, wiped, asked)
    <3>1. \A r \in Sends : ~(r <= asked)
      BY <1>1, <1>4
    <3> QED BY <3>1 DEF Gone
  <2>6. Behind(msgId, wiped) /\ RunInOrder(msgId, wiped) /\ WaitsRight(msgId, wiped)
    BY <1>2, <1>3 DEF Behind, RunInOrder, WaitsRight
  <2>7. TokensRight(msgId, token)
    <3>1. \A r \in Sends : token[r] <= opened
      BY <1>1, <1>4
    <3> QED BY <1>1, <1>3, <3>1 DEF TokensRight
  <2>8. asked \in 0..MaxSends /\ wiped \subseteq Sends
    BY <1>1, BoundAssumption
  <2> QED BY <1>5, <2>1, <2>2, <2>3, <2>4, <2>5, <2>6, <2>7, <2>8 DEF Mid, Types
<1>8. LeavingRight(msgId, wiped, leaving) /\ OkExecuted /\ WipedRight /\ LostRight
  BY <1>1, <1>2 DEF LeavingRight, OkExecuted, WipedRight, LostRight
<1>9. FailsRight
  BY <1>1, <1>2 DEF FailsRight
<1>10. InOrder
  <2>1. \A i \in 1..Len(executed) : FALSE
    BY <1>3
  <2> QED BY <2>1 DEF InOrder
<1> QED BY <1>5, <1>7, <1>8, <1>9, <1>10 DEF ChainInv

\* A step that changes nothing keeps it.
LEMMA StutterKeeps == ChainInv /\ UNCHANGED vars => ChainInv'
<1> SUFFICES ASSUME ChainInv, UNCHANGED vars PROVE ChainInv'
  OBVIOUS
<1>1. UNCHANGED <<queue, running, msgId, token, due, lastId, leaving, channel, opened, notice,
                  wire, after, outcome, owner, lost, announce, inbox, asked, executed, done,
                  wiped, early>>
  BY DEF vars, engine, network, server, past
<1>2. Types /\ Mid(queue, msgId, token, wiped, asked) /\ LeavingRight(msgId, wiped, leaving)
  BY DEF ChainInv
<1>3. Types'
  BY <1>1, <1>2 DEF Types, Received, Answered
<1>4. TokensRight(msgId, token)'
  BY <1>1, <1>2 DEF Mid, TokensRight, OnChannel, Received
<1>5. Mid(queue, msgId, token, wiped, asked)'
  BY <1>1, <1>2, <1>4, PartsStay DEF Mid
<1>6. LeavingRight(msgId, wiped, leaving)'
  BY <1>1, <1>2 DEF LeavingRight, Answered
<1>7. OkExecuted' /\ WipedRight' /\ FailsRight' /\ LostRight' /\ InOrder'
  BY <1>1, AnswersStay
<1> QED BY <1>3, <1>5, <1>6, <1>7 DEF ChainInv

\* Every step keeps it.
LEMMA NextKeeps == ChainInv /\ [Next]_vars => ChainInv'
<1> SUFFICES ASSUME ChainInv, [Next]_vars PROVE ChainInv'
  OBVIOUS
<1>1. CASE Stage
  <2>1. ASSUME NEW id \in leaving, RunCompleted(id) PROVE ChainInv'
    BY <2>1, RunCompletedKeeps
  <2>2. ASSUME NEW id \in inbox, RunResult(id) PROVE ChainInv'
    BY <2>2, RunResultKeeps
  <2> QED BY <1>1, <2>1, <2>2, RunNewSessionKeeps, RunConnectedKeeps, TickKeeps DEF Stage
<1>2. CASE Server
  <2>1. ASSUME NEW id \in Pending, Execute(id) PROVE ChainInv'
    BY <2>1, ExecuteKeeps
  <2>2. ASSUME NEW id \in Pending, WaitFails(id) PROVE ChainInv'
    BY <2>2, WaitFailsKeeps
  <2> QED BY <1>2, <2>1, <2>2, ReceiveKeeps DEF Server
<1>3. ASSUME NEW r \in Sends, TimePasses(r) PROVE ChainInv'
  BY <1>3, TimePassesKeeps
<1>4. ASSUME NEW id \in Pending, AskAgain(id) PROVE ChainInv'
  BY <1>4, AskAgainKeeps
<1> QED BY <1>1, <1>2, <1>3, <1>4, PerformKeeps, ConnectKeeps, DisconnectKeeps,
           LoseSessionKeeps, StutterKeeps DEF Next

\* What the invariant says of the chain.
LEMMA InvIsSafe == ChainInv => ChainSafe
<1> SUFFICES ASSUME ChainInv PROVE ChainSafe
  OBVIOUS
<1> USE SendsAreNat
<1>1. /\ Types /\ Mid(queue, msgId, token, wiped, asked) /\ LeavingRight(msgId, wiped, leaving)
      /\ FailsRight /\ InOrder
  BY DEF ChainInv
<1>2. token \in [Sends -> 0..MaxChannel]
  <2>1. /\ token \in [Sends -> Nat] /\ opened \in 0..MaxChannel
        /\ \A r \in Sends : token[r] <= opened
    BY <1>1 DEF Types, Mid, TokensRight
  <2>2. MaxChannel \in Nat
    BY BoundAssumption
  <2>3. \A r \in Sends : token[r] \in 0..MaxChannel
    BY <2>1, <2>2
  <2> QED BY <2>1, <2>3
<1>3. \A i \in 1..Len(wire) :
        wire[i] \in [id : 1..lastId, r : Sends, after : 0..lastId]
  <2> TAKE i \in 1..Len(wire)
  <2>1. wire[i] \in Messages /\ wire[i].id \in 1..lastId /\ wire[i].after \in 0..lastId
    BY <1>1 DEF Types
  <2> QED BY <2>1 DEF Messages
<1>4. leaving \subseteq 1..lastId /\ DOMAIN owner = Received
  BY <1>1 DEF LeavingRight, Types
<1>5. TypeOK
  BY <1>1, <1>2, <1>3, <1>4 DEF TypeOK, Types
<1>6. CircleOnlyEarly
  BY <1>1, NoCircle DEF CircleOnlyEarly
<1>7. FailsOnlyBehind
  BY <1>1 DEF FailsRight, FailsOnlyBehind, Retried
<1> QED BY <1>1, <1>5, <1>6, <1>7 DEF ChainSafe

\* The server carries the messages out in the order the user wrote them, unless
\* one lost its id or went again too early; it finds no circle of messages that
\* wait for one another unless one went again too early; and a message fails only
\* behind one the server did not accept at once, or a lost session.
THEOREM ChainIsSafe == Spec => []ChainSafe
<1>1. Spec => []ChainInv
  BY InitHolds, NextKeeps, PTL DEF Spec
<1> QED BY <1>1, InvIsSafe, PTL
=============================================================================
