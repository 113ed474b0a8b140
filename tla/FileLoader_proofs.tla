-------------------------- MODULE FileLoader_proofs --------------------------
(***************************************************************************)
(* The downloads' lane keeps LaneSafe.  What the lane keeps is stated of   *)
(* any values of its variables (Right), so that a step of the program,     *)
(* which does several things at once, is proved as those things one after  *)
(* another: a call is taken, an end is counted, an operation leaves the    *)
(* queue, starts, reports.  Only that the lane is busy while operations    *)
(* wait (Busy) does not hold in between, and is proved of the steps.       *)
(* A download keeps DownloadSafe: that is the second part, in which every  *)
(* handler of FileLoadOperation has its lemma.                             *)
(***************************************************************************)
EXTENDS MCDownloads, SequenceLemmas, FiniteSetTheorems

Calls == [what : {"load", "cancel", "done"}, file : Files, force : BOOLEAN, op : Nat]

\* The calls, the names, the queue, the counter, the operations, the
\* cancellations, the operation that finishes, the files disturbed and the extras
\* are cs, p, q, n, os, cg, e, d and x below.
CallsTyped(cs, os) == cs \in Seq(Calls) /\ \A i \in DOMAIN cs : cs[i].op <= Len(os)
NamesTyped(p, os)  == p \in [Files -> Nat] /\ \A f \in Files : p[f] <= Len(os)
QueueTyped(q, os)  == q \in Seq(Nat) /\ Distinct(q) /\ \A i \in DOMAIN q : q[i] \in DOMAIN os

Typed(cs, p, q, n, os, cg, e, d, x) ==
  /\ os \in Seq(Operations) /\ CallsTyped(cs, os) /\ NamesTyped(p, os) /\ QueueTyped(q, os)
  /\ n \in Int /\ x \in Nat /\ cg \subseteq DOMAIN os /\ e \in Nat /\ e <= Len(os) /\ d \subseteq Files

\* The counter counts the slots that are taken, less the ends counted too often.
SlotsOf(os) == { o \in DOMAIN os : os[o].slot }
Counted(n, os, x) == n = Cardinality(SlotsOf(os)) - x /\ n <= Forced

\* What waits was neither started nor cancelled; what was not started did
\* nothing; what runs has a slot.
Waiting(q, os, cg) == \A o : Contains(q, o) => os[o].state = "idle" /\ o \notin cg

OpsRight(os) ==
  \A o \in DOMAIN os :
    /\ os[o].state = "idle" => ~os[o].slot /\ os[o].reports = 0
    /\ os[o].state = "downloading" /\ os[o].reports = 0 => os[o].slot

\* The end of an operation waits to be counted, or the operation is in the middle
\* of posting it.
IsEnd(c) == c.what = "done"
EndWaits(cs, e, o) == e = o \/ \E i \in DOMAIN cs : IsEnd(cs[i]) /\ cs[i].op = o

Reporter(os, o) == o \in DOMAIN os /\ os[o].reports > 0

EndsRight(cs, e, os) ==
  /\ \A i \in DOMAIN cs : IsEnd(cs[i]) =>
       Reporter(os, cs[i].op) /\ cs[i].file = os[cs[i].op].file
  /\ e # None => Reporter(os, e)

\* Of a file that is not disturbed every operation ends once.
ReportsOnce(os, d) == \A o \in DOMAIN os : os[o].file \notin d => os[o].reports <= 1

EndsOnce(cs, e, os, d) ==
  /\ \A i \in DOMAIN cs : IsEnd(cs[i]) /\ cs[i].file \notin d =>
       /\ os[cs[i].op].slot /\ e # cs[i].op
       /\ \A j \in DOMAIN cs : IsEnd(cs[j]) /\ cs[j].op = cs[i].op => j = i
  /\ e # None /\ os[e].file \notin d => os[e].slot

ExtrasOnlyDisturbed(d, x) == d = {} => x = 0

\* Of such a file the operation on its way is the one its name stands for.
OnWay(cs, q, os, e, o) ==
  \/ Contains(q, o)
  \/ os[o].state = "downloading" /\ os[o].reports = 0
  \/ EndWaits(cs, e, o)

Named(cs, p, q, os, e, d) ==
  \A o \in DOMAIN os : os[o].file \notin d /\ OnWay(cs, q, os, e, o) => p[os[o].file] = o

PathsRight(p, os) == \A f \in Files : p[f] # None => os[p[f]].file = f

\* Cancelled files are disturbed.
CancelsKnown(cs, os, cg, d) ==
  /\ \A i \in DOMAIN cs : cs[i].what = "cancel" => cs[i].file \in d
  /\ \A o \in cg : os[o].file \in d

Right(cs, p, q, n, os, cg, e, d, x) ==
  /\ Typed(cs, p, q, n, os, cg, e, d, x)
  /\ Counted(n, os, x) /\ Waiting(q, os, cg) /\ OpsRight(os)
  /\ EndsRight(cs, e, os) /\ ReportsOnce(os, d) /\ EndsOnce(cs, e, os, d)
  /\ ExtrasOnlyDisturbed(d, x) /\ Named(cs, p, q, os, e, d) /\ PathsRight(p, os)
  /\ CancelsKnown(cs, os, cg, d)

\* While operations wait the lane is in use.
Busy == queue # <<>> => count >= 1

Rest ==
  /\ asked \subseteq Files /\ dropped \subseteq Files
  /\ loads \in 0..MaxLoads /\ cancels \in 0..MaxCancels

Inv ==
  /\ Right(calls, paths, queue, count, ops, cancelling, ending, disturbed, extras)
  /\ Busy /\ Rest
-----------------------------------------------------------------------------
(* Calls that come and go. *)

\* What the list of operations gives of each of them.
LEMMA Indices ==
  ASSUME NEW os \in Seq(Operations)
  PROVE  /\ Len(os) \in Nat /\ DOMAIN os = 1..Len(os) /\ 0 \notin DOMAIN os
         /\ \A o \in DOMAIN os : /\ os[o] \in Operations /\ os[o].file \in Files
                                 /\ os[o].reports \in Nat /\ os[o].slot \in BOOLEAN
<1>1. \A o \in DOMAIN os : os[o] \in Operations
  OBVIOUS
<1> QED BY <1>1 DEF Operations

\* The slots that are taken can be counted.
LEMMA SlotsFinite ==
  ASSUME NEW os \in Seq(Operations)
  PROVE  IsFiniteSet(SlotsOf(os)) /\ Cardinality(SlotsOf(os)) \in Nat
<1>1. Len(os) \in Nat /\ SlotsOf(os) \subseteq 1..Len(os)
  BY DEF SlotsOf
<1>2. IsFiniteSet(1..Len(os))
  BY <1>1, FS_Interval
<1> QED BY <1>1, <1>2, FS_Subset, FS_CardinalityType

\* The ends that wait when a call was appended.
LEMMA EndsAppended ==
  ASSUME NEW cs \in Seq(Calls), NEW c \in Calls, NEW e
  PROVE  \A o : EndWaits(Append(cs, c), e, o) <=> EndWaits(cs, e, o) \/ (IsEnd(c) /\ c.op = o)
<1> DEFINE t == Append(cs, c)
           n == Len(cs)
<1>1. /\ n \in Nat /\ DOMAIN cs = 1..n /\ DOMAIN t = 1..(n + 1)
      /\ \A i \in 1..n : t[i] = cs[i] /\ i \in 1..(n + 1)
      /\ t[n + 1] = c /\ n + 1 \in 1..(n + 1)
      /\ \A i \in 1..(n + 1) : i \in 1..n \/ i = n + 1
  BY Appended
<1> HIDE DEF t, n
<1>2. ASSUME NEW o, EndWaits(t, e, o) PROVE EndWaits(cs, e, o) \/ (IsEnd(c) /\ c.op = o)
  BY <1>1, <1>2 DEF EndWaits
<1>3. ASSUME NEW o, EndWaits(cs, e, o) \/ (IsEnd(c) /\ c.op = o) PROVE EndWaits(t, e, o)
  BY <1>1, <1>3 DEF EndWaits
<1> QED BY <1>2, <1>3 DEF t

\* A call that is no end and is appended leaves what is right.
LEMMA CallKeepsRight ==
  ASSUME NEW cs, NEW p, NEW q, NEW n, NEW os, NEW cg, NEW e, NEW d, NEW x,
         Right(cs, p, q, n, os, cg, e, d, x),
         NEW c \in Calls, ~IsEnd(c), c.op = None, c.what = "cancel" => c.file \in d
  PROVE  Right(Append(cs, c), p, q, n, os, cg, e, d, x)
<1> DEFINE t == Append(cs, c)
           m == Len(cs)
<1>1. cs \in Seq(Calls) /\ os \in Seq(Operations)
  BY DEF Right, Typed, CallsTyped
<1>2. /\ t \in Seq(Calls) /\ m \in Nat /\ DOMAIN cs = 1..m /\ DOMAIN t = 1..(m + 1)
      /\ \A i \in 1..m : t[i] = cs[i]
      /\ t[m + 1] = c
      /\ \A i \in 1..(m + 1) : i \in 1..m \/ i = m + 1
  BY <1>1, Appended
<1>3. \A o : EndWaits(t, e, o) <=> EndWaits(cs, e, o)
  BY <1>1, EndsAppended
<1> HIDE DEF t, m
<1>4. CallsTyped(t, os)
  <2>1. Len(os) \in Nat
    BY <1>1
  <2> QED BY <1>2, <2>1 DEF CallsTyped, Right, Typed, None
<1>5. EndsRight(t, e, os) /\ EndsOnce(t, e, os, d)
  <2>1. EndsRight(t, e, os)
    BY <1>2 DEF Right, EndsRight
  <2>2. EndsOnce(t, e, os, d)
    BY <1>2 DEF Right, EndsOnce
  <2> QED BY <2>1, <2>2
<1>6. Named(t, p, q, os, e, d)
  BY <1>3 DEF Right, Named, OnWay
<1>7. CancelsKnown(t, os, cg, d)
  BY <1>2 DEF Right, CancelsKnown
<1> QED BY <1>4, <1>5, <1>6, <1>7 DEF Right, Typed, t

\* What the ends are when the first call is taken.
LEMMA EndsTaken ==
  ASSUME NEW cs \in Seq(Calls), cs # <<>>, NEW e, NEW os, NEW d,
         EndsRight(cs, e, os), EndsOnce(cs, e, os, d)
  PROVE  LET c == Head(cs) IN
         /\ EndsRight(Tail(cs), e, os) /\ EndsOnce(Tail(cs), e, os, d)
         /\ \A o : ~(IsEnd(c) /\ c.op = o) => (EndWaits(Tail(cs), e, o) <=> EndWaits(cs, e, o))
         /\ IsEnd(c) => /\ EndWaits(cs, e, c.op) /\ Reporter(os, c.op) /\ c.file = os[c.op].file
                        /\ c.file \notin d => os[c.op].slot /\ ~EndWaits(Tail(cs), e, c.op)
<1> DEFINE c == Head(cs)
           t == Tail(cs)
           n == Len(cs)
<1>1. /\ n \in Nat \ {0} /\ DOMAIN cs = 1..n /\ DOMAIN t = 1..(n - 1)
      /\ \A i \in 1..(n - 1) : t[i] = cs[i + 1] /\ i + 1 \in 1..n
      /\ c = cs[1] /\ 1 \in 1..n
  BY HeadTaken
<1> HIDE DEF c, t, n
<1>2. EndsRight(t, e, os)
  BY <1>1 DEF EndsRight
<1>3. EndsOnce(t, e, os, d)
  <2>1. ASSUME NEW i \in 1..(n - 1), IsEnd(t[i]), t[i].file \notin d
        PROVE  /\ os[t[i].op].slot /\ e # t[i].op
               /\ \A j \in 1..(n - 1) : IsEnd(t[j]) /\ t[j].op = t[i].op => j = i
    <3>1. /\ os[cs[i + 1].op].slot /\ e # cs[i + 1].op
          /\ \A j \in 1..n : IsEnd(cs[j]) /\ cs[j].op = cs[i + 1].op => j = i + 1
      BY <1>1, <2>1 DEF EndsOnce
    <3>2. ASSUME NEW j \in 1..(n - 1), IsEnd(t[j]), t[j].op = t[i].op PROVE j = i
      <4>1. j + 1 = i + 1
        BY <1>1, <3>1, <3>2
      <4> QED BY <1>1, <4>1
    <3> QED BY <1>1, <3>1, <3>2
  <2> QED BY <1>1, <2>1 DEF EndsOnce
<1>4. ASSUME NEW o, ~(IsEnd(c) /\ c.op = o) PROVE EndWaits(t, e, o) <=> EndWaits(cs, e, o)
  <2>1. EndWaits(t, e, o) => EndWaits(cs, e, o)
    BY <1>1 DEF EndWaits
  <2>2. ASSUME NEW i \in 1..n, IsEnd(cs[i]), cs[i].op = o PROVE EndWaits(t, e, o)
    <3>1. i # 1
      BY <1>1, <1>4, <2>2
    <3>2. i - 1 \in 1..(n - 1) /\ (i - 1) + 1 = i
      BY <1>1, <3>1
    <3>3. i - 1 \in DOMAIN t /\ t[i - 1] = cs[i]
      BY <1>1, <3>2
    <3> QED BY <2>2, <3>3 DEF EndWaits
  <2>3. EndWaits(cs, e, o) => EndWaits(t, e, o)
    BY <1>1, <2>2 DEF EndWaits
  <2> QED BY <2>1, <2>3
<1>5. ASSUME IsEnd(c)
      PROVE  EndWaits(cs, e, c.op) /\ Reporter(os, c.op) /\ c.file = os[c.op].file
  BY <1>1, <1>5 DEF EndWaits, EndsRight
<1>6. ASSUME IsEnd(c), c.file \notin d PROVE os[c.op].slot /\ ~EndWaits(t, e, c.op)
  <2>1. /\ os[cs[1].op].slot /\ e # cs[1].op
        /\ \A j \in 1..n : IsEnd(cs[j]) /\ cs[j].op = cs[1].op => j = 1
    BY <1>1, <1>6 DEF EndsOnce
  <2>2. ASSUME NEW i \in 1..(n - 1), IsEnd(t[i]), t[i].op = c.op PROVE FALSE
    <3>1. i + 1 = 1
      BY <1>1, <2>1, <2>2
    <3> QED BY <1>1, <3>1
  <2> QED BY <1>1, <2>1, <2>2 DEF EndWaits
<1> QED BY <1>2, <1>3, <1>4, <1>5, <1>6 DEF c, t

\* A call that is no end and is taken leaves what is right.
LEMMA TakenKeepsRight ==
  ASSUME NEW cs, NEW p, NEW q, NEW n, NEW os, NEW cg, NEW e, NEW d, NEW x,
         Right(cs, p, q, n, os, cg, e, d, x), cs # <<>>, ~IsEnd(Head(cs))
  PROVE  Right(Tail(cs), p, q, n, os, cg, e, d, x)
<1> DEFINE t == Tail(cs)
           m == Len(cs)
<1>1. cs \in Seq(Calls)
  BY DEF Right, Typed, CallsTyped
<1>2. /\ t \in Seq(Calls) /\ m \in Nat \ {0} /\ DOMAIN cs = 1..m /\ DOMAIN t = 1..(m - 1)
      /\ \A i \in 1..(m - 1) : t[i] = cs[i + 1] /\ i + 1 \in 1..m
  BY <1>1, HeadTaken
<1>3. /\ EndsRight(t, e, os) /\ EndsOnce(t, e, os, d)
      /\ \A o : EndWaits(t, e, o) <=> EndWaits(cs, e, o)
  BY <1>1, EndsTaken DEF Right
<1> HIDE DEF t, m
<1>4. CallsTyped(t, os)
  BY <1>2 DEF CallsTyped, Right, Typed
<1>5. Named(t, p, q, os, e, d)
  BY <1>3 DEF Right, Named, OnWay
<1>6. CancelsKnown(t, os, cg, d)
  BY <1>2 DEF Right, CancelsKnown
<1> QED BY <1>3, <1>4, <1>5, <1>6 DEF Right, Typed, t
-----------------------------------------------------------------------------
(* What else the steps are made of. *)

\* More files are disturbed.
LEMMA DisturbKeepsRight ==
  ASSUME NEW cs, NEW p, NEW q, NEW n, NEW os, NEW cg, NEW e, NEW d, NEW x, NEW dd,
         Right(cs, p, q, n, os, cg, e, d, x), d \subseteq dd, dd \subseteq Files
  PROVE  Right(cs, p, q, n, os, cg, e, dd, x)
<1>1. Typed(cs, p, q, n, os, cg, e, dd, x)
  BY DEF Right, Typed
<1>2. ReportsOnce(os, dd) /\ EndsOnce(cs, e, os, dd) /\ CancelsKnown(cs, os, cg, dd)
  BY DEF Right, ReportsOnce, EndsOnce, CancelsKnown
<1>3. ExtrasOnlyDisturbed(dd, x)
  BY DEF Right, ExtrasOnlyDisturbed
<1>4. Named(cs, p, q, os, e, dd)
  BY DEF Right, Named
<1> QED BY <1>1, <1>2, <1>3, <1>4 DEF Right

\* The queue gets another order, or loses some operations, or gets one that is
\* new to it and was neither started nor cancelled.
LEMMA QueueKeepsRight ==
  ASSUME NEW cs, NEW p, NEW q, NEW n, NEW os, NEW cg, NEW e, NEW d, NEW x, NEW qq,
         Right(cs, p, q, n, os, cg, e, d, x), qq \in Seq(Nat), Distinct(qq),
         \A o : Contains(qq, o) =>
           \/ Contains(q, o)
           \/ /\ o \in DOMAIN os /\ os[o].state = "idle" /\ o \notin cg
              /\ os[o].file \notin d => p[os[o].file] = o
  PROVE  Right(cs, p, qq, n, os, cg, e, d, x)
<1>1. \A o : Contains(q, o) => o \in DOMAIN os /\ os[o].state = "idle" /\ o \notin cg
  <2>1. QueueTyped(q, os) /\ Waiting(q, os, cg)
    BY DEF Right, Typed
  <2>2. DOMAIN q = 1..Len(q)
    BY <2>1 DEF QueueTyped
  <2> QED BY <2>1, <2>2 DEF QueueTyped, Waiting, Contains
<1>2. QueueTyped(qq, os)
  <2>1. DOMAIN qq = 1..Len(qq)
    OBVIOUS
  <2>2. \A i \in DOMAIN qq : Contains(qq, qq[i])
    BY <2>1 DEF Contains
  <2> QED BY <1>1, <2>2 DEF QueueTyped
<1>3. Waiting(qq, os, cg)
  BY <1>1 DEF Waiting
<1>4. Named(cs, p, qq, os, e, d)
  <2> SUFFICES ASSUME NEW o \in DOMAIN os, os[o].file \notin d, OnWay(cs, qq, os, e, o)
               PROVE  p[os[o].file] = o
    BY DEF Named
  <2>1. OnWay(cs, q, os, e, o) => p[os[o].file] = o
    BY DEF Right, Named
  <2> QED BY <2>1 DEF OnWay
<1> QED BY <1>2, <1>3, <1>4 DEF Right, Typed

\* A new operation takes a name that is free.
LEMMA NewKeepsRight ==
  ASSUME NEW cs, NEW p, NEW q, NEW n, NEW os, NEW cg, NEW e, NEW d, NEW x, NEW f \in Files,
         Right(cs, p, q, n, os, cg, e, d, x), p[f] = None
  PROVE  LET o  == Len(os) + 1
             ns == Append(os, NewOperation(f))
             pp == [p EXCEPT ![f] = o]
         IN  /\ Right(cs, pp, q, n, ns, cg, e, d, x)
             /\ o \in DOMAIN ns /\ o \notin cg /\ ~Contains(q, o) /\ pp[f] = o /\ o \in Nat
             /\ ns[o].state = "idle" /\ ns[o].file = f /\ ns[o].reports = 0
<1> DEFINE o  == Len(os) + 1
           r  == NewOperation(f)
           ns == Append(os, r)
           pp == [p EXCEPT ![f] = o]
<1>1. /\ os \in Seq(Operations) /\ Len(os) \in Nat /\ DOMAIN os = 1..Len(os)
      /\ o \in Nat /\ o # None /\ o \notin DOMAIN os
  <2>1. os \in Seq(Operations)
    BY DEF Right, Typed
  <2> QED BY <2>1 DEF None
<1>2. /\ r \in Operations /\ r.file = f /\ r.state = "idle" /\ ~r.slot /\ r.reports = 0
  BY DEF NewOperation, Operations
<1> HIDE DEF r
<1>3. /\ ns \in Seq(Operations) /\ Len(ns) = o /\ DOMAIN ns = 1..o
      /\ DOMAIN ns = DOMAIN os \cup {o} /\ ns[o] = r
      /\ \A w \in DOMAIN os : ns[w] = os[w]
  BY <1>1, <1>2
<1>4. /\ pp \in [Files -> Nat] /\ pp[f] = o /\ \A g \in Files \ {f} : pp[g] = p[g]
      /\ \A g \in Files : pp[g] <= o
      /\ \A g \in Files : p[g] # None => p[g] \in DOMAIN os
  <2>1. p \in [Files -> Nat] /\ \A g \in Files : p[g] <= Len(os)
    BY DEF Right, Typed, NamesTyped
  <2>2. \A g \in Files : p[g] <= o
    BY <1>1, <2>1
  <2> QED BY <1>1, <2>1, <2>2 DEF None
<1> HIDE DEF ns, pp, o
<1>5. /\ CallsTyped(cs, os) /\ QueueTyped(q, os) /\ cg \subseteq DOMAIN os /\ e \in Nat
      /\ e <= Len(os) /\ d \subseteq Files /\ n \in Int /\ x \in Nat
  BY DEF Right, Typed
<1>6. /\ e <= o /\ e # o
  BY <1>1, <1>5 DEF o
<1>7. Typed(cs, pp, q, n, ns, cg, e, d, x)
  <2>1. CallsTyped(cs, ns)
    <3>1. \A i \in DOMAIN cs : cs[i] \in Calls /\ cs[i].op <= Len(os)
      BY <1>5 DEF CallsTyped
    <3>2. \A i \in DOMAIN cs : cs[i].op \in Nat
      BY <3>1 DEF Calls
    <3>3. \A i \in DOMAIN cs : cs[i].op <= Len(ns)
      BY <1>1, <1>3, <3>1, <3>2 DEF o
    <3> QED BY <1>5, <3>3 DEF CallsTyped
  <2>2. NamesTyped(pp, ns) /\ QueueTyped(q, ns)
    BY <1>3, <1>4, <1>5 DEF NamesTyped, QueueTyped
  <2> QED BY <1>3, <1>5, <1>6, <2>1, <2>2 DEF Typed
<1>8. Counted(n, ns, x)
  <2>1. SlotsOf(ns) = SlotsOf(os)
    BY <1>1, <1>2, <1>3 DEF SlotsOf
  <2> QED BY <2>1 DEF Right, Counted
<1>9. \A w : Contains(q, w) => w \in DOMAIN os
  BY <1>5 DEF QueueTyped, Contains
<1>10. Waiting(q, ns, cg)
  BY <1>3, <1>9 DEF Right, Waiting
<1>11. OpsRight(ns)
  <2>1. OpsRight(os)
    BY DEF Right
  <2>2. r.state # "downloading"
    BY <1>2
  <2> QED BY <1>2, <1>3, <2>1, <2>2 DEF OpsRight
<1>12. EndsRight(cs, e, ns) /\ EndsOnce(cs, e, ns, d)
  <2>1. EndsRight(cs, e, os) /\ EndsOnce(cs, e, os, d)
    BY DEF Right
  <2>2. /\ \A i \in DOMAIN cs : IsEnd(cs[i]) => cs[i].op \in DOMAIN os /\ ns[cs[i].op] = os[cs[i].op]
        /\ e # None => e \in DOMAIN os /\ ns[e] = os[e]
    BY <1>3, <2>1 DEF EndsRight, Reporter
  <2>3. EndsRight(cs, e, ns)
    BY <1>3, <2>1, <2>2 DEF EndsRight, Reporter
  <2>4. EndsOnce(cs, e, ns, d)
    BY <2>1, <2>2 DEF EndsOnce
  <2> QED BY <2>3, <2>4
<1>13. ~EndWaits(cs, e, o)
  BY <1>1, <1>6 DEF Right, EndWaits, EndsRight, Reporter
<1>14. ReportsOnce(ns, d)
  BY <1>2, <1>3 DEF Right, ReportsOnce
<1>15. PathsRight(pp, ns)
  <2> SUFFICES ASSUME NEW g \in Files, pp[g] # None PROVE ns[pp[g]].file = g
    BY DEF PathsRight
  <2>1. CASE g = f
    BY <1>2, <1>3, <1>4, <2>1
  <2>2. CASE g # f
    BY <1>3, <1>4, <2>2 DEF Right, PathsRight
  <2> QED BY <2>1, <2>2
<1>16. CancelsKnown(cs, ns, cg, d)
  BY <1>3, <1>5 DEF Right, CancelsKnown
<1>17. Named(cs, pp, q, ns, e, d)
  <2> SUFFICES ASSUME NEW w \in DOMAIN ns, ns[w].file \notin d, OnWay(cs, q, ns, e, w)
               PROVE  pp[ns[w].file] = w
    BY DEF Named
  <2>1. w # o
    BY <1>1, <1>2, <1>3, <1>9, <1>13 DEF OnWay
  <2>2. w \in DOMAIN os /\ ns[w] = os[w] /\ os[w].file \in Files
    BY <1>1, <1>3, <2>1, Indices
  <2>3. p[os[w].file] = w
    BY <2>2 DEF Right, Named, OnWay
  <2>4. w # None
    BY <1>1, <2>2 DEF None
  <2> QED BY <1>4, <2>2, <2>3, <2>4
<1>18. o \in DOMAIN ns /\ o \notin cg /\ ~Contains(q, o) /\ pp[f] = o /\ o \in Nat
  BY <1>1, <1>3, <1>4, <1>5, <1>9
<1>19. Right(cs, pp, q, n, ns, cg, e, d, x)
  BY <1>7, <1>8, <1>10, <1>11, <1>12, <1>14, <1>15, <1>16, <1>17 DEF Right
<1> QED BY <1>2, <1>3, <1>18, <1>19 DEF o, r, ns, pp
-----------------------------------------------------------------------------
(* An operation changes. *)

\* It stays with its file: what does not depend on the rest of it is kept.
LEMMA OneChanged ==
  ASSUME NEW cs, NEW p, NEW q, NEW n, NEW os, NEW cg, NEW e, NEW d, NEW x,
         Right(cs, p, q, n, os, cg, e, d, x),
         NEW o \in DOMAIN os, NEW r \in Operations, r.file = os[o].file
  PROVE  LET ns == [os EXCEPT ![o] = r] IN
         /\ Typed(cs, p, q, n, ns, cg, e, d, x) /\ PathsRight(p, ns) /\ CancelsKnown(cs, ns, cg, d)
         /\ DOMAIN ns = DOMAIN os /\ ns[o] = r /\ \A w \in DOMAIN os : w # o => ns[w] = os[w]
         /\ \A w \in DOMAIN os : ns[w].file = os[w].file
<1> DEFINE ns == [os EXCEPT ![o] = r]
<1>1. os \in Seq(Operations)
  BY DEF Right, Typed
<1>2. /\ ns \in Seq(Operations) /\ Len(ns) = Len(os) /\ DOMAIN ns = DOMAIN os /\ ns[o] = r
      /\ \A w \in DOMAIN os : w # o => ns[w] = os[w]
  BY <1>1
<1> HIDE DEF ns
<1>3. \A w \in DOMAIN os : ns[w].file = os[w].file
  BY <1>2
<1>4. Typed(cs, p, q, n, ns, cg, e, d, x)
  BY <1>2 DEF Right, Typed, CallsTyped, NamesTyped, QueueTyped
<1>5. \A f \in Files : p[f] # None => p[f] \in DOMAIN os
  BY <1>1, Indices DEF Right, Typed, NamesTyped, None
<1>6. PathsRight(p, ns)
  BY <1>3, <1>5 DEF Right, PathsRight
<1>7. CancelsKnown(cs, ns, cg, d)
  <2>1. cg \subseteq DOMAIN os /\ CancelsKnown(cs, os, cg, d)
    BY DEF Right, Typed
  <2> QED BY <1>3, <2>1 DEF CancelsKnown
<1> QED BY <1>2, <1>3, <1>4, <1>6, <1>7 DEF ns

\* It is told that its load is forced.
LEMMA ForceKeepsRight ==
  ASSUME NEW cs, NEW p, NEW q, NEW n, NEW os, NEW cg, NEW e, NEW d, NEW x,
         Right(cs, p, q, n, os, cg, e, d, x),
         NEW o \in DOMAIN os, NEW r \in Operations, r.file = os[o].file,
         r.state = os[o].state, r.slot = os[o].slot, r.reports = os[o].reports
  PROVE  Right(cs, p, q, n, [os EXCEPT ![o] = r], cg, e, d, x)
<1> DEFINE ns == [os EXCEPT ![o] = r]
<1>1. /\ Typed(cs, p, q, n, ns, cg, e, d, x) /\ PathsRight(p, ns) /\ CancelsKnown(cs, ns, cg, d)
      /\ DOMAIN ns = DOMAIN os /\ ns[o] = r /\ \A w \in DOMAIN os : w # o => ns[w] = os[w]
  BY OneChanged
<1> HIDE DEF ns
<1>2. \A w \in DOMAIN os : /\ ns[w].file = os[w].file /\ ns[w].state = os[w].state
                           /\ ns[w].slot = os[w].slot /\ ns[w].reports = os[w].reports
  BY <1>1
<1>3. SlotsOf(ns) = SlotsOf(os)
  BY <1>1, <1>2 DEF SlotsOf
<1>4. Counted(n, ns, x) /\ OpsRight(ns) /\ ReportsOnce(ns, d)
  BY <1>1, <1>2, <1>3 DEF Right, Counted, OpsRight, ReportsOnce
<1>5. \A w : Contains(q, w) => w \in DOMAIN os
  BY DEF Right, Typed, QueueTyped, Contains
<1>6. Waiting(q, ns, cg)
  BY <1>2, <1>5 DEF Right, Waiting
<1>7. EndsRight(cs, e, ns)
  BY <1>1, <1>2 DEF Right, EndsRight, Reporter
<1>8. EndsOnce(cs, e, ns, d)
  <2>1. EndsRight(cs, e, os) /\ EndsOnce(cs, e, os, d)
    BY DEF Right
  <2>2. /\ \A i \in DOMAIN cs : IsEnd(cs[i]) => ns[cs[i].op].slot = os[cs[i].op].slot
        /\ e # None => ns[e].slot = os[e].slot /\ ns[e].file = os[e].file
    BY <1>2, <2>1 DEF EndsRight, Reporter
  <2> QED BY <2>1, <2>2 DEF EndsOnce
<1>9. Named(cs, p, q, ns, e, d)
  BY <1>1, <1>2 DEF Right, Named, OnWay
<1> QED BY <1>1, <1>4, <1>6, <1>7, <1>8, <1>9 DEF Right, ns

\* It starts, when there is room.
LEMMA StartKeepsRight ==
  ASSUME NEW cs, NEW p, NEW q, NEW n, NEW os, NEW cg, NEW e, NEW d, NEW x,
         Right(cs, p, q, n, os, cg, e, d, x), n < Forced,
         NEW o \in DOMAIN os, NEW r \in Operations, r.file = os[o].file,
         r.state = "downloading", r.slot, r.reports = os[o].reports,
         os[o].state = "idle", ~Contains(q, o),
         os[o].file \notin d => p[os[o].file] = o
  PROVE  Right(cs, p, q, n + 1, [os EXCEPT ![o] = r], cg, e, d, x)
<1> DEFINE ns == [os EXCEPT ![o] = r]
<1>1. /\ Typed(cs, p, q, n, ns, cg, e, d, x) /\ PathsRight(p, ns) /\ CancelsKnown(cs, ns, cg, d)
      /\ DOMAIN ns = DOMAIN os /\ ns[o] = r /\ \A w \in DOMAIN os : w # o => ns[w] = os[w]
      /\ \A w \in DOMAIN os : ns[w].file = os[w].file
  BY OneChanged
<1> HIDE DEF ns
<1>2. os \in Seq(Operations) /\ n \in Int /\ x \in Nat
  BY DEF Right, Typed
<1>3. ~os[o].slot /\ os[o].reports = 0
  BY DEF Right, OpsRight
<1>4. Typed(cs, p, q, n + 1, ns, cg, e, d, x)
  BY <1>1, <1>2 DEF Typed
<1>5. Counted(n + 1, ns, x)
  <2>1. SlotsOf(ns) = SlotsOf(os) \cup {o} /\ o \notin SlotsOf(os)
    BY <1>1, <1>3 DEF SlotsOf
  <2>2. IsFiniteSet(SlotsOf(os)) /\ Cardinality(SlotsOf(os)) \in Nat
    BY <1>2, SlotsFinite
  <2>3. Cardinality(SlotsOf(ns)) = Cardinality(SlotsOf(os)) + 1
    BY <2>1, <2>2, FS_AddElement
  <2>4. n = Cardinality(SlotsOf(os)) - x /\ Forced \in Nat
    BY BoundsAssumption DEF Right, Counted
  <2> QED BY <1>2, <2>2, <2>3, <2>4 DEF Counted
<1>6. Waiting(q, ns, cg)
  <2>1. \A w : Contains(q, w) => w \in DOMAIN os /\ w # o
    BY DEF Right, Typed, QueueTyped, Contains
  <2> QED BY <1>1, <2>1 DEF Right, Waiting
<1>7. OpsRight(ns) /\ ReportsOnce(ns, d)
  <2>1. OpsRight(ns)
    BY <1>1 DEF Right, OpsRight
  <2>2. ReportsOnce(ns, d)
    BY <1>1, <1>3 DEF Right, ReportsOnce
  <2> QED BY <2>1, <2>2
<1>8. EndsRight(cs, e, ns) /\ EndsOnce(cs, e, ns, d)
  <2>1. EndsRight(cs, e, os) /\ EndsOnce(cs, e, os, d)
    BY DEF Right
  <2>2. \A w : Reporter(os, w) => w \in DOMAIN os /\ ns[w] = os[w]
    BY <1>1, <1>3 DEF Reporter
  <2>3. EndsRight(cs, e, ns)
    BY <1>1, <2>1, <2>2 DEF EndsRight, Reporter
  <2>4. EndsOnce(cs, e, ns, d)
    BY <2>1, <2>2 DEF EndsOnce, EndsRight
  <2> QED BY <2>3, <2>4
<1>9. Named(cs, p, q, ns, e, d)
  <2> SUFFICES ASSUME NEW w \in DOMAIN os, os[w].file \notin d, OnWay(cs, q, ns, e, w)
               PROVE  p[os[w].file] = w
    BY <1>1 DEF Named
  <2>1. CASE w = o
    BY <2>1
  <2>2. CASE w # o
    BY <1>1, <2>2 DEF Right, Named, OnWay
  <2> QED BY <2>1, <2>2
<1> QED BY <1>1, <1>4, <1>5, <1>6, <1>7, <1>8, <1>9 DEF Right, ns

\* What it may report when: of a file that is not disturbed it is the operation
\* its name stands for, has its slot, and did not report.
MayReport(p, q, os, d, o) ==
  /\ ~Contains(q, o)
  /\ os[o].file \notin d => os[o].reports = 0 /\ os[o].slot /\ p[os[o].file] = o

\* It reports, and what it posted comes behind the other calls.
LEMMA ReportKeepsRight ==
  ASSUME NEW cs, NEW p, NEW q, NEW n, NEW os, NEW cg, NEW e, NEW d, NEW x,
         Right(cs, p, q, n, os, cg, e, d, x),
         NEW o \in DOMAIN os, NEW r \in Operations, r.file = os[o].file,
         r.state # "idle", r.slot = os[o].slot, r.reports = os[o].reports + 1,
         MayReport(p, q, os, d, o)
  PROVE  LET c == [what |-> "done", file |-> os[o].file, force |-> FALSE, op |-> o]
         IN  Right(Append(cs, c), p, q, n, [os EXCEPT ![o] = r], cg, e, d, x)
<1> DEFINE c  == [what |-> "done", file |-> os[o].file, force |-> FALSE, op |-> o]
           ns == [os EXCEPT ![o] = r]
           t  == Append(cs, c)
           m  == Len(cs)
<1>1. /\ Typed(cs, p, q, n, ns, cg, e, d, x) /\ PathsRight(p, ns) /\ CancelsKnown(cs, ns, cg, d)
      /\ DOMAIN ns = DOMAIN os /\ ns[o] = r /\ \A w \in DOMAIN os : w # o => ns[w] = os[w]
      /\ \A w \in DOMAIN os : ns[w].file = os[w].file
  BY OneChanged
<1> HIDE DEF ns
<1>2. /\ os \in Seq(Operations) /\ ns \in Seq(Operations) /\ cs \in Seq(Calls)
      /\ os[o].reports \in Nat /\ os[o].file \in Files /\ o \in Nat /\ o # None
  <2>1. os \in Seq(Operations) /\ ns \in Seq(Operations) /\ cs \in Seq(Calls)
    BY <1>1 DEF Right, Typed, CallsTyped
  <2> QED BY <2>1, Indices DEF None
<1>3. c \in Calls /\ c.op = o /\ IsEnd(c) /\ c.file = os[o].file /\ c.what # "cancel"
  BY <1>2 DEF Calls, IsEnd
<1> HIDE DEF c
<1>4. /\ t \in Seq(Calls) /\ m \in Nat /\ DOMAIN cs = 1..m /\ DOMAIN t = 1..(m + 1)
      /\ \A i \in 1..m : t[i] = cs[i]
      /\ t[m + 1] = c
      /\ \A i \in 1..(m + 1) : i \in 1..m \/ i = m + 1
      /\ \A i \in 1..m : i # m + 1
  BY <1>2, <1>3, Appended
<1>5. \A w : EndWaits(t, e, w) <=> EndWaits(cs, e, w) \/ w = o
  BY <1>2, <1>3, EndsAppended
<1> HIDE DEF t, m
<1>6. Typed(t, p, q, n, ns, cg, e, d, x) /\ CancelsKnown(t, ns, cg, d)
  <2>1. c.op <= Len(ns)
    BY <1>1, <1>2, <1>3
  <2> QED BY <1>1, <1>3, <1>4, <2>1 DEF Typed, CallsTyped, CancelsKnown
<1>7. Counted(n, ns, x)
  <2>1. SlotsOf(ns) = SlotsOf(os)
    BY <1>1 DEF SlotsOf
  <2> QED BY <2>1 DEF Right, Counted
<1>8. Waiting(q, ns, cg)
  <2>1. \A w : Contains(q, w) => w \in DOMAIN os /\ w # o
    BY DEF Right, Typed, QueueTyped, Contains, MayReport
  <2> QED BY <1>1, <2>1 DEF Right, Waiting
<1>9. r.reports > 0 /\ r.reports # 0
  BY <1>2
<1>10. OpsRight(ns)
  <2>1. OpsRight(os)
    BY DEF Right
  <2> QED BY <1>1, <1>9, <2>1 DEF OpsRight
<1>11. ReportsOnce(ns, d)
  <2>1. os[o].file \notin d => r.reports <= 1
    BY DEF MayReport
  <2> QED BY <1>1, <2>1 DEF Right, ReportsOnce
<1>12. EndsRight(cs, e, os) /\ EndsOnce(cs, e, os, d)
  BY DEF Right
<1>13. EndsRight(t, e, ns)
  <2>1. \A w : Reporter(os, w) => Reporter(ns, w) /\ ns[w].file = os[w].file
    BY <1>1, <1>9 DEF Reporter
  <2>2. Reporter(ns, o) /\ ns[o].file = os[o].file
    BY <1>1, <1>9 DEF Reporter
  <2>3. \A i \in DOMAIN t : IsEnd(t[i]) => Reporter(ns, t[i].op) /\ t[i].file = ns[t[i].op].file
    BY <1>3, <1>4, <1>12, <2>1, <2>2 DEF EndsRight
  <2> QED BY <1>12, <2>1, <2>3 DEF EndsRight
<1>14. os[o].file \notin d => ~EndWaits(cs, e, o)
  <2> SUFFICES ASSUME os[o].file \notin d PROVE ~EndWaits(cs, e, o)
    OBVIOUS
  <2>1. ~Reporter(os, o)
    BY <1>2 DEF MayReport, Reporter
  <2> QED BY <1>2, <1>12, <2>1 DEF EndsRight, EndWaits
<1>15. EndsOnce(t, e, ns, d)
  <2>1. \A w \in DOMAIN os : ns[w].slot = os[w].slot
    BY <1>1
  <2>2. ASSUME NEW i \in 1..(m + 1), IsEnd(t[i]), t[i].file \notin d
        PROVE  /\ ns[t[i].op].slot /\ e # t[i].op
               /\ \A j \in 1..(m + 1) : IsEnd(t[j]) /\ t[j].op = t[i].op => j = i
    <3>1. CASE i = m + 1
      <4>1. t[i].op = o /\ os[o].file \notin d
        BY <1>3, <1>4, <2>2, <3>1
      <4>2. os[o].slot /\ ~EndWaits(cs, e, o)
        BY <1>14, <4>1 DEF MayReport
      <4>3. \A j \in 1..m : ~(IsEnd(cs[j]) /\ cs[j].op = o)
        BY <1>4, <4>2 DEF EndWaits
      <4>4. \A j \in 1..(m + 1) : IsEnd(t[j]) /\ t[j].op = o => j = i
        BY <1>4, <3>1, <4>3
      <4>5. ns[o].slot /\ e # o
        BY <2>1, <4>2 DEF EndWaits
      <4> QED BY <4>1, <4>4, <4>5
    <3>2. CASE i \in 1..m
      <4>1. t[i] = cs[i] /\ IsEnd(cs[i]) /\ cs[i].file \notin d
        BY <1>4, <2>2, <3>2
      <4>2. /\ os[cs[i].op].slot /\ e # cs[i].op
            /\ \A j \in 1..m : IsEnd(cs[j]) /\ cs[j].op = cs[i].op => j = i
        BY <1>4, <1>12, <3>2, <4>1 DEF EndsOnce
      <4>3. cs[i].op \in DOMAIN os /\ cs[i].file = os[cs[i].op].file
        BY <1>4, <1>12, <3>2, <4>1 DEF EndsRight, Reporter
      <4>4. cs[i].op # o
        <5>1. EndWaits(cs, e, cs[i].op)
          BY <1>4, <3>2, <4>1 DEF EndWaits
        <5> QED BY <1>14, <4>1, <4>3, <5>1
      <4>5. \A j \in 1..(m + 1) : IsEnd(t[j]) /\ t[j].op = cs[i].op => j = i
        BY <1>3, <1>4, <4>2, <4>4
      <4> QED BY <2>1, <4>1, <4>2, <4>3, <4>5
    <3> QED BY <1>4, <3>1, <3>2
  <2>3. e # None /\ ns[e].file \notin d => ns[e].slot
    BY <1>1, <1>12, <2>1 DEF EndsRight, EndsOnce, Reporter
  <2> QED BY <1>4, <2>2, <2>3 DEF EndsOnce
<1>16. Named(t, p, q, ns, e, d)
  <2> SUFFICES ASSUME NEW w \in DOMAIN os, os[w].file \notin d, OnWay(t, q, ns, e, w)
               PROVE  p[os[w].file] = w
    BY <1>1 DEF Named
  <2>1. CASE w = o
    BY <2>1 DEF MayReport
  <2>2. CASE w # o
    <3>1. OnWay(cs, q, os, e, w)
      BY <1>1, <1>5, <2>2 DEF OnWay
    <3> QED BY <3>1 DEF Right, Named
  <2> QED BY <2>1, <2>2
<1> QED BY <1>1, <1>6, <1>7, <1>8, <1>10, <1>11, <1>13, <1>15, <1>16 DEF Right, c, t, ns

\* It finishes: the loader hears of it in the next step.
LEMMA FinishKeepsRight ==
  ASSUME NEW cs, NEW p, NEW q, NEW n, NEW os, NEW cg, NEW d, NEW x,
         Right(cs, p, q, n, os, cg, None, d, x),
         NEW o \in DOMAIN os, NEW r \in Operations, r.file = os[o].file,
         r.state # "idle", r.slot = os[o].slot, r.reports = os[o].reports + 1,
         MayReport(p, q, os, d, o)
  PROVE  Right(cs, p, q, n, [os EXCEPT ![o] = r], cg, o, d, x)
<1> DEFINE ns == [os EXCEPT ![o] = r]
<1>1. /\ Typed(cs, p, q, n, ns, cg, None, d, x) /\ PathsRight(p, ns) /\ CancelsKnown(cs, ns, cg, d)
      /\ DOMAIN ns = DOMAIN os /\ ns[o] = r /\ \A w \in DOMAIN os : w # o => ns[w] = os[w]
      /\ \A w \in DOMAIN os : ns[w].file = os[w].file
  BY OneChanged
<1> HIDE DEF ns
<1>2. /\ os \in Seq(Operations) /\ ns \in Seq(Operations) /\ DOMAIN ns = 1..Len(ns)
      /\ os[o].reports \in Nat /\ o \in Nat /\ o # None /\ Len(ns) \in Nat
  <2>1. os \in Seq(Operations) /\ ns \in Seq(Operations)
    BY <1>1 DEF Right, Typed
  <2> QED BY <2>1, Indices DEF None
<1>3. Typed(cs, p, q, n, ns, cg, o, d, x)
  BY <1>1, <1>2 DEF Typed
<1>4. Counted(n, ns, x)
  <2>1. SlotsOf(ns) = SlotsOf(os)
    BY <1>1 DEF SlotsOf
  <2> QED BY <2>1 DEF Right, Counted
<1>5. Waiting(q, ns, cg)
  <2>1. \A w : Contains(q, w) => w \in DOMAIN os /\ w # o
    BY DEF Right, Typed, QueueTyped, Contains, MayReport
  <2> QED BY <1>1, <2>1 DEF Right, Waiting
<1>6. r.reports > 0 /\ r.reports # 0
  BY <1>2
<1>7. OpsRight(ns)
  <2>1. OpsRight(os)
    BY DEF Right
  <2> QED BY <1>1, <1>6, <2>1 DEF OpsRight
<1>8. ReportsOnce(ns, d)
  <2>1. os[o].file \notin d => r.reports <= 1
    BY DEF MayReport
  <2> QED BY <1>1, <2>1 DEF Right, ReportsOnce
<1>9. EndsRight(cs, None, os) /\ EndsOnce(cs, None, os, d)
  BY DEF Right
<1>10. EndsRight(cs, o, ns)
  <2>1. \A w : Reporter(os, w) => Reporter(ns, w) /\ ns[w].file = os[w].file
    BY <1>1, <1>6 DEF Reporter
  <2>2. Reporter(ns, o)
    BY <1>1, <1>6 DEF Reporter
  <2> QED BY <1>9, <2>1, <2>2 DEF EndsRight
<1>11. EndsOnce(cs, o, ns, d)
  <2>1. \A w \in DOMAIN os : ns[w].slot = os[w].slot
    BY <1>1
  <2>2. ASSUME NEW i \in DOMAIN cs, IsEnd(cs[i]), cs[i].file \notin d
        PROVE  /\ ns[cs[i].op].slot /\ o # cs[i].op
               /\ \A j \in DOMAIN cs : IsEnd(cs[j]) /\ cs[j].op = cs[i].op => j = i
    <3>1. /\ os[cs[i].op].slot
          /\ \A j \in DOMAIN cs : IsEnd(cs[j]) /\ cs[j].op = cs[i].op => j = i
      BY <1>9, <2>2 DEF EndsOnce
    <3>2. Reporter(os, cs[i].op) /\ cs[i].file = os[cs[i].op].file
      BY <1>9, <2>2 DEF EndsRight
    <3>3. o # cs[i].op
      <4> SUFFICES ASSUME o = cs[i].op PROVE FALSE
        OBVIOUS
      <4>1. os[o].reports = 0 /\ os[o].reports > 0
        BY <2>2, <3>2 DEF MayReport, Reporter
      <4> QED BY <4>1
    <3> QED BY <2>1, <3>1, <3>2, <3>3 DEF Reporter
  <2>3. ns[o].file \notin d => ns[o].slot
    BY <1>1 DEF MayReport
  <2> QED BY <2>2, <2>3 DEF EndsOnce
<1>12. Named(cs, p, q, ns, o, d)
  <2> SUFFICES ASSUME NEW w \in DOMAIN os, os[w].file \notin d, OnWay(cs, q, ns, o, w)
               PROVE  p[os[w].file] = w
    BY <1>1 DEF Named
  <2>1. CASE w = o
    BY <2>1 DEF MayReport
  <2>2. CASE w # o
    <3>1. OnWay(cs, q, os, None, w)
      BY <1>1, <2>2 DEF OnWay, EndWaits
    <3> QED BY <3>1 DEF Right, Named
  <2> QED BY <2>1, <2>2
<1> QED BY <1>1, <1>3, <1>4, <1>5, <1>7, <1>8, <1>10, <1>11, <1>12 DEF Right, ns

\* The loader is told of one that finished.
LEMMA PostKeepsRight ==
  ASSUME NEW cs, NEW p, NEW q, NEW n, NEW os, NEW cg, NEW e, NEW d, NEW x,
         Right(cs, p, q, n, os, cg, e, d, x), e # None
  PROVE  LET c == [what |-> "done", file |-> os[e].file, force |-> FALSE, op |-> e]
         IN  Right(Append(cs, c), p, q, n, os, cg, None, d, x)
<1> DEFINE c == [what |-> "done", file |-> os[e].file, force |-> FALSE, op |-> e]
           t == Append(cs, c)
           m == Len(cs)
<1>1. /\ os \in Seq(Operations) /\ cs \in Seq(Calls) /\ e \in DOMAIN os /\ e \in Nat
      /\ Reporter(os, e) /\ EndsRight(cs, e, os) /\ EndsOnce(cs, e, os, d) /\ e <= Len(os)
  BY DEF Right, Typed, CallsTyped, EndsRight, Reporter
<1>2. os[e].file \in Files
  BY <1>1, Indices
<1>3. c \in Calls /\ c.op = e /\ IsEnd(c) /\ c.file = os[e].file /\ c.what # "cancel"
  BY <1>1, <1>2 DEF Calls, IsEnd
<1> HIDE DEF c
<1>4. /\ t \in Seq(Calls) /\ m \in Nat /\ DOMAIN cs = 1..m /\ DOMAIN t = 1..(m + 1)
      /\ \A i \in 1..m : t[i] = cs[i]
      /\ t[m + 1] = c
      /\ \A i \in 1..(m + 1) : i \in 1..m \/ i = m + 1
  BY <1>1, <1>3, Appended
<1>5. \A w \in DOMAIN os : EndWaits(t, None, w) <=> EndWaits(cs, e, w)
  <2>1. \A w : EndWaits(t, None, w) <=> EndWaits(cs, None, w) \/ w = e
    BY <1>1, <1>3, EndsAppended
  <2>2. \A w \in DOMAIN os : w # None
    BY <1>1 DEF None
  <2> QED BY <2>1, <2>2 DEF EndWaits
<1> HIDE DEF t, m
<1>6. Typed(t, p, q, n, os, cg, None, d, x) /\ CancelsKnown(t, os, cg, d)
  <2>1. None \in Nat /\ None <= Len(os)
    BY <1>1 DEF None
  <2> QED BY <1>1, <1>3, <1>4, <2>1 DEF Right, Typed, CallsTyped, CancelsKnown
<1>7. EndsRight(t, None, os)
  BY <1>1, <1>3, <1>4 DEF EndsRight
<1>8. EndsOnce(t, None, os, d)
  <2> SUFFICES ASSUME NEW i \in 1..(m + 1), IsEnd(t[i]), t[i].file \notin d
               PROVE  /\ os[t[i].op].slot /\ None # t[i].op
                      /\ \A j \in 1..(m + 1) : IsEnd(t[j]) /\ t[j].op = t[i].op => j = i
    BY <1>4 DEF EndsOnce
  <2>1. None # t[i].op
    BY <1>1, <1>4, <1>7 DEF EndsRight, Reporter, None
  <2>2. CASE i = m + 1
    <3>1. t[i].op = e /\ os[e].slot
      BY <1>1, <1>3, <1>4, <2>2 DEF EndsOnce
    <3>2. \A j \in 1..m : IsEnd(cs[j]) => cs[j].op # e
      BY <1>1, <1>3, <1>4, <2>2 DEF EndsOnce, EndsRight
    <3> QED BY <1>4, <2>1, <2>2, <3>1, <3>2
  <2>3. CASE i \in 1..m
    <3>1. /\ os[cs[i].op].slot /\ e # cs[i].op /\ t[i] = cs[i]
          /\ \A j \in 1..m : IsEnd(cs[j]) /\ cs[j].op = cs[i].op => j = i
      BY <1>1, <1>4, <2>3 DEF EndsOnce
    <3> QED BY <1>3, <1>4, <2>1, <3>1
  <2> QED BY <1>4, <2>2, <2>3
<1>9. Named(t, p, q, os, None, d)
  BY <1>5 DEF Right, Named, OnWay
<1> QED BY <1>6, <1>7, <1>8, <1>9 DEF Right, c, t

\* An end is counted: its name is free, and its slot.
LEMMA CountKeepsRight ==
  ASSUME NEW cs, NEW p, NEW q, NEW n, NEW os, NEW cg, NEW e, NEW d, NEW x,
         Right(cs, p, q, n, os, cg, e, d, x), cs # <<>>, IsEnd(Head(cs))
  PROVE  LET c == Head(cs)
             o == c.op
         IN  /\ o \in DOMAIN os /\ c.file = os[o].file /\ c.file \in Files
             /\ ~Contains(q, o)
             /\ \A w : Contains(q, w) /\ os[w].file \notin d => os[w].file # c.file
             /\ \A r \in Operations :
                  r.file = os[o].file /\ r.state = os[o].state /\ ~r.slot /\ r.reports = os[o].reports
                  => Right(Tail(cs), [p EXCEPT ![c.file] = None], q, n - 1, [os EXCEPT ![o] = r],
                           cg, e, d, IF os[o].slot THEN x ELSE x + 1)
<1> DEFINE c == Head(cs)
           o == c.op
           f == c.file
           t == Tail(cs)
           m == Len(cs)
           pp == [p EXCEPT ![f] = None]
           y == IF os[o].slot THEN x ELSE x + 1
<1>1. /\ cs \in Seq(Calls) /\ os \in Seq(Operations) /\ NamesTyped(p, os)
      /\ EndsRight(cs, e, os) /\ EndsOnce(cs, e, os, d) /\ n \in Int /\ x \in Nat
  BY DEF Right, Typed, CallsTyped
<1>2. /\ t \in Seq(Calls) /\ m \in Nat \ {0} /\ DOMAIN cs = 1..m /\ DOMAIN t = 1..(m - 1)
      /\ \A i \in 1..(m - 1) : t[i] = cs[i + 1] /\ i + 1 \in 1..m
  BY <1>1, HeadTaken
<1>3. /\ EndsRight(t, e, os) /\ EndsOnce(t, e, os, d)
      /\ \A w : w # o => (EndWaits(t, e, w) <=> EndWaits(cs, e, w))
      /\ EndWaits(cs, e, o) /\ Reporter(os, o) /\ f = os[o].file
      /\ f \notin d => os[o].slot /\ ~EndWaits(t, e, o)
  BY <1>1, EndsTaken
<1> HIDE DEF c, o, f, t, m
<1>4. o \in DOMAIN os /\ os[o].reports > 0 /\ f \in Files
  BY <1>1, <1>3, Indices DEF Reporter
<1>5. os[o].state # "idle" /\ os[o].reports # 0
  <2>1. os[o].reports # 0
    BY <1>4
  <2> QED BY <1>4, <2>1 DEF Right, OpsRight
<1>6. ~Contains(q, o)
  BY <1>5 DEF Right, Waiting
<1>7. \A w \in DOMAIN os : /\ os[w].file \notin d /\ os[w].file = f /\ OnWay(cs, q, os, e, w)
                           => w = o
  <2>1. f \notin d => p[f] = o
    BY <1>3, <1>4 DEF Right, Named, OnWay
  <2> QED BY <2>1 DEF Right, Named
<1>8. \A w : Contains(q, w) => w \in DOMAIN os
  BY DEF Right, Typed, QueueTyped, Contains
<1>9. \A w : Contains(q, w) /\ os[w].file \notin d => os[w].file # f
  BY <1>6, <1>7, <1>8 DEF OnWay
<1>10. ASSUME NEW r \in Operations, r.file = os[o].file, r.state = os[o].state, ~r.slot,
              r.reports = os[o].reports
       PROVE  Right(t, pp, q, n - 1, [os EXCEPT ![o] = r], cg, e, d, y)
  <2> DEFINE ns == [os EXCEPT ![o] = r]
  <2>1. /\ Typed(cs, p, q, n, ns, cg, e, d, x) /\ PathsRight(p, ns) /\ CancelsKnown(cs, ns, cg, d)
        /\ DOMAIN ns = DOMAIN os /\ ns[o] = r /\ \A w \in DOMAIN os : w # o => ns[w] = os[w]
        /\ \A w \in DOMAIN os : ns[w].file = os[w].file
    BY <1>4, <1>10, OneChanged
  <2> HIDE DEF ns
  <2>2. /\ pp \in [Files -> Nat] /\ pp[f] = None /\ \A g \in Files \ {f} : pp[g] = p[g]
        /\ \A g \in Files : pp[g] <= Len(ns)
    <3>1. p \in [Files -> Nat] /\ \A g \in Files : p[g] <= Len(ns)
      BY <2>1 DEF Typed, NamesTyped
    <3>2. Len(ns) \in Nat
      BY <2>1 DEF Typed
    <3>3. pp \in [Files -> Nat] /\ pp[f] = None /\ \A g \in Files \ {f} : pp[g] = p[g]
      BY <1>4, <3>1 DEF None
    <3> QED BY <3>1, <3>2, <3>3 DEF None
  <2> HIDE DEF pp
  <2>3. y \in Nat
    BY <1>1
  <2>4. Typed(t, pp, q, n - 1, ns, cg, e, d, y)
    <3>1. CallsTyped(t, ns)
      BY <1>2, <2>1 DEF Typed, CallsTyped
    <3> QED BY <1>1, <2>1, <2>2, <2>3, <3>1 DEF Typed, NamesTyped
  <2>5. Counted(n - 1, ns, y)
    <3>1. IsFiniteSet(SlotsOf(os)) /\ Cardinality(SlotsOf(os)) \in Nat
      BY <1>1, SlotsFinite
    <3>2. SlotsOf(ns) = SlotsOf(os) \ {o} /\ (o \in SlotsOf(os) <=> os[o].slot)
      BY <1>4, <1>10, <2>1 DEF SlotsOf
    <3>3. n = Cardinality(SlotsOf(os)) - x /\ n <= Forced /\ Forced \in Nat
      BY BoundsAssumption DEF Right, Counted
    <3>4. CASE os[o].slot
      <4>1. Cardinality(SlotsOf(ns)) = Cardinality(SlotsOf(os)) - 1 /\ y = x
        BY <3>1, <3>2, <3>4, FS_RemoveElement
      <4> QED BY <1>1, <3>1, <3>3, <4>1 DEF Counted
    <3>5. CASE ~os[o].slot
      <4>1. SlotsOf(ns) = SlotsOf(os) /\ y = x + 1
        BY <3>2, <3>5
      <4> QED BY <1>1, <3>1, <3>3, <4>1 DEF Counted
    <3> QED BY <3>4, <3>5
  <2>6. Waiting(q, ns, cg)
    BY <1>6, <1>8, <2>1 DEF Right, Waiting
  <2>7. OpsRight(ns) /\ ReportsOnce(ns, d)
    <3>1. OpsRight(ns)
      BY <1>5, <1>10, <2>1 DEF Right, OpsRight
    <3>2. ReportsOnce(ns, d)
      BY <1>10, <2>1 DEF Right, ReportsOnce
    <3> QED BY <3>1, <3>2
  <2>8. EndsRight(t, e, ns)
    <3>1. \A w : Reporter(os, w) => Reporter(ns, w) /\ ns[w].file = os[w].file
      BY <1>10, <2>1 DEF Reporter
    <3> QED BY <1>3, <3>1 DEF EndsRight
  <2>9. EndsOnce(t, e, ns, d)
    <3>1. \A w \in DOMAIN os : w # o => ns[w].slot = os[w].slot
      BY <2>1
    <3>2. ASSUME NEW i \in DOMAIN t, IsEnd(t[i]), t[i].file \notin d
          PROVE  /\ ns[t[i].op].slot /\ e # t[i].op
                 /\ \A j \in DOMAIN t : IsEnd(t[j]) /\ t[j].op = t[i].op => j = i
      <4>1. t[i].op \in DOMAIN os /\ t[i].file = os[t[i].op].file
        BY <1>3, <3>2 DEF EndsRight, Reporter
      <4>2. t[i].op # o
        <5> SUFFICES ASSUME t[i].op = o PROVE FALSE
          OBVIOUS
        <5>1. EndWaits(t, e, o) /\ f \notin d
          BY <1>3, <3>2, <4>1 DEF EndWaits
        <5> QED BY <1>3, <5>1
      <4> QED BY <1>3, <3>1, <3>2, <4>1, <4>2 DEF EndsOnce
    <3>3. e # None /\ ns[e].file \notin d => ns[e].slot
      <4> SUFFICES ASSUME e # None, ns[e].file \notin d PROVE ns[e].slot
        OBVIOUS
      <4>1. e \in DOMAIN os /\ os[e].file \notin d
        BY <1>3, <2>1 DEF EndsRight, Reporter
      <4>2. e # o
        <5> SUFFICES ASSUME e = o PROVE FALSE
          OBVIOUS
        <5>1. EndWaits(t, e, o)
          BY DEF EndWaits
        <5> QED BY <1>3, <4>1, <5>1
      <4> QED BY <1>3, <3>1, <4>1, <4>2 DEF EndsOnce
    <3> QED BY <3>2, <3>3 DEF EndsOnce
  <2>10. ExtrasOnlyDisturbed(d, y)
    BY <1>3 DEF Right, ExtrasOnlyDisturbed
  <2>11. Named(t, pp, q, ns, e, d)
    <3> SUFFICES ASSUME NEW w \in DOMAIN os, os[w].file \notin d, OnWay(t, q, ns, e, w)
                 PROVE  pp[os[w].file] = w
      BY <2>1 DEF Named
    <3>1. w # o
      BY <1>3, <1>5, <1>6, <1>10, <2>1 DEF OnWay
    <3>2. OnWay(cs, q, os, e, w)
      BY <1>3, <2>1, <3>1 DEF OnWay
    <3>3. os[w].file # f /\ os[w].file \in Files
      BY <1>1, <1>7, <3>1, <3>2, Indices
    <3>4. p[os[w].file] = w
      BY <3>2 DEF Right, Named
    <3> QED BY <2>2, <3>3, <3>4
  <2>12. PathsRight(pp, ns)
    BY <2>1, <2>2 DEF PathsRight
  <2>13. CancelsKnown(t, ns, cg, d)
    BY <1>2, <2>1 DEF CancelsKnown
  <2> HIDE DEF y
  <2> QED BY <2>4, <2>5, <2>6, <2>7, <2>8, <2>9, <2>10, <2>11, <2>12, <2>13 DEF Right, ns
<1> HIDE DEF pp, y
<1> QED BY <1>3, <1>4, <1>6, <1>9, <1>10 DEF c, o, f, t, pp, y

\* A name is cancelled, when its operation does not wait any more: it hears of it.
LEMMA CancelKeepsRight ==
  ASSUME NEW cs, NEW p, NEW q, NEW n, NEW os, NEW cg, NEW e, NEW d, NEW x,
         Right(cs, p, q, n, os, cg, e, d, x), NEW f \in d, p[f] # None, ~Contains(q, p[f])
  PROVE  Right(cs, [p EXCEPT ![f] = None], q, n, os, cg \cup {p[f]}, e, d, x)
<1> DEFINE pp == [p EXCEPT ![f] = None]
           o == p[f]
<1>1. /\ os \in Seq(Operations) /\ f \in Files /\ p \in [Files -> Nat] /\ cg \subseteq DOMAIN os
      /\ \A g \in Files : p[g] <= Len(os)
  BY DEF Right, Typed, NamesTyped
<1>2. /\ pp \in [Files -> Nat] /\ \A g \in Files : pp[g] <= Len(os)
      /\ pp[f] = None /\ \A g \in Files \ {f} : pp[g] = p[g]
  <2>1. pp \in [Files -> Nat] /\ pp[f] = None /\ \A g \in Files \ {f} : pp[g] = p[g]
    BY <1>1 DEF None
  <2>2. Len(os) \in Nat
    BY <1>1
  <2> QED BY <1>1, <2>1, <2>2 DEF None
<1>3. o \in DOMAIN os /\ os[o].file = f
  <2>1. os[o].file = f
    BY <1>1 DEF Right, PathsRight
  <2> QED BY <1>1, <2>1, Indices DEF None
<1> HIDE DEF pp, o
<1>4. Typed(cs, pp, q, n, os, cg \cup {o}, e, d, x)
  BY <1>1, <1>2, <1>3 DEF Right, Typed, NamesTyped
<1>5. Waiting(q, os, cg \cup {o})
  BY DEF Right, Waiting, o
<1>6. CancelsKnown(cs, os, cg \cup {o}, d)
  BY <1>3 DEF Right, CancelsKnown
<1>7. PathsRight(pp, os)
  BY <1>2 DEF Right, PathsRight
<1>8. Named(cs, pp, q, os, e, d)
  <2>1. \A w \in DOMAIN os : os[w].file \in Files
    BY <1>1, Indices
  <2> QED BY <1>2, <2>1 DEF Right, Named
<1> QED BY <1>4, <1>5, <1>6, <1>7, <1>8 DEF Right, pp, o

\* An operation heard of its cancellation.
LEMMA HeardKeepsRight ==
  ASSUME NEW cs, NEW p, NEW q, NEW n, NEW os, NEW cg, NEW e, NEW d, NEW x, NEW ch,
         Right(cs, p, q, n, os, cg, e, d, x), ch \subseteq cg
  PROVE  Right(cs, p, q, n, os, ch, e, d, x)
<1>1. Typed(cs, p, q, n, os, ch, e, d, x) /\ Waiting(q, os, ch) /\ CancelsKnown(cs, os, ch, d)
  BY DEF Right, Typed, Waiting, CancelsKnown
<1> QED BY <1>1 DEF Right
-----------------------------------------------------------------------------
(* Each step keeps Inv. *)

LaneRight == Right(calls, paths, queue, count, ops, cancelling, ending, disturbed, extras)

\* What the invariant says of the types of the lane's variables.
LEMMA LaneTypes ==
  ASSUME LaneRight
  PROVE  /\ ops \in Seq(Operations) /\ calls \in Seq(Calls) /\ queue \in Seq(Nat) /\ Distinct(queue)
         /\ paths \in [Files -> Nat] /\ disturbed \subseteq Files /\ count \in Int
         /\ \A o : Contains(queue, o) => o \in DOMAIN ops /\ ops[o].state = "idle" /\ o \notin cancelling
         /\ \A f \in Files : paths[f] # None => paths[f] \in DOMAIN ops /\ ops[paths[f]].file = f
         /\ calls # <<>> => Head(calls) \in Calls
<1>1. /\ ops \in Seq(Operations) /\ calls \in Seq(Calls) /\ queue \in Seq(Nat) /\ Distinct(queue)
      /\ paths \in [Files -> Nat] /\ disturbed \subseteq Files /\ count \in Int
      /\ \A i \in DOMAIN queue : queue[i] \in DOMAIN ops
      /\ \A f \in Files : paths[f] <= Len(ops)
  BY DEF LaneRight, Right, Typed, CallsTyped, QueueTyped, NamesTyped
<1>2. \A o : Contains(queue, o) => o \in DOMAIN ops /\ ops[o].state = "idle" /\ o \notin cancelling
  BY <1>1 DEF LaneRight, Right, Waiting, Contains
<1>3. ASSUME NEW f \in Files, paths[f] # None
      PROVE  paths[f] \in DOMAIN ops /\ ops[paths[f]].file = f
  <2>1. paths[f] \in DOMAIN ops
    BY <1>1, <1>3, Indices DEF None
  <2> QED BY <1>3, <2>1 DEF LaneRight, Right, PathsRight
<1>4. calls # <<>> => Head(calls) \in Calls
  BY <1>1, HeadTaken
<1> QED BY <1>1, <1>2, <1>3, <1>4

\* An empty lane keeps it.
LEMMA InitInv == Init => Inv
<1> SUFFICES ASSUME Init PROVE Inv
  OBVIOUS
<1>1. /\ DOMAIN ops = {} /\ Len(ops) = 0 /\ ops \in Seq(Operations)
      /\ DOMAIN calls = {} /\ calls \in Seq(Calls) /\ DOMAIN queue = {} /\ queue \in Seq(Nat)
      /\ Len(queue) = 0
  BY DEF Init
<1>2. \A o : ~Contains(queue, o)
  BY <1>1 DEF Contains
<1>3. Typed(calls, paths, queue, count, ops, cancelling, ending, disturbed, extras)
  BY <1>1 DEF Init, Typed, CallsTyped, NamesTyped, QueueTyped, None, Distinct
<1>4. Counted(count, ops, extras)
  <2>1. SlotsOf(ops) = {}
    BY <1>1 DEF SlotsOf
  <2> QED BY <2>1, FS_EmptySet, BoundsAssumption DEF Init, Counted
<1>5. /\ Waiting(queue, ops, cancelling) /\ OpsRight(ops) /\ ReportsOnce(ops, disturbed)
      /\ ExtrasOnlyDisturbed(disturbed, extras)
  BY <1>1, <1>2 DEF Init, Waiting, OpsRight, ReportsOnce, ExtrasOnlyDisturbed
<1>6. /\ EndsRight(calls, ending, ops) /\ EndsOnce(calls, ending, ops, disturbed)
      /\ Named(calls, paths, queue, ops, ending, disturbed)
      /\ CancelsKnown(calls, ops, cancelling, disturbed)
  BY <1>1 DEF Init, EndsRight, EndsOnce, Named, CancelsKnown
<1>7. PathsRight(paths, ops)
  BY DEF Init, PathsRight
<1>8. LaneRight
  BY <1>3, <1>4, <1>5, <1>6, <1>7 DEF LaneRight, Right
<1> QED BY <1>8, BoundsAssumption DEF Inv, LaneRight, Busy, Rest, Init

\* The user's calls.
LEMMA CallLoadKeepsInv ==
  ASSUME Inv, NEW f \in Files, NEW force \in BOOLEAN, CallLoad(f, force)
  PROVE  Inv'
<1> DEFINE c == [what |-> "load", file |-> f, force |-> force, op |-> None]
<1>1. calls' = Append(calls, c)
  BY DEF CallLoad
<1>2. c \in Calls /\ ~IsEnd(c) /\ c.op = None /\ c.what # "cancel"
  BY DEF Calls, IsEnd, None
<1> HIDE DEF c
<1>3. Right(calls', paths, queue, count, ops, cancelling, ending, disturbed, extras)
  BY <1>1, <1>2, CallKeepsRight DEF Inv
<1>4. Rest' /\ Busy'
  BY BoundsAssumption DEF Inv, Rest, Busy, CallLoad, lane
<1>5. UNCHANGED <<paths, queue, count, ops, cancelling, ending, disturbed, extras>>
  BY DEF CallLoad, lane
<1> QED BY <1>3, <1>4, <1>5 DEF Inv

\* The user cancels a file, which is disturbed from then on.
LEMMA CallCancelKeepsInv ==
  ASSUME Inv, NEW f \in Files, CallCancel(f)
  PROVE  Inv'
<1> DEFINE c == [what |-> "cancel", file |-> f, force |-> FALSE, op |-> None]
<1>1. calls' = Append(calls, c) /\ disturbed' = disturbed \cup {f}
  BY DEF CallCancel
<1>2. c \in Calls /\ ~IsEnd(c) /\ c.op = None /\ c.file \in disturbed'
  BY <1>1 DEF Calls, IsEnd, None
<1> HIDE DEF c
<1>3. disturbed \subseteq disturbed' /\ disturbed' \subseteq Files
  BY <1>1, LaneTypes DEF Inv, LaneRight
<1>4. Right(calls, paths, queue, count, ops, cancelling, ending, disturbed', extras)
  BY <1>3, DisturbKeepsRight DEF Inv
<1>5. Right(calls', paths, queue, count, ops, cancelling, ending, disturbed', extras)
  BY <1>1, <1>2, <1>4, CallKeepsRight
<1>6. Rest' /\ Busy'
  BY BoundsAssumption DEF Inv, Rest, Busy, CallCancel, lane
<1>7. UNCHANGED <<paths, queue, count, ops, cancelling, ending, extras>>
  BY DEF CallCancel, lane
<1> QED BY <1>5, <1>6, <1>7 DEF Inv

\* An operation that starts, and one that is told its load is forced.
LEMMA StartRecord ==
  ASSUME NEW a \in Operations
  PROVE  LET r == [a EXCEPT !.state = "downloading", !.slot = TRUE]
             s == [a EXCEPT !.state = "finished", !.slot = TRUE, !.reports = 1]
         IN  /\ r \in Operations /\ r.file = a.file /\ r.state = "downloading" /\ r.slot = TRUE
             /\ r.reports = a.reports
             /\ s \in Operations /\ s.file = a.file /\ s.state = "finished" /\ s.slot = TRUE
             /\ s.reports = 1
<1>1. ASSUME NEW b \in BOOLEAN
      PROVE  LET r == [a EXCEPT !.state = "downloading", !.slot = b]
             IN  /\ r \in Operations /\ r.file = a.file /\ r.state = "downloading" /\ r.slot = b
                 /\ r.reports = a.reports
  BY DEF Operations
<1>2. ASSUME NEW b \in BOOLEAN
      PROVE  LET s == [a EXCEPT !.state = "finished", !.slot = b, !.reports = 1]
             IN  /\ s \in Operations /\ s.file = a.file /\ s.state = "finished" /\ s.slot = b
                 /\ s.reports = 1
  BY DEF Operations
<1>3. TRUE \in BOOLEAN
  OBVIOUS
<1> QED BY <1>1, <1>2, <1>3, Zenon

\* What loadFile changes of an operation that waits and is forced.
LEMMA ForceRecord ==
  ASSUME NEW a \in Operations
  PROVE  LET r == [a EXCEPT !.force = TRUE]
         IN  /\ r \in Operations /\ r.file = a.file /\ r.state = a.state
             /\ r.slot = a.slot /\ r.reports = a.reports
<1>1. ASSUME NEW b \in BOOLEAN
      PROVE  LET r == [a EXCEPT !.force = b]
             IN  /\ r \in Operations /\ r.file = a.file /\ r.state = a.state
                 /\ r.slot = a.slot /\ r.reports = a.reports
  BY DEF Operations
<1>2. TRUE \in BOOLEAN
  OBVIOUS
<1> QED BY <1>1, <1>2, Zenon

\* A start is counted; one of a file that is there is reported at once.
LEMMA StartedKeepsRight ==
  ASSUME NEW cs, NEW p, NEW q, NEW n, NEW os, NEW cg, NEW e, NEW d, NEW x,
         Right(cs, p, q, n, os, cg, e, d, x), n < Forced,
         NEW o \in DOMAIN os, os[o].state = "idle", ~Contains(q, o),
         os[o].file \notin d => p[os[o].file] = o,
         Start(o, os, cs), asked \subseteq Files
  PROVE  Right(calls', p, q, n + 1, ops', cg, e, d, x) /\ asked' \subseteq Files
<1>1. /\ os \in Seq(Operations) /\ os[o] \in Operations /\ ~os[o].slot /\ os[o].reports = 0
  <2>1. os \in Seq(Operations)
    BY DEF Right, Typed
  <2> QED BY <2>1 DEF Right, OpsRight
<1> DEFINE r == [os[o] EXCEPT !.state = "downloading", !.slot = TRUE]
           s == [os[o] EXCEPT !.state = "finished", !.slot = TRUE, !.reports = 1]
<1>2. /\ r \in Operations /\ r.file = os[o].file /\ r.state = "downloading" /\ r.slot = TRUE
      /\ r.reports = os[o].reports
  BY <1>1, StartRecord
<1>3. /\ s \in Operations /\ s.file = os[o].file /\ s.state = "finished" /\ s.slot = TRUE
      /\ s.reports = 1
  BY <1>1, StartRecord
<1>4. \/ /\ ops' = [os EXCEPT ![o] = r] /\ calls' = cs /\ asked' = asked
      \/ /\ ops' = [os EXCEPT ![o] = s]
         /\ calls' = Append(cs, [what |-> "done", file |-> os[o].file, force |-> FALSE, op |-> o])
         /\ asked' = asked \ {os[o].file}
  BY DEF Start
<1> HIDE DEF r, s
<1>5. Right(cs, p, q, n + 1, [os EXCEPT ![o] = r], cg, e, d, x)
  BY <1>2, StartKeepsRight
<1>6. ASSUME ops' = [os EXCEPT ![o] = s],
             calls' = Append(cs, [what |-> "done", file |-> os[o].file, force |-> FALSE, op |-> o])
      PROVE  Right(calls', p, q, n + 1, ops', cg, e, d, x)
  <2> DEFINE ms == [os EXCEPT ![o] = r]
  <2>1. o \in DOMAIN ms /\ ms[o] = r /\ ops' = [ms EXCEPT ![o] = s]
    BY <1>1, <1>6
  <2>2. Right(cs, p, q, n + 1, ms, cg, e, d, x)
    BY <1>5
  <2> HIDE DEF ms
  <2>3. MayReport(p, q, ms, d, o)
    BY <1>1, <1>2, <2>1 DEF MayReport
  <2>4. /\ s.file = ms[o].file /\ s.state # "idle" /\ s.slot = ms[o].slot
        /\ s.reports = ms[o].reports + 1
    <3>1. s.file = ms[o].file /\ s.slot = ms[o].slot
      BY <1>2, <1>3, <2>1
    <3>2. ms[o].reports = 0
      BY <1>1, <1>2, <2>1
    <3>3. s.state # "idle"
      BY <1>3
    <3> QED BY <1>3, <3>1, <3>2, <3>3
  <2>5. calls' = Append(cs, [what |-> "done", file |-> ms[o].file, force |-> FALSE, op |-> o])
    BY <1>2, <1>6, <2>1
  <2> QED BY <1>3, <2>1, <2>2, <2>3, <2>4, <2>5, ReportKeepsRight
<1>7. CASE ops' = [os EXCEPT ![o] = r] /\ calls' = cs /\ asked' = asked
  BY <1>5, <1>7
<1>8. CASE /\ ops' = [os EXCEPT ![o] = s]
           /\ calls' = Append(cs, [what |-> "done", file |-> os[o].file, force |-> FALSE, op |-> o])
           /\ asked' = asked \ {os[o].file}
  BY <1>6, <1>8
<1> QED BY <1>4, <1>7, <1>8

\* A load of a file that is loading.
LEMMA LoadKnownKeepsInv ==
  ASSUME Inv, NEW f \in Files, NEW force \in BOOLEAN, NEW o, o = paths[f], o # None,
         calls # <<>>, ~IsEnd(Head(calls)), LoadKnown(f, force, o),
         UNCHANGED <<cancelling, ending, disturbed, extras, loads, cancels>>
  PROVE  Inv'
<1>1. LaneRight /\ Busy /\ Rest
  BY DEF Inv, LaneRight
<1>2. /\ ops \in Seq(Operations) /\ queue \in Seq(Nat) /\ Distinct(queue)
      /\ \A w : Contains(queue, w) => w \in DOMAIN ops
      /\ o \in DOMAIN ops /\ o \in Nat
  BY <1>1, LaneTypes
<1>3. /\ Right(Tail(calls), paths, queue, count, ops, cancelling, ending, disturbed, extras)
      /\ calls' = Tail(calls) /\ UNCHANGED <<paths, count, asked>>
  BY TakenKeepsRight DEF Inv, LoadKnown
<1>4. Rest'
  BY <1>1, <1>3 DEF Rest, LoadKnown
<1>5. CASE force /\ Contains(queue, o)
  <2>1. /\ queue' = <<o>> \o RemoveFirst(queue, o)
        /\ ops' = [ops EXCEPT ![o].force = TRUE]
    BY <1>5 DEF LoadKnown
  <2>2. /\ RemoveFirst(queue, o) \in Seq(Nat) /\ Distinct(RemoveFirst(queue, o))
        /\ \A w : Contains(RemoveFirst(queue, o), w) <=> Contains(queue, w) /\ w # o
    BY <1>2, Removed
  <2>3. /\ queue' \in Seq(Nat) /\ Distinct(queue')
        /\ \A w : Contains(queue', w) <=> Contains(RemoveFirst(queue, o), w) \/ w = o
    BY <1>2, <2>1, <2>2, FirstDistinct
  <2>4. \A w : Contains(queue', w) => Contains(queue, w)
    BY <1>5, <2>2, <2>3
  <2>5. Right(Tail(calls), paths, queue', count, ops, cancelling, ending, disturbed, extras)
    BY <1>3, <2>3, <2>4, QueueKeepsRight
  <2> DEFINE r == [ops[o] EXCEPT !.force = TRUE]
  <2>6. /\ r \in Operations /\ r.file = ops[o].file /\ r.state = ops[o].state
        /\ r.slot = ops[o].slot /\ r.reports = ops[o].reports
    <3>1. ops[o] \in Operations
      BY <1>2
    <3> QED BY <3>1, ForceRecord
  <2>7. ops' = [ops EXCEPT ![o] = r]
    BY <2>1
  <2> HIDE DEF r
  <2>8. Right(calls', paths, queue', count, ops', cancelling, ending, disturbed, extras)
    BY <1>2, <1>3, <2>5, <2>6, <2>7, ForceKeepsRight
  <2>9. Busy'
    <3>1. queue # <<>>
      BY <1>5 DEF Contains
    <3> QED BY <1>1, <1>3, <3>1 DEF Busy
  <2> QED BY <1>3, <1>4, <2>8, <2>9 DEF Inv
<1>6. CASE ~(force /\ Contains(queue, o))
  <2>1. UNCHANGED <<queue, ops>>
    BY <1>6 DEF LoadKnown
  <2> QED BY <1>1, <1>3, <1>4, <2>1 DEF Inv, Busy
<1> QED BY <1>5, <1>6

\* A load of a file that is not loading.
LEMMA LoadNewKeepsInv ==
  ASSUME Inv, NEW f \in Files, NEW force \in BOOLEAN, paths[f] = None,
         calls # <<>>, ~IsEnd(Head(calls)), LoadNew(f, force),
         UNCHANGED <<cancelling, ending, disturbed, extras, loads, cancels>>
  PROVE  Inv'
<1> DEFINE o  == Len(ops) + 1
           ns == Append(ops, NewOperation(f))
           pp == [paths EXCEPT ![f] = o]
           cs == Tail(calls)
<1>1. LaneRight /\ Busy /\ Rest /\ asked \subseteq Files
  BY DEF Inv, LaneRight, Rest
<1>2. /\ Right(cs, pp, queue, count, ns, cancelling, ending, disturbed, extras)
      /\ o \in DOMAIN ns /\ o \notin cancelling /\ ~Contains(queue, o) /\ pp[f] = o /\ o \in Nat
      /\ ns[o].state = "idle" /\ ns[o].file = f
  <2>1. Right(cs, paths, queue, count, ops, cancelling, ending, disturbed, extras)
    BY TakenKeepsRight DEF Inv
  <2> HIDE DEF cs
  <2> QED BY <2>1, NewKeepsRight
<1>3. /\ paths' = pp /\ dropped' = dropped
      /\ \/ /\ count < Limit(force) /\ count' = count + 1 /\ Start(o, ns, cs) /\ queue' = queue
         \/ /\ ~(count < Limit(force)) /\ count' = count /\ asked' = asked
            /\ queue' = (IF force THEN <<o>> \o queue ELSE Append(queue, o))
            /\ ops' = ns /\ calls' = cs
  BY DEF LoadNew
<1>4. Limit(force) \in Nat /\ Limit(force) >= 1 /\ Limit(force) <= Forced
  BY BoundsAssumption DEF Limit
<1>5. queue \in Seq(Nat) /\ Distinct(queue) /\ count \in Int
  BY <1>1, LaneTypes
<1> HIDE DEF o, ns, pp, cs
<1>6. CASE count < Limit(force) /\ count' = count + 1 /\ Start(o, ns, cs) /\ queue' = queue
  <2>1. count < Forced
    BY <1>4, <1>5, <1>6, BoundsAssumption
  <2>2. /\ Right(calls', pp, queue, count + 1, ops', cancelling, ending, disturbed, extras)
        /\ asked' \subseteq Files
    BY <1>1, <1>2, <1>6, <2>1, StartedKeepsRight
  <2>3. Busy'
    BY <1>1, <1>5, <1>6 DEF Busy
  <2>4. Rest'
    BY <1>1, <1>3, <2>2 DEF Rest
  <2> QED BY <1>3, <1>6, <2>2, <2>3, <2>4 DEF Inv
<1>7. CASE /\ ~(count < Limit(force)) /\ count' = count /\ asked' = asked
           /\ queue' = (IF force THEN <<o>> \o queue ELSE Append(queue, o))
           /\ ops' = ns /\ calls' = cs
  <2>1. /\ queue' \in Seq(Nat) /\ Distinct(queue')
        /\ \A w : Contains(queue', w) <=> Contains(queue, w) \/ w = o
    <3>1. CASE force
      BY <1>2, <1>5, <1>7, <3>1, FirstDistinct
    <3>2. CASE ~force
      <4>1. queue' = Append(queue, o)
        BY <1>7, <3>2
      <4>2. queue' \in Seq(Nat)
        BY <1>2, <1>5, <4>1
      <4> QED BY <1>2, <1>5, <4>1, <4>2, AppendedDistinct
    <3> QED BY <3>1, <3>2
  <2>2. Right(cs, pp, queue', count, ns, cancelling, ending, disturbed, extras)
    BY <1>2, <2>1, QueueKeepsRight
  <2>3. Busy'
    BY <1>4, <1>5, <1>7 DEF Busy
  <2>4. Rest'
    BY <1>1, <1>3, <1>7 DEF Rest
  <2> QED BY <1>3, <1>7, <2>2, <2>3, <2>4 DEF Inv
<1> QED BY <1>3, <1>6, <1>7

\* A load finds the operation of its name, or makes one that starts or waits.
LEMMA LoadKeepsInv ==
  ASSUME Inv, Load
  PROVE  Inv'
<1>1. /\ calls # <<>> /\ ~IsEnd(Head(calls))
      /\ UNCHANGED <<cancelling, ending, disturbed, extras, loads, cancels>>
  BY DEF Load, IsEnd
<1>2. Head(calls).file \in Files /\ Head(calls).force \in BOOLEAN
  <2>1. Head(calls) \in Calls
    BY <1>1, LaneTypes DEF Inv, LaneRight
  <2> QED BY <2>1 DEF Calls
<1>3. PICK f \in Files, force \in BOOLEAN :
        IF paths[f] # None THEN LoadKnown(f, force, paths[f]) ELSE LoadNew(f, force)
  BY <1>2 DEF Load
<1>4. CASE paths[f] # None
  BY <1>1, <1>3, <1>4, LoadKnownKeepsInv
<1>5. CASE paths[f] = None
  BY <1>1, <1>3, <1>5, LoadNewKeepsInv
<1> QED BY <1>4, <1>5

\* A cancellation.
LEMMA CancelKeepsInv ==
  ASSUME Inv, Cancel
  PROVE  Inv'
<1> DEFINE f == Head(calls).file
           o == paths[f]
           cs == Tail(calls)
<1>1. /\ LaneRight /\ Busy /\ Rest
      /\ calls # <<>> /\ Head(calls).what = "cancel" /\ ~IsEnd(Head(calls)) /\ calls' = cs
      /\ UNCHANGED <<count, ops, ending, asked, dropped, disturbed, extras, loads, cancels>>
  BY DEF Inv, LaneRight, Cancel, IsEnd, ghosts
<1>2. /\ queue \in Seq(Nat) /\ Distinct(queue) /\ disturbed \subseteq Files
      /\ calls \in Seq(Calls)
  BY <1>1, LaneTypes
<1>3. Right(cs, paths, queue, count, ops, cancelling, ending, disturbed, extras)
  BY <1>1, TakenKeepsRight DEF LaneRight
<1>4. f \in disturbed
  <2>1. 1 \in DOMAIN calls /\ Head(calls) = calls[1]
    BY <1>1, <1>2, HeadTaken
  <2> QED BY <1>1, <2>1 DEF LaneRight, Right, CancelsKnown
<1>5. Rest'
  BY <1>1 DEF Rest
<1>6. CASE o = None
  <2>1. UNCHANGED <<paths, queue, cancelling>>
    BY <1>6 DEF Cancel
  <2> QED BY <1>1, <1>3, <1>5, <2>1 DEF Inv, Busy
<1>7. CASE o # None
  <2>1. /\ paths' = [paths EXCEPT ![f] = None] /\ queue' = RemoveFirst(queue, o)
        /\ cancelling' = cancelling \cup {o}
    BY <1>7 DEF Cancel
  <2>2. /\ queue' \in Seq(Nat) /\ Distinct(queue')
        /\ \A w : Contains(queue', w) <=> Contains(queue, w) /\ w # o
    BY <1>2, <2>1, Removed
  <2> HIDE DEF f, cs
  <2>3. Right(cs, paths, queue', count, ops, cancelling, ending, disturbed, extras)
    BY <1>3, <2>2, QueueKeepsRight
  <2>4. Right(cs, paths', queue', count, ops, cancelling', ending, disturbed, extras)
    BY <1>4, <1>7, <2>1, <2>2, <2>3, CancelKeepsRight
  <2>5. Busy'
    <3> SUFFICES ASSUME queue' # <<>> PROVE count >= 1
      BY <1>1 DEF Busy
    <3>1. Contains(queue', queue'[1])
      <4>1. Len(queue') \in Nat \ {0}
        BY <2>2, HeadTaken
      <4> QED BY <4>1 DEF Contains
    <3>2. Contains(queue, queue'[1])
      BY <2>2, <3>1
    <3>3. queue # <<>>
      BY <3>2 DEF Contains
    <3> QED BY <1>1, <3>3 DEF Busy
  <2> QED BY <1>1, <1>5, <2>4, <2>5 DEF Inv
<1> QED BY <1>6, <1>7

\* An operation whose end was counted.
LEMMA FreedRecord ==
  ASSUME NEW a \in Operations
  PROVE  LET r == [a EXCEPT !.slot = FALSE]
         IN  /\ r \in Operations /\ r.file = a.file /\ r.state = a.state
             /\ r.slot = FALSE /\ r.reports = a.reports
<1>1. ASSUME NEW b \in BOOLEAN
      PROVE  LET r == [a EXCEPT !.slot = b]
             IN  /\ r \in Operations /\ r.file = a.file /\ r.state = a.state
                 /\ r.slot = b /\ r.reports = a.reports
  BY DEF Operations
<1>2. FALSE \in BOOLEAN
  OBVIOUS
<1> QED BY <1>1, <1>2, Zenon

\* An end is counted, and the first that waits starts if there is room.
LEMMA DoneKeepsInv ==
  ASSUME Inv, Done
  PROVE  Inv'
<1> DEFINE c == Head(calls)
           o == c.op
           m == Head(queue)
           cs == Tail(calls)
           pp == [paths EXCEPT ![c.file] = None]
           ns == [ops EXCEPT ![o].slot = FALSE]
           y == IF ops[o].slot THEN extras ELSE extras + 1
           r == [ops[o] EXCEPT !.slot = FALSE]
<1>1. /\ LaneRight /\ Busy /\ Rest /\ asked \subseteq Files
      /\ calls # <<>> /\ IsEnd(Head(calls))
      /\ paths' = pp /\ extras' = y
      /\ UNCHANGED <<cancelling, ending, dropped, disturbed, loads, cancels>>
      /\ IF queue # <<>> /\ count - 1 < Limit(ops[m].force)
         THEN count' = count /\ queue' = Tail(queue) /\ Start(m, ns, cs)
         ELSE count' = count - 1 /\ ops' = ns /\ calls' = cs /\ UNCHANGED <<queue, asked>>
  BY DEF Inv, LaneRight, Rest, Done, IsEnd
<1>2. /\ ops \in Seq(Operations) /\ queue \in Seq(Nat) /\ Distinct(queue) /\ count \in Int
      /\ \A w : Contains(queue, w) => w \in DOMAIN ops /\ ops[w].state = "idle" /\ w \notin cancelling
  BY <1>1, LaneTypes
<1>3. \A b \in BOOLEAN : Limit(b) \in Nat /\ Limit(b) >= 1 /\ Limit(b) <= Forced
  BY BoundsAssumption DEF Limit
<1>4. \A w \in DOMAIN ops : ops[w].force \in BOOLEAN /\ ops[w] \in Operations
  <2>1. \A w \in DOMAIN ops : ops[w] \in Operations
    BY <1>2
  <2> QED BY <2>1 DEF Operations
<1>5. /\ o \in DOMAIN ops /\ c.file = ops[o].file /\ ~Contains(queue, o) /\ c.file \in Files
      /\ \A w : Contains(queue, w) /\ ops[w].file \notin disturbed => ops[w].file # c.file
  BY <1>1, CountKeepsRight DEF LaneRight
<1>6. /\ r \in Operations /\ r.file = ops[o].file /\ r.state = ops[o].state
      /\ ~r.slot /\ r.reports = ops[o].reports
  <2>1. r.slot = FALSE
    BY <1>4, <1>5, FreedRecord
  <2> QED BY <1>4, <1>5, <2>1, FreedRecord
<1>7. ns = [ops EXCEPT ![o] = r]
  BY <1>2, <1>5
<1>8. CASE queue # <<>> /\ count - 1 < Limit(ops[m].force)
  <2>1. count' = count /\ queue' = Tail(queue) /\ Start(m, ns, cs)
    BY <1>1, <1>8
  <2>2. /\ Contains(queue, m) /\ Tail(queue) \in Seq(Nat) /\ Distinct(Tail(queue))
        /\ \A w : Contains(Tail(queue), w) <=> Contains(queue, w) /\ w # m
    <3>1. Len(queue) \in Nat \ {0} /\ Head(queue) = queue[1] /\ Tail(queue) \in Seq(Nat)
      BY <1>2, <1>8, HeadTaken
    <3>2. Contains(queue, m)
      BY <3>1 DEF Contains
    <3> QED BY <1>2, <1>8, <3>1, <3>2, TailDistinct
  <2>3. Right(calls, paths, Tail(queue), count, ops, cancelling, ending, disturbed, extras)
    BY <1>1, <2>2, QueueKeepsRight DEF LaneRight
  <2> DEFINE qq == Tail(queue)
  <2> HIDE DEF qq
  <2>4. Right(cs, pp, qq, count - 1, [ops EXCEPT ![o] = r], cancelling, ending, disturbed, y)
    <3>1. Right(calls, paths, qq, count, ops, cancelling, ending, disturbed, extras)
      BY <2>3 DEF qq
    <3> HIDE DEF r
    <3> QED BY <1>1, <1>6, <3>1, CountKeepsRight
  <2>5. /\ m \in DOMAIN ns /\ ns[m] = ops[m] /\ m # o /\ ops[m].state = "idle"
        /\ DOMAIN ns = DOMAIN ops /\ ~Contains(qq, m)
    <3>1. m \in DOMAIN ops /\ m # o /\ ops[m].state = "idle" /\ ~Contains(qq, m)
      BY <1>2, <1>5, <2>2 DEF qq
    <3> HIDE DEF r, m, o
    <3> QED BY <1>7, <3>1
  <2>6. ns[m].file \notin disturbed => pp[ns[m].file] = m
    <3> SUFFICES ASSUME ops[m].file \notin disturbed PROVE pp[ops[m].file] = m
      BY <2>5
    <3>1. paths[ops[m].file] = m
      BY <1>1, <1>2, <2>2 DEF LaneRight, Right, Named, OnWay
    <3>2. ops[m].file # c.file
      BY <1>5, <2>2
    <3>3. ops[m].file \in Files /\ paths \in [Files -> Nat]
      BY <1>1, <1>2, <2>2, Indices, LaneTypes
    <3> HIDE DEF m, c
    <3> QED BY <3>1, <3>2, <3>3
  <2>7. count - 1 < Forced /\ (count - 1) + 1 = count
    <3>1. ops[m].force \in BOOLEAN
      BY <1>2, <1>4, <2>2
    <3>2. Limit(ops[m].force) \in Nat /\ Limit(ops[m].force) <= Forced /\ Forced \in Nat
      BY <1>3, <3>1, BoundsAssumption
    <3> QED BY <1>2, <1>8, <3>2
  <2>8. Right(cs, pp, qq, count - 1, ns, cancelling, ending, disturbed, y)
    BY <1>7, <2>4
  <2> HIDE DEF ns, pp, cs, y, r, m, o
  <2>9. /\ Right(calls', pp, qq, (count - 1) + 1, ops', cancelling, ending, disturbed, y)
        /\ asked' \subseteq Files
    BY <1>1, <2>1, <2>5, <2>6, <2>7, <2>8, StartedKeepsRight
  <2>10. Busy'
    BY <1>1, <1>8, <2>1 DEF Busy
  <2>11. Rest'
    BY <1>1, <2>9 DEF Rest
  <2> QED BY <1>1, <2>1, <2>7, <2>9, <2>10, <2>11 DEF Inv, qq
<1>9. CASE ~(queue # <<>> /\ count - 1 < Limit(ops[m].force))
  <2>1. count' = count - 1 /\ ops' = ns /\ calls' = cs /\ UNCHANGED <<queue, asked>>
    BY <1>1, <1>9
  <2>2. Right(cs, pp, queue, count - 1, [ops EXCEPT ![o] = r], cancelling, ending, disturbed, y)
    <3> HIDE DEF r
    <3> QED BY <1>1, <1>6, CountKeepsRight DEF LaneRight
  <2>3. Busy'
    <3> SUFFICES ASSUME queue # <<>> PROVE count - 1 >= 1
      BY <2>1 DEF Busy
    <3>1. m \in DOMAIN ops
      <4>1. Len(queue) \in Nat \ {0} /\ Head(queue) = queue[1]
        BY <1>2, HeadTaken
      <4>2. Contains(queue, m)
        BY <4>1 DEF Contains
      <4> QED BY <1>2, <4>2
    <3>2. Limit(ops[m].force) \in Nat /\ Limit(ops[m].force) >= 1
      BY <1>3, <1>4, <3>1
    <3> QED BY <1>2, <1>9, <3>2
  <2>4. Rest'
    BY <1>1, <2>1 DEF Rest
  <2>5. Right(cs, pp, queue, count - 1, ns, cancelling, ending, disturbed, y)
    BY <1>7, <2>2
  <2> HIDE DEF ns, pp, cs, y, r, m, o
  <2> QED BY <1>1, <2>1, <2>3, <2>4, <2>5 DEF Inv
<1> HIDE DEF ns, pp, cs, y, r, m, o
<1> QED BY <1>8, <1>9

\* An operation that has reported its end posts it to the lane.
LEMMA FinishPostsKeepsInv ==
  ASSUME Inv, FinishPosts
  PROVE  Inv'
<1>1. /\ ending # None /\ calls' = Append(calls, DoneCall(ending)) /\ ending' = None
      /\ UNCHANGED <<paths, queue, count, ops, cancelling, disturbed, extras, asked, dropped, loads, cancels>>
  BY DEF FinishPosts, lane, ghosts
<1>2. Right(calls', paths, queue, count, ops, cancelling, None, disturbed, extras)
  BY <1>1, PostKeepsRight DEF Inv, DoneCall
<1> QED BY <1>1, <1>2 DEF Inv, Busy, Rest

\* What an operation reports while it runs.
LEMMA RunningMayReport ==
  ASSUME NEW cs, NEW p, NEW q, NEW n, NEW os, NEW cg, NEW e, NEW d, NEW x,
         Right(cs, p, q, n, os, cg, e, d, x), NEW o \in DOMAIN os,
         os[o].state = "downloading", os[o].reports > 0 => os[o].file \in d
  PROVE  MayReport(p, q, os, d, o)
<1>1. ~Contains(q, o)
  BY DEF Right, Waiting
<1>2. ASSUME os[o].file \notin d
      PROVE  os[o].reports = 0 /\ os[o].slot /\ p[os[o].file] = o
  <2>1. os[o].reports = 0
    BY <1>2, Indices DEF Right, Typed
  <2> QED BY <1>2, <2>1 DEF Right, OpsRight, Named, OnWay
<1> QED BY <1>1, <1>2 DEF MayReport

\* What a report changes besides.
LEMMA ReportedDisturbs ==
  ASSUME Inv, NEW o \in DOMAIN ops, Reported(o)
  PROVE  /\ Right(calls, paths, queue, count, ops, cancelling, ending, disturbed', extras)
         /\ ops[o].reports > 0 => ops[o].file \in disturbed'
         /\ ops[o].file \in disturbed => ops[o].file \in disturbed'
         /\ Rest' /\ UNCHANGED <<paths, queue, count, extras>> /\ Busy'
<1>1. /\ disturbed' = (IF ops[o].reports > 0 THEN disturbed \cup {ops[o].file} ELSE disturbed)
      /\ asked' = asked \ {ops[o].file}
      /\ UNCHANGED <<paths, queue, count, extras, dropped, loads, cancels>>
  BY DEF Reported, lane
<1>2. ops[o].file \in Files /\ disturbed \subseteq Files
  BY LaneTypes, Indices DEF Inv, LaneRight
<1>3. disturbed \subseteq disturbed' /\ disturbed' \subseteq Files
  BY <1>1, <1>2
<1>4. Right(calls, paths, queue, count, ops, cancelling, ending, disturbed', extras)
  BY <1>3, DisturbKeepsRight DEF Inv
<1>5. Rest' /\ Busy'
  BY <1>1 DEF Inv, Rest, Busy
<1> QED BY <1>1, <1>3, <1>4, <1>5

\* An operation that reports.
LEMMA ReportRecord ==
  ASSUME NEW a \in Operations
  PROVE  LET r == [a EXCEPT !.state = "finished", !.reports = @ + 1]
             s == [a EXCEPT !.reports = @ + 1]
             t == [a EXCEPT !.state = "failed", !.reports = @ + 1]
         IN  /\ r \in Operations /\ r.file = a.file /\ r.state # "idle" /\ r.slot = a.slot
             /\ r.reports = a.reports + 1
             /\ s \in Operations /\ s.file = a.file /\ s.state = a.state /\ s.slot = a.slot
             /\ s.reports = a.reports + 1
             /\ t \in Operations /\ t.file = a.file /\ t.state # "idle" /\ t.slot = a.slot
             /\ t.reports = a.reports + 1
<1> DEFINE k == a.reports + 1
<1>1. k \in Nat
  BY DEF Operations
<1> HIDE DEF k
<1>2. LET r == [a EXCEPT !.state = "finished", !.reports = k]
      IN  /\ r \in Operations /\ r.file = a.file /\ r.state = "finished" /\ r.slot = a.slot
          /\ r.reports = k
  BY <1>1 DEF Operations
<1>3. LET s == [a EXCEPT !.reports = k]
      IN  /\ s \in Operations /\ s.file = a.file /\ s.state = a.state /\ s.slot = a.slot
          /\ s.reports = k
  BY <1>1 DEF Operations
<1>4. LET t == [a EXCEPT !.state = "failed", !.reports = k]
      IN  /\ t \in Operations /\ t.file = a.file /\ t.state = "failed" /\ t.slot = a.slot
          /\ t.reports = k
  BY <1>1 DEF Operations
<1>5. "finished" # "idle" /\ "failed" # "idle"
  OBVIOUS
<1> QED BY <1>2, <1>3, <1>4, <1>5 DEF k

\* The operations' own steps.
LEMMA EndsKeepInv ==
  ASSUME Inv, NEW o \in Ids, Ends(o)
  PROVE  Inv'
<1>1. /\ o \in DOMAIN ops /\ ops \in Seq(Operations) /\ ops[o] \in Operations /\ ending = None
  <2>1. ops \in Seq(Operations)
    BY LaneTypes DEF Inv, LaneRight
  <2> QED BY <2>1 DEF Ids, Ends, Finish, Fail, Cancelled
<1>2. CASE Finish(o)
  <2> DEFINE r == [ops[o] EXCEPT !.state = "finished", !.reports = @ + 1]
  <2>1. /\ ops' = [ops EXCEPT ![o] = r] /\ ops[o].state = "downloading"
        /\ ending' = o /\ Reported(o) /\ UNCHANGED <<calls, cancelling>>
    BY <1>1, <1>2 DEF Finish, Operations
  <2>2. /\ Right(calls, paths, queue, count, ops, cancelling, None, disturbed', extras)
        /\ ops[o].reports > 0 => ops[o].file \in disturbed'
        /\ Rest' /\ UNCHANGED <<paths, queue, count, extras>> /\ Busy'
    BY <1>1, <2>1, ReportedDisturbs
  <2>3. MayReport(paths, queue, ops, disturbed', o)
    BY <1>1, <2>1, <2>2, RunningMayReport
  <2>4. /\ r \in Operations /\ r.file = ops[o].file /\ r.state # "idle" /\ r.slot = ops[o].slot
        /\ r.reports = ops[o].reports + 1
    BY <1>1, ReportRecord
  <2> HIDE DEF r
  <2>5. Right(calls, paths, queue, count, [ops EXCEPT ![o] = r], cancelling, o, disturbed', extras)
    BY <1>1, <2>2, <2>3, <2>4, FinishKeepsRight
  <2> QED BY <2>1, <2>2, <2>5 DEF Inv
<1>3. CASE Fail(o)
  <2> DEFINE r == [ops[o] EXCEPT !.reports = @ + 1]
  <2>1. /\ ops' = [ops EXCEPT ![o] = r] /\ ops[o].state = "downloading"
        /\ calls' = Append(calls, DoneCall(o)) /\ Reported(o) /\ UNCHANGED <<ending, cancelling>>
    BY <1>1, <1>3 DEF Fail, Operations
  <2>2. /\ Right(calls, paths, queue, count, ops, cancelling, ending, disturbed', extras)
        /\ ops[o].reports > 0 => ops[o].file \in disturbed'
        /\ Rest' /\ UNCHANGED <<paths, queue, count, extras>> /\ Busy'
    BY <1>1, <2>1, ReportedDisturbs
  <2>3. MayReport(paths, queue, ops, disturbed', o)
    BY <1>1, <2>1, <2>2, RunningMayReport
  <2>4. /\ r \in Operations /\ r.file = ops[o].file /\ r.state = ops[o].state
        /\ r.slot = ops[o].slot /\ r.reports = ops[o].reports + 1
    BY <1>1, ReportRecord
  <2> HIDE DEF r
  <2>5. r.state # "idle"
    BY <2>1, <2>4
  <2>6. Right(calls', paths, queue, count, [ops EXCEPT ![o] = r], cancelling, ending, disturbed', extras)
    BY <1>1, <2>1, <2>2, <2>3, <2>4, <2>5, ReportKeepsRight DEF DoneCall
  <2> QED BY <2>1, <2>2, <2>6 DEF Inv
<1>4. CASE Cancelled(o)
  <2>1. o \in cancelling /\ cancelling' = cancelling \ {o} /\ UNCHANGED ending
    BY <1>4 DEF Cancelled
  <2>2. CASE ops[o].state \in {"failed", "finished"}
    <3>1. UNCHANGED <<calls, paths, queue, count, ops, asked, dropped, disturbed, extras, loads, cancels>>
      BY <1>4, <2>2 DEF Cancelled, lane, ghosts
    <3>2. Right(calls, paths, queue, count, ops, cancelling', ending, disturbed, extras)
      BY <2>1, HeardKeepsRight DEF Inv
    <3> QED BY <2>1, <3>1, <3>2 DEF Inv, Busy, Rest
  <2>3. CASE ops[o].state \notin {"failed", "finished"}
    <3> DEFINE r == [ops[o] EXCEPT !.state = "failed", !.reports = @ + 1]
    <3>1. /\ ops' = [ops EXCEPT ![o] = r]
          /\ calls' = Append(calls, DoneCall(o)) /\ Reported(o)
      BY <1>1, <1>4, <2>3 DEF Cancelled, Operations
    <3>2. /\ Right(calls, paths, queue, count, ops, cancelling, ending, disturbed', extras)
          /\ ops[o].file \in disturbed => ops[o].file \in disturbed'
          /\ Rest' /\ UNCHANGED <<paths, queue, count, extras>> /\ Busy'
      BY <1>1, <3>1, ReportedDisturbs
    <3>3. Right(calls, paths, queue, count, ops, cancelling', ending, disturbed', extras)
      BY <2>1, <3>2, HeardKeepsRight
    <3>4. MayReport(paths, queue, ops, disturbed', o)
      BY <2>1, <3>2 DEF Inv, Right, CancelsKnown, Waiting, MayReport
    <3>5. /\ r \in Operations /\ r.file = ops[o].file /\ r.state # "idle" /\ r.slot = ops[o].slot
          /\ r.reports = ops[o].reports + 1
      BY <1>1, ReportRecord
    <3> HIDE DEF r
    <3>6. Right(calls', paths, queue, count, [ops EXCEPT ![o] = r], cancelling', ending, disturbed', extras)
      BY <1>1, <3>1, <3>3, <3>4, <3>5, ReportKeepsRight DEF DoneCall
    <3> QED BY <2>1, <3>1, <3>2, <3>6 DEF Inv
  <2> QED BY <2>2, <2>3
<1> QED BY <1>2, <1>3, <1>4 DEF Ends

\* Each step of the lane, of its operations and of the user keeps the invariant.
LEMMA NextKeepsInv == Inv /\ [Next]_vars => Inv'
<1> SUFFICES ASSUME Inv, [Next]_vars PROVE Inv'
  OBVIOUS
<1>1. CASE User
  BY <1>1, CallLoadKeepsInv, CallCancelKeepsInv DEF User
<1>2. CASE Loader
  BY <1>2, LoadKeepsInv, CancelKeepsInv, DoneKeepsInv DEF Loader
<1>3. CASE FinishPosts
  BY <1>3, FinishPostsKeepsInv
<1>4. CASE \E o \in Ids : Ends(o)
  BY <1>4, EndsKeepInv
<1>5. CASE UNCHANGED vars
  BY <1>5 DEF vars, Inv, Busy, Rest
<1> QED BY <1>1, <1>2, <1>3, <1>4, <1>5 DEF Next
-----------------------------------------------------------------------------
(* What Inv gives. *)

\* The types, as FileLoader states them.
LEMMA InvTypes == Inv => TypeOK
<1> SUFFICES ASSUME Inv PROVE TypeOK
  OBVIOUS
<1>1. /\ ops \in Seq(Operations) /\ calls \in Seq(Calls) /\ queue \in Seq(Nat) /\ Distinct(queue)
      /\ \A i \in DOMAIN calls : calls[i].op <= Len(ops)
      /\ \A i \in DOMAIN queue : queue[i] \in DOMAIN ops
      /\ paths \in [Files -> Nat] /\ \A f \in Files : paths[f] <= Len(ops)
      /\ count \in Int /\ cancelling \subseteq DOMAIN ops /\ ending \in Nat /\ ending <= Len(ops)
      /\ disturbed \subseteq Files /\ extras \in Nat
  BY DEF Inv, Right, Typed, CallsTyped, NamesTyped, QueueTyped
<1>2. Len(ops) \in Nat
  BY <1>1
<1>3. paths \in [Files -> 0..Len(ops)] /\ ending \in 0..Len(ops)
  <2>1. \A f \in Files : paths[f] \in 0..Len(ops)
    BY <1>1, <1>2
  <2> QED BY <1>1, <1>2, <2>1
<1>4. queue \in Seq(Ids)
  BY <1>1, SeqOfSubset DEF Ids
<1>5. IsInjective(queue)
  BY <1>1 DEF IsInjective, Distinct
<1>6. calls \in Seq([what : {"load", "cancel", "done"}, file : Files, force : BOOLEAN,
                     op : 0..Len(ops)])
  <2> DEFINE C == [what : {"load", "cancel", "done"}, file : Files, force : BOOLEAN, op : 0..Len(ops)]
  <2>1. \A i \in DOMAIN calls : calls[i] \in Calls /\ calls[i].op <= Len(ops)
    BY <1>1
  <2>2. \A i \in DOMAIN calls : calls[i] \in C
    BY <1>2, <2>1 DEF Calls
  <2> HIDE DEF C
  <2>3. calls \in Seq(C)
    BY <1>1, <2>2, SeqOfSubset
  <2> QED BY <2>3 DEF C
<1> QED BY <1>1, <1>3, <1>4, <1>5, <1>6 DEF TypeOK, Inv, Rest, Ids

\* The invariant gives the four parts of LaneSafe.
LEMMA InvIsSafe == Inv => LaneSafe
<1> SUFFICES ASSUME Inv PROVE LaneSafe
  OBVIOUS
<1>1. /\ ops \in Seq(Operations) /\ count \in Int /\ extras \in Nat /\ Forced \in Nat
      /\ count = Cardinality(SlotsOf(ops)) - extras /\ count <= Forced
      /\ OpsRight(ops)
  BY BoundsAssumption DEF Inv, Right, Typed, Counted
<1>2. /\ IsFiniteSet(SlotsOf(ops)) /\ Cardinality(SlotsOf(ops)) \in Nat
      /\ Running \subseteq SlotsOf(ops)
  BY <1>1, SlotsFinite DEF OpsRight, Running, SlotsOf, Ids
<1>3. /\ IsFiniteSet(Running) /\ Cardinality(Running) \in Nat
      /\ Cardinality(Running) <= Cardinality(SlotsOf(ops))
  BY <1>2, FS_Subset, FS_CardinalityType
<1>4. SlotsRespected
  <2>1. Cardinality(Running) <= Forced + extras
    BY <1>1, <1>2, <1>3
  <2>2. ASSUME disturbed = {} PROVE extras = 0 /\ Cardinality(Running) <= count
    <3>1. extras = 0
      BY <2>2 DEF Inv, Right, ExtrasOnlyDisturbed
    <3> QED BY <1>1, <1>2, <1>3, <3>1
  <2> QED BY <2>1, <2>2 DEF SlotsRespected
<1>5. OneWriter
  <2> SUFFICES ASSUME NEW f \in Files \ disturbed
               PROVE  Cardinality({ o \in Running : ops[o].file = f }) <= 1
    BY DEF OneWriter
  <2> DEFINE S == { o \in Running : ops[o].file = f }
  <2>1. \A o \in S : o = paths[f]
    BY DEF Inv, Right, Named, OnWay, Running, Ids
  <2>2. IsFiniteSet(S)
    BY <1>3, FS_Subset
  <2> HIDE DEF S
  <2>3. IsFiniteSet({paths[f]}) /\ Cardinality({paths[f]}) = 1
    BY FS_Singleton
  <2>4. S \subseteq {paths[f]}
    BY <2>1
  <2>5. Cardinality(S) <= 1
    BY <2>3, <2>4, FS_Subset
  <2> QED BY <2>5 DEF S
<1>6. LaneWatched
  <2> SUFFICES ASSUME queue # <<>> PROVE \E o \in Ids : ops[o].slot
    BY DEF LaneWatched
  <2>1. Cardinality(SlotsOf(ops)) # 0
    BY <1>1, <1>2 DEF Inv, Busy
  <2>2. SlotsOf(ops) # {}
    BY <2>1, FS_EmptySet
  <2> QED BY <2>2 DEF SlotsOf, Ids
<1> QED BY <1>4, <1>5, <1>6, InvTypes DEF LaneSafe

\* A lane runs as many downloads as a forced load allows at most, and one more for
\* every end that was counted too often; a file that was not cancelled, and none
\* of whose operations reported twice, has one writer; and while operations wait
\* one holds a slot, so that its end wakes them: loadFile, cancelLoadFile and
\* checkDownloadQueue keep it, whatever the files, whatever the loads ask for and
\* whenever the operations finish, fail or hear of their cancellation.
THEOREM DownloadLaneIsSafe == Spec => []LaneSafe
<1>1. Init => Inv
  BY InitInv
<1>2. Inv /\ [Next]_vars => Inv'
  BY NextKeepsInv
<1>3. Inv => LaneSafe
  BY InvIsSafe
<1> QED BY <1>1, <1>2, <1>3, PTL DEF Spec

-----------------------------------------------------------------------------
(* One download: arithmetic, sets of parts, then what it keeps. *)

\* Multiples of a part's size grow with what they are multiples of, by a part at
\* least.
LEMMA Times ==
  ASSUME NEW c \in Nat \ {0}, NEW i \in Int, NEW j \in Int
  PROVE  /\ c * i \in Int /\ (0 <= i => 0 <= c * i) /\ c * 0 = 0 /\ c * 1 = c
         /\ c * (i + j) = c * i + c * j /\ c * (i - j) = c * i - c * j
         /\ i <= j => c * i <= c * j
         /\ i < j => c * i + c <= c * j
<1>1. c * i \in Int /\ c * j \in Int /\ c * 0 = 0 /\ c * 1 = c
  OBVIOUS
<1>2. c * (i + j) = c * i + c * j
  OBVIOUS
<1>3. c * (i - j) = c * i - c * j
  OBVIOUS
<1>4. 0 <= i => 0 <= c * i
  OBVIOUS
<1>5. \A d \in Nat : 0 <= c * d
  OBVIOUS
<1>6. \A d \in Nat \ {0} : c <= c * d
  OBVIOUS
<1>7. c * (j - i) = c * j - c * i
  OBVIOUS
<1>8. i <= j => c * i <= c * j
  <2> SUFFICES ASSUME i <= j PROVE c * i <= c * j
    OBVIOUS
  <2>1. j - i \in Nat
    OBVIOUS
  <2>2. 0 <= c * (j - i)
    BY <2>1, <1>5
  <2> QED BY <2>2, <1>7, <1>1
<1>9. i < j => c * i + c <= c * j
  <2> SUFFICES ASSUME i < j PROVE c * i + c <= c * j
    OBVIOUS
  <2>1. j - i \in Nat \ {0}
    OBVIOUS
  <2>2. c <= c * (j - i)
    BY <2>1, <1>6
  <2> QED BY <2>2, <1>7, <1>1
<1> QED BY <1>1, <1>2, <1>3, <1>4, <1>8, <1>9

\* What is divisible is a multiple.
LEMMA Divides ==
  ASSUME NEW c \in Nat \ {0}, NEW a \in Nat
  PROVE  /\ 0 % c = 0
         /\ (a % c = 0) <=> \E k \in Nat : a = c * k
<1>1. 0 % c = 0
  OBVIOUS
<1>2. ASSUME a % c = 0 PROVE \E k \in Nat : a = c * k
  <2>1. a = c * (a \div c) + (a % c)
    OBVIOUS
  <2>2. a \div c \in Nat
    OBVIOUS
  <2> QED BY <2>1, <2>2, <1>2
<1>3. ASSUME NEW k \in Nat, a = c * k PROVE a % c = 0
  BY <1>3
<1> QED BY <1>1, <1>2, <1>3

\* Of the numbers from 0 to n a set of at most n misses one, and a first one.
LEMMA FirstMissing ==
  ASSUME NEW n \in Nat, NEW P, IsFiniteSet(P), Cardinality(P) <= n
  PROVE  \E k \in 0..n : k \notin P /\ 0..(k - 1) \subseteq P
<1> DEFINE T == (0..n) \ P
<1>1. T # {}
  <2>1. IsFiniteSet(0..n) /\ Cardinality(0..n) = n + 1
    BY FS_Interval
  <2>2. ASSUME T = {} PROVE FALSE
    <3>1. 0..n \in SUBSET P
      BY <2>2
    <3>2. Cardinality(0..n) <= Cardinality(P) /\ Cardinality(P) \in Nat
      BY <3>1, FS_Subset, FS_CardinalityType
    <3> QED BY <2>1, <3>2
  <2> QED BY <2>2
<1>2. T \in SUBSET Nat
  OBVIOUS
<1>3. PICK k \in T : \A m \in T : k <= m
  BY <1>1, <1>2, LeastOfSome
<1>4. 0..(k - 1) \subseteq P
  BY <1>3
<1> QED BY <1>3, <1>4

\* Every c-th number from a given one on, n of them.
Stride(c, from, n) == { from + c * k : k \in 0..(n - 1) }

\* They are n numbers.
LEMMA Strides ==
  ASSUME NEW c \in Nat \ {0}, NEW from \in Int, NEW n \in Nat
  PROVE  IsFiniteSet(Stride(c, from, n)) /\ Cardinality(Stride(c, from, n)) = n
<1> DEFINE S == { from + c * k : k \in 0..(n - 1) }
           f == [k \in 0..(n - 1) |-> from + c * k]
<1>1. IsFiniteSet(0..(n - 1)) /\ Cardinality(0..(n - 1)) = n
  <2>1. IsFiniteSet(0..(n - 1)) /\ Cardinality(0..(n - 1)) = IF 0 > n - 1 THEN 0 ELSE (n - 1) - 0 + 1
    BY FS_Interval
  <2> QED BY <2>1
<1>2. \A k, j \in 0..(n - 1) : k # j => f[k] # f[j]
  <2> SUFFICES ASSUME NEW k \in 0..(n - 1), NEW j \in 0..(n - 1), k < j PROVE f[k] # f[j]
    OBVIOUS
  <2>1. c * k + c <= c * j /\ c * k \in Int /\ c * j \in Int
    BY Times
  <2> QED BY <2>1
<1>3. f \in Bijection(0..(n - 1), S)
  <2>1. f \in [0..(n - 1) -> S] /\ \A t \in S : \E k \in 0..(n - 1) : f[k] = t
    OBVIOUS
  <2> HIDE DEF f, S
  <2> QED BY <2>1, <1>2 DEF Bijection, Injection, Surjection, IsInjective
<1>4. ExistsBijection(0..(n - 1), S)
  BY <1>3 DEF ExistsBijection
<1>5. S = Stride(c, from, n)
  BY DEF Stride
<1> HIDE DEF S
<1> QED BY <1>1, <1>4, <1>5, FS_Bijection

\* A set has no more elements than what it is an image of.
LEMMA ImageIsNoLarger ==
  ASSUME NEW S, IsFiniteSet(S), NEW f, DOMAIN f = S, f = [x \in S |-> f[x]]
  PROVE  /\ IsFiniteSet({ f[x] : x \in S }) /\ Cardinality({ f[x] : x \in S }) \in Nat
         /\ Cardinality({ f[x] : x \in S }) <= Cardinality(S) /\ Cardinality(S) \in Nat
<1>1. f \in Surjection(S, { f[x] : x \in S })
  BY DEF Surjection
<1>2. /\ IsFiniteSet({ f[x] : x \in S })
      /\ Cardinality({ f[x] : x \in S }) <= Cardinality(S)
  BY <1>1, FS_Surjection
<1> QED BY <1>2, FS_CardinalityType

\* What FileLoadOperation counts is counted as here.
LEMMA SameCount ==
  ASSUME NEW S
  PROVE  Download!Cardinality(S) = Cardinality(S) /\ (Download!IsFiniteSet(S) <=> IsFiniteSet(S))
<1>1. Download!Cardinality(S) = Cardinality(S)
  BY DEF Download!Cardinality, Cardinality
<1>2. Download!IsFiniteSet(S) <=> IsFiniteSet(S)
  BY DEF Download!IsFiniteSet, IsFiniteSet
<1> QED BY <1>1, <1>2

\* u are K of the parts kept aside, which follow one another from an offset on,
\* and nothing follows them.
Followers(u, ds, n, K) ==
  /\ u \subseteq ds /\ IsFiniteSet(u) /\ Cardinality(u) = K
  /\ \A d \in ds : d.offset # n + Chunk * K
  /\ \A d \in u : \E j \in 0..(K - 1) : d.offset = n + Chunk * j
  /\ \A j \in 0..(K - 1) : \E d \in u : d.offset = n + Chunk * j

\* Follow takes the parts that follow: among MaxRequests parts at most there is a
\* first offset that none of them has.
LEMMA FollowTakes ==
  ASSUME NEW n \in Nat, delayed \subseteq Download!Requests,
         IsFiniteSet(delayed), Cardinality(delayed) <= MaxRequests
  PROVE  \E K \in 0..MaxRequests : Followers(Download!Follow(n), delayed, n, K)
<1> DEFINE has(m) == \E d \in delayed : d.offset = m
           first(k) == k \in 0..MaxRequests /\ ~has(n + Chunk * k) /\ \A j \in 0..(k - 1) : has(n + Chunk * j)
           K == CHOOSE k \in 0..MaxRequests :
                  ~has(n + Chunk * k) /\ \A j \in 0..(k - 1) : has(n + Chunk * j)
           at(j) == CHOOSE d \in delayed : d.offset = n + Chunk * j
           u == { at(j) : j \in 0..(K - 1) }
<1>0. Chunk \in Nat \ {0} /\ MaxRequests \in Nat \ {0}
  BY DownloadAssumption DEF Download!SizesAssumption
<1>1. \E k \in 0..MaxRequests : ~has(n + Chunk * k) /\ \A j \in 0..(k - 1) : has(n + Chunk * j)
  <2> DEFINE P == { k \in 0..MaxRequests : has(n + Chunk * k) }
             D == { d \in delayed : \E k \in 0..MaxRequests : d.offset = n + Chunk * k }
             f == [d \in D |-> CHOOSE k \in 0..MaxRequests : d.offset = n + Chunk * k]
  <2>1. D \in SUBSET delayed
    OBVIOUS
  <2>2. IsFiniteSet(D) /\ Cardinality(D) <= Cardinality(delayed) /\ Cardinality(delayed) \in Nat
        /\ Cardinality(D) \in Nat
    BY <2>1, FS_Subset, FS_CardinalityType
  <2>3. ASSUME NEW d \in D, NEW k \in 0..MaxRequests, d.offset = n + Chunk * k
        PROVE  f[d] = k
    <3>1. PICK j : j = f[d] /\ j \in 0..MaxRequests /\ d.offset = n + Chunk * j
      BY <2>3
    <3> HIDE DEF f, D
    <3>0. j \in Int /\ k \in Int
      BY <3>1, <1>0
    <3>2. Chunk * k \in Int /\ Chunk * j \in Int /\ Chunk * k = Chunk * j
      BY <3>0, <3>1, <2>3, <1>0, Times
    <3>3. j < k => Chunk * j + Chunk <= Chunk * k
      BY <3>0, <1>0, Times
    <3>4. k < j => Chunk * k + Chunk <= Chunk * j
      BY <3>0, <1>0, Times
    <3> QED BY <3>1, <3>2, <3>3, <3>4, <1>0
  <2>4. P \in SUBSET { f[d] : d \in D }
    <3> SUFFICES ASSUME NEW k \in P PROVE k \in { f[d] : d \in D }
      OBVIOUS
    <3>1. PICK d \in D : d.offset = n + Chunk * k
      OBVIOUS
    <3>2. f[d] = k
      BY <2>3, <3>1
    <3> HIDE DEF f, D
    <3> QED BY <3>2
  <2>5. /\ IsFiniteSet({ f[d] : d \in D }) /\ Cardinality({ f[d] : d \in D }) \in Nat
        /\ Cardinality({ f[d] : d \in D }) <= Cardinality(D)
    <3>1. DOMAIN f = D /\ f = [d \in D |-> f[d]]
      OBVIOUS
    <3> HIDE DEF f, D
    <3> QED BY <2>2, <3>1, ImageIsNoLarger
  <2>6. IsFiniteSet(P) /\ Cardinality(P) <= MaxRequests
    <3> HIDE DEF f, D, P
    <3>1. IsFiniteSet(P) /\ Cardinality(P) <= Cardinality({ f[d] : d \in D }) /\ Cardinality(P) \in Nat
      BY <2>4, <2>5, FS_Subset, FS_CardinalityType
    <3> QED BY <3>1, <2>2, <2>5, <1>0
  <2>7. PICK k \in 0..MaxRequests : k \notin P /\ 0..(k - 1) \subseteq P
    <3> HIDE DEF P
    <3> QED BY <2>6, <1>0, FirstMissing
  <2>8. ~has(n + Chunk * k) /\ \A j \in 0..(k - 1) : has(n + Chunk * j)
    BY <2>7
  <2> QED BY <2>7, <2>8
<1>2. /\ K \in 0..MaxRequests
      /\ ~has(n + Chunk * K) /\ \A j \in 0..(K - 1) : has(n + Chunk * j)
  BY <1>1
<1>3. Download!Follow(n) = u
  BY DEF Download!Follow
<1> HIDE DEF K
<1>4. \A j \in 0..(K - 1) : at(j) \in delayed /\ at(j).offset = n + Chunk * j
  BY <1>2
<1>5. IsFiniteSet(u) /\ Cardinality(u) = K
  <2> DEFINE g == [j \in 0..(K - 1) |-> at(j)]
  <2>1. IsFiniteSet(0..(K - 1)) /\ Cardinality(0..(K - 1)) = K
    <3>1. IsFiniteSet(0..(K - 1)) /\ Cardinality(0..(K - 1)) = IF 0 > K - 1 THEN 0 ELSE (K - 1) - 0 + 1
      BY <1>2, FS_Interval
    <3> QED BY <3>1, <1>2
  <2>2. \A j, k \in 0..(K - 1) : j # k => g[j] # g[k]
    <3> SUFFICES ASSUME NEW j \in 0..(K - 1), NEW k \in 0..(K - 1), j < k PROVE g[j] # g[k]
      BY <1>2
    <3>1. g[j].offset = n + Chunk * j /\ g[k].offset = n + Chunk * k
      BY <1>4
    <3>2. Chunk * j + Chunk <= Chunk * k /\ Chunk * j \in Int /\ Chunk * k \in Int
      BY <1>0, <1>2, Times
    <3> HIDE DEF g
    <3> QED BY <3>1, <3>2, <1>0
  <2>3. g \in Bijection(0..(K - 1), u)
    <3>1. g \in [0..(K - 1) -> u] /\ \A d \in u : \E j \in 0..(K - 1) : g[j] = d
      OBVIOUS
    <3> HIDE DEF g, u
    <3> QED BY <3>1, <2>2 DEF Bijection, Injection, Surjection, IsInjective
  <2>4. ExistsBijection(0..(K - 1), u)
    BY <2>3 DEF ExistsBijection
  <2> HIDE DEF u
  <2> QED BY <2>1, <2>4, FS_Bijection
<1>6. u \subseteq delayed
  BY <1>4
<1>7. \A d \in delayed : d.offset # n + Chunk * K
  BY <1>2
<1>8. \A d \in u : \E j \in 0..(K - 1) : d.offset = n + Chunk * j
  BY <1>4
<1>9. \A j \in 0..(K - 1) : \E d \in u : d.offset = n + Chunk * j
  BY <1>4
<1> HIDE DEF u
<1>10. Followers(Download!Follow(n), delayed, n, K)
  BY <1>3, <1>5, <1>6, <1>7, <1>8, <1>9 DEF Followers
<1> QED BY <1>2, <1>10

\* New requests, one at each of N offsets, from a given one on.
NewParts(new, from, N, h) ==
  /\ new \subseteq Download!Requests
  /\ \A r \in new : /\ r.here = h /\ (kind.known => r.offset < Size)
                    /\ \E k \in 0..(N - 1) : r.offset = from + Chunk * k
  /\ \A k \in 0..(N - 1) : \E r \in new : r.offset = from + Chunk * k
  /\ \A a, b \in new : a.offset = b.offset => a = b

\* The offsets to ask for are N, from the first on, and as many as there is room
\* for in the file and among the requests.
LEMMA OffsetsToAsk ==
  ASSUME NEW from \in Nat, NEW room \in Nat \ {0}
  PROVE  \E N \in 0..room :
           /\ { n \in { from + Chunk * k : k \in 0..(room - 1) } : n < Size }
                = { from + Chunk * k : k \in 0..(N - 1) }
           /\ from < Size => N >= 1
           /\ \A k \in 0..(N - 1) : from + Chunk * k < Size
<1>0. Chunk \in Nat \ {0} /\ Size \in Nat \ {0}
  BY DownloadAssumption DEF Download!SizesAssumption
<1> DEFINE A == { i \in 1..room : from + Chunk * (i - 1) < Size }
           N == Cardinality(A)
<1>1. \A i \in A : \A j \in 1..i : j \in A
  <2> SUFFICES ASSUME NEW i \in A, NEW j \in 1..i PROVE j \in A
    OBVIOUS
  <2>1. i - 1 \in Int /\ j - 1 \in Int /\ j - 1 <= i - 1 /\ j \in 1..room /\ from + Chunk * (i - 1) < Size
    OBVIOUS
  <2>2. Chunk * (j - 1) <= Chunk * (i - 1) /\ Chunk * (j - 1) \in Int /\ Chunk * (i - 1) \in Int
    BY <2>1, <1>0, Times
  <2>3. from + Chunk * (j - 1) < Size
    BY <2>1, <2>2, <1>0
  <2> QED BY <2>1, <2>3
<1>2. N \in 0..room /\ A = 1..N
  <2>1. A \in SUBSET (1..room)
    OBVIOUS
  <2> HIDE DEF A
  <2> QED BY <1>1, <2>1, FirstPlaces
<1>3. \A k \in 0..(N - 1) : k \in 0..(room - 1) /\ from + Chunk * k < Size
  <2> HIDE DEF N
  <2> SUFFICES ASSUME NEW k \in 0..(N - 1) PROVE k \in 0..(room - 1) /\ from + Chunk * k < Size
    OBVIOUS
  <2>1. k + 1 \in A
    <3> HIDE DEF A
    <3> QED BY <1>2
  <2>2. (k + 1) - 1 = k
    BY <1>2
  <2> QED BY <1>2, <2>1, <2>2
<1>4. ASSUME NEW k \in 0..(room - 1), from + Chunk * k < Size PROVE k \in 0..(N - 1)
  <2>1. (k + 1) - 1 = k /\ k + 1 \in 1..room
    OBVIOUS
  <2>2. k + 1 \in A
    BY <2>1, <1>4
  <2> HIDE DEF A, N
  <2> QED BY <2>2, <1>2
<1>5. from < Size => N >= 1
  <2> SUFFICES ASSUME from < Size PROVE N >= 1
    OBVIOUS
  <2>1. from + Chunk * 0 < Size /\ 0 \in 0..(room - 1)
    BY <1>0, Times
  <2>2. 0 \in 0..(N - 1)
    BY <1>4, <2>1
  <2> HIDE DEF N
  <2> QED BY <2>2, <1>2
<1> HIDE DEF A, N
<1>6. { n \in { from + Chunk * k : k \in 0..(room - 1) } : n < Size }
        = { from + Chunk * k : k \in 0..(N - 1) }
  BY <1>3, <1>4
<1> QED BY <1>2, <1>3, <1>5, <1>6

\* What startDownloadRequest asks for fits, whatever is in flight.
LEMMA Asks ==
  ASSUME NEW rs, NEW ds, NEW from \in Nat,
         rs \subseteq Download!Requests, ds \subseteq Download!Requests,
         IsFiniteSet(rs), IsFiniteSet(ds), Cardinality(rs) + Cardinality(ds) <= MaxRequests,
         kind \in AnyKind, here' \in BOOLEAN,
         Download!StartDownloadRequest(rs, ds, from)
  PROVE  \E N \in Nat : \E new :
           /\ NewParts(new, from, N, here')
           /\ requests' = rs \cup new /\ nextOffset' = from + Chunk * N
           /\ IsFiniteSet(requests') /\ Cardinality(requests') + Cardinality(ds) <= MaxRequests
           /\ ~kind.known => N <= 1
           /\ state' = "downloading" /\ Cardinality(rs) + Cardinality(ds) < MaxRequests =>
                ((~kind.known \/ from < Size) => N >= 1)
<1>0. Chunk \in Nat \ {0} /\ Size \in Nat \ {0} /\ MaxRequests \in Nat \ {0} /\ kind.known \in BOOLEAN
      /\ Cardinality(rs) \in Nat /\ Cardinality(ds) \in Nat
  BY DownloadAssumption, FS_CardinalityType DEF Download!SizesAssumption, AnyKind
<1> DEFINE room == MaxRequests - Cardinality(rs) - Cardinality(ds)
           offsets == IF state' # "downloading" \/ room <= 0 THEN {}
                      ELSE IF kind.known
                        THEN { n \in { from + Chunk * k : k \in 0..(room - 1) } : n < Size }
                        ELSE {from}
           copies(n) == { r.copy : r \in { q \in rs \cup ds : q.offset = n } }
           part(n) == [offset |-> n, here |-> here',
                       copy |-> CHOOSE c \in 0..MaxRequests :
                                  c \notin copies(n) /\ 0..(c - 1) \subseteq copies(n)]
           new == { part(n) : n \in offsets }
<1>1. requests' = rs \cup new /\ nextOffset' = from + Chunk * Cardinality(offsets)
  <2>1. Download!Cardinality(rs) = Cardinality(rs) /\ Download!Cardinality(ds) = Cardinality(ds)
        /\ Download!Cardinality(offsets) = Cardinality(offsets)
    BY SameCount
  <2> QED BY <2>1 DEF Download!StartDownloadRequest
<1>2. ASSUME room > 0, NEW n
      PROVE  part(n).copy \in 0..MaxRequests
  <2> DEFINE Q == { q \in rs \cup ds : q.offset = n }
             f == [q \in Q |-> q.copy]
  <2>1. IsFiniteSet(rs \cup ds) /\ Cardinality(rs \cup ds) <= MaxRequests
    <3>1. /\ IsFiniteSet(rs \cup ds) /\ IsFiniteSet(rs \cap ds)
          /\ Cardinality(rs \cup ds) = Cardinality(rs) + Cardinality(ds) - Cardinality(rs \cap ds)
      BY FS_Union, FS_Intersection
    <3>2. Cardinality(rs \cap ds) \in Nat
      BY <3>1, FS_CardinalityType
    <3> QED BY <3>1, <3>2, <1>0
  <2>2. IsFiniteSet(Q) /\ Cardinality(Q) <= MaxRequests
    <3>1. Q \in SUBSET (rs \cup ds)
      OBVIOUS
    <3>2. IsFiniteSet(Q) /\ Cardinality(Q) <= Cardinality(rs \cup ds) /\ Cardinality(Q) \in Nat
          /\ Cardinality(rs \cup ds) \in Nat
      BY <2>1, <3>1, FS_Subset, FS_CardinalityType
    <3> QED BY <3>2, <2>1, <1>0
  <2>3. /\ IsFiniteSet({ f[q] : q \in Q }) /\ Cardinality({ f[q] : q \in Q }) <= MaxRequests
    <3>1. DOMAIN f = Q /\ f = [q \in Q |-> f[q]]
      OBVIOUS
    <3>2. /\ IsFiniteSet({ f[q] : q \in Q }) /\ Cardinality({ f[q] : q \in Q }) \in Nat
          /\ Cardinality({ f[q] : q \in Q }) <= Cardinality(Q) /\ Cardinality(Q) \in Nat
      <4> HIDE DEF f, Q
      <4> QED BY <2>2, <3>1, ImageIsNoLarger
    <3> HIDE DEF f, Q
    <3> QED BY <3>2, <2>2, <1>0
  <2>4. copies(n) = { f[q] : q \in Q }
    OBVIOUS
  <2>5. \E c \in 0..MaxRequests : c \notin copies(n) /\ 0..(c - 1) \subseteq copies(n)
    <3> HIDE DEF copies, f, Q
    <3> QED BY <2>3, <2>4, <1>0, FirstMissing
  <2> HIDE DEF copies
  <2> QED BY <2>5
<1>3. PICK N \in Nat :
        /\ offsets = { from + Chunk * k : k \in 0..(N - 1) }
        /\ offsets # {} => room > 0
        /\ N <= room \/ N = 0
        /\ ~kind.known => N <= 1
        /\ kind.known => \A n \in offsets : n < Size
        /\ state' = "downloading" /\ room > 0 => ((~kind.known \/ from < Size) => N >= 1)
  <2>1. CASE state' # "downloading" \/ room <= 0
    <3>1. offsets = {} /\ { from + Chunk * k : k \in 0..(0 - 1) } = {}
      BY <2>1
    <3> QED BY <3>1, <2>1, <1>0
  <2>2. CASE state' = "downloading" /\ room > 0 /\ kind.known
    <3>1. room \in Nat \ {0}
      BY <2>2, <1>0
    <3>2. offsets = { n \in { from + Chunk * k : k \in 0..(room - 1) } : n < Size }
      BY <2>2, <3>1
    <3> HIDE DEF room, offsets
    <3>3. PICK N \in 0..room :
           /\ { n \in { from + Chunk * k : k \in 0..(room - 1) } : n < Size }
                = { from + Chunk * k : k \in 0..(N - 1) }
           /\ from < Size => N >= 1
           /\ \A k \in 0..(N - 1) : from + Chunk * k < Size
      BY <3>1, OffsetsToAsk
    <3>4. \A n \in offsets : n < Size
      BY <3>2
    <3>5. offsets = { from + Chunk * k : k \in 0..(N - 1) }
      BY <3>2, <3>3
    <3> QED BY <3>1, <3>3, <3>4, <3>5, <2>2
  <2>3. CASE state' = "downloading" /\ room > 0 /\ ~kind.known
    <3>1. offsets = {from}
      BY <2>3, <1>0
    <3>2. { from + Chunk * k : k \in 0..(1 - 1) } = {from}
      <4>1. 0..(1 - 1) = {0} /\ Chunk * 0 = 0
        BY <1>0, Times
      <4> QED BY <4>1
    <3>3. offsets = { from + Chunk * k : k \in 0..(1 - 1) }
      BY <3>1, <3>2
    <3>4. room \in Nat \ {0}
      BY <2>3, <1>0
    <3>5. \A n \in offsets : kind.known => n < Size
      BY <2>3
    <3> HIDE DEF room, offsets
    <3>6. /\ 1 \in Nat /\ offsets = { from + Chunk * k : k \in 0..(1 - 1) }
          /\ (offsets # {} => room > 0)
          /\ (1 <= room \/ 1 = 0)
          /\ (~kind.known => 1 <= 1)
          /\ (kind.known => \A n \in offsets : n < Size)
          /\ (state' = "downloading" /\ room > 0 => ((~kind.known \/ from < Size) => 1 >= 1))
      BY <3>3, <3>4, <3>5
    <3> QED BY <3>6
  <2>4. room \in Int /\ (room <= 0 \/ room > 0) /\ kind.known \in BOOLEAN
    BY <1>0
  <2> HIDE DEF room, offsets
  <2> QED BY <2>1, <2>2, <2>3, <2>4
<1>4. IsFiniteSet(offsets) /\ Cardinality(offsets) = N
  <2> HIDE DEF offsets
  <2>1. from \in Int
    OBVIOUS
  <2>2. offsets = { from + Chunk * k : k \in 0..(N - 1) }
    BY <1>3
  <2>3. IsFiniteSet(Stride(Chunk, from, N)) /\ Cardinality(Stride(Chunk, from, N)) = N
    BY <2>1, <1>0, Strides
  <2>4. offsets = Stride(Chunk, from, N)
    BY <2>2 DEF Stride
  <2> QED BY <2>3, <2>4
<1>5. NewParts(new, from, N, here')
  <2>1. new \subseteq Download!Requests
    <3> SUFFICES ASSUME NEW n \in offsets PROVE part(n) \in Download!Requests
      OBVIOUS
    <3>1. part(n).copy \in Nat
      <4>1. part(n).copy \in 0..MaxRequests
        <5> HIDE DEF part, offsets
        <5> QED BY <1>2, <1>3
      <4> HIDE DEF part
      <4> QED BY <4>1, <1>0
    <3>2. n \in Nat
      <4> HIDE DEF offsets
      <4>1. PICK k \in 0..(N - 1) : n = from + Chunk * k
        BY <1>3
      <4>2. Chunk * k \in Int /\ 0 <= Chunk * k
        BY <1>0, Times
      <4> QED BY <4>1, <4>2
    <3>3. part(n) = [offset |-> n, here |-> here', copy |-> part(n).copy]
      OBVIOUS
    <3> HIDE DEF part
    <3> QED BY <3>1, <3>2, <3>3 DEF Download!Requests
  <2>0. \A n : part(n).offset = n /\ part(n).here = here'
    OBVIOUS
  <2> HIDE DEF offsets, part
  <2>2. \A r \in new : r.here = here' /\ r.offset \in offsets
    BY <2>0
  <2>3. \A n \in offsets : \E r \in new : r.offset = n
    BY <2>0
  <2>4. \A a, b \in new : a.offset = b.offset => a = b
    BY <2>0
  <2> HIDE DEF offsets, new
  <2>5. \A r \in new : kind.known => r.offset < Size
    BY <2>2, <1>3
  <2>6. \A r \in new : \E k \in 0..(N - 1) : r.offset = from + Chunk * k
    BY <2>2, <1>3
  <2>7. \A k \in 0..(N - 1) : \E r \in new : r.offset = from + Chunk * k
    BY <2>3, <1>3
  <2> QED BY <2>1, <2>2, <2>4, <2>5, <2>6, <2>7 DEF NewParts
<1>6. IsFiniteSet(new) /\ Cardinality(new) <= N /\ Cardinality(new) \in Nat
  <2> DEFINE f == [n \in offsets |-> part(n)]
  <2>1. new = { f[n] : n \in offsets } /\ DOMAIN f = offsets /\ f = [n \in offsets |-> f[n]]
    OBVIOUS
  <2> HIDE DEF f, offsets, new
  <2> QED BY <2>1, <1>4, ImageIsNoLarger
<1>7. IsFiniteSet(requests') /\ Cardinality(requests') + Cardinality(ds) <= MaxRequests
  <2> HIDE DEF new, offsets
  <2>1. /\ IsFiniteSet(rs \cup new) /\ IsFiniteSet(rs \cap new)
        /\ Cardinality(rs \cup new) = Cardinality(rs) + Cardinality(new) - Cardinality(rs \cap new)
    BY <1>6, FS_Union, FS_Intersection
  <2>2. Cardinality(rs \cap new) \in Nat
    BY <2>1, FS_CardinalityType
  <2>3. Cardinality(requests') <= Cardinality(rs) + N /\ Cardinality(requests') \in Int
    BY <2>1, <2>2, <1>1, <1>6, <1>0
  <2>4. N <= room \/ N = 0
    BY <1>3
  <2> QED BY <2>1, <2>3, <2>4, <1>0, <1>1
<1> HIDE DEF new, offsets
<1>8. nextOffset' = from + Chunk * N
  BY <1>1, <1>4
<1>9. state' = "downloading" /\ Cardinality(rs) + Cardinality(ds) < MaxRequests =>
                ((~kind.known \/ from < Size) => N >= 1)
  <2>1. Cardinality(rs) + Cardinality(ds) < MaxRequests => room > 0
    BY <1>0
  <2> HIDE DEF room
  <2> QED BY <2>1, <1>3
<1> HIDE DEF room
<1> QED BY <1>1, <1>3, <1>5, <1>7, <1>8, <1>9

\* The parts a file of known size was asked for and has not got on disk, those in
\* flight (rs) and those kept aside (ds): one at each of J offsets, from n, where
\* the file on disk ends, to next, where more will be asked for.
Train(rs, ds, n, next, J) ==
  /\ rs \cap ds = {}
  /\ \A a, b \in rs \cup ds : a.offset = b.offset => a = b
  /\ next = n + Chunk * J
  /\ \A a \in rs \cup ds : a.offset < Size /\ \E k \in 0..(J - 1) : a.offset = n + Chunk * k
  /\ \A k \in 0..(J - 1) : \E a \in rs \cup ds : a.offset = n + Chunk * k

NoneAt(ds, n) == \A d \in ds : d.offset # n

\* More is asked for where the parts end.
LEMMA TrainGrows ==
  ASSUME NEW rs, NEW ds, NEW n \in Nat, NEW next, NEW J \in Nat, NEW new, NEW N \in Nat, NEW h,
         Train(rs, ds, n, next, J), NewParts(new, next, N, h), kind.known
  PROVE  Train(rs \cup new, ds, n, next + Chunk * N, J + N)
<1>0. Chunk \in Nat \ {0} /\ Size \in Nat \ {0}
  BY DownloadAssumption DEF Download!SizesAssumption
<1>1. next = n + Chunk * J /\ Chunk * J \in Int /\ Chunk * N \in Int /\ Chunk * (J + N) = Chunk * J + Chunk * N
  BY <1>0, Times DEF Train
<1>2. ASSUME NEW k \in 0..(N - 1)
      PROVE  next + Chunk * k = n + Chunk * (J + k) /\ J + k \in 0..(J + N - 1)
  <2>1. Chunk * (J + k) = Chunk * J + Chunk * k /\ Chunk * k \in Int
    BY <1>0, Times
  <2> QED BY <2>1, <1>1
<1>3. \A a \in new : a.offset < Size /\ \E k \in J..(J + N - 1) : a.offset = n + Chunk * k
  <2> SUFFICES ASSUME NEW a \in new
               PROVE  a.offset < Size /\ \E k \in J..(J + N - 1) : a.offset = n + Chunk * k
    OBVIOUS
  <2>1. PICK k \in 0..(N - 1) : a.offset = next + Chunk * k
    BY DEF NewParts
  <2>2. a.offset = n + Chunk * (J + k) /\ J + k \in J..(J + N - 1)
    BY <2>1, <1>2
  <2>3. a.offset < Size
    BY DEF NewParts
  <2> QED BY <2>2, <2>3
<1>4. \A k \in J..(J + N - 1) : \E a \in new : a.offset = n + Chunk * k
  <2> SUFFICES ASSUME NEW k \in J..(J + N - 1) PROVE \E a \in new : a.offset = n + Chunk * k
    OBVIOUS
  <2>1. k - J \in 0..(N - 1) /\ J + (k - J) = k
    OBVIOUS
  <2>2. next + Chunk * (k - J) = n + Chunk * k
    BY <2>1, <1>2
  <2>3. PICK a \in new : a.offset = next + Chunk * (k - J)
    BY <2>1 DEF NewParts
  <2> QED BY <2>2, <2>3
<1>5. ASSUME NEW a \in new, NEW b \in rs \cup ds PROVE a.offset # b.offset
  <2>1. PICK k \in J..(J + N - 1) : a.offset = n + Chunk * k
    BY <1>3
  <2>2. PICK j \in 0..(J - 1) : b.offset = n + Chunk * j
    BY DEF Train
  <2>3. j < k /\ j \in Int /\ k \in Int
    OBVIOUS
  <2>4. Chunk * j + Chunk <= Chunk * k /\ Chunk * j \in Int /\ Chunk * k \in Int
    BY <2>3, <1>0, Times
  <2> QED BY <2>1, <2>2, <2>4, <1>0
<1>6. (rs \cup new) \cap ds = {}
  BY <1>5 DEF Train
<1>7. \A a, b \in (rs \cup new) \cup ds : a.offset = b.offset => a = b
  <2>1. \A a, b \in new : a.offset = b.offset => a = b
    BY DEF NewParts
  <2>2. \A a, b \in rs \cup ds : a.offset = b.offset => a = b
    BY DEF Train
  <2> QED BY <2>1, <2>2, <1>5
<1>8. next + Chunk * N = n + Chunk * (J + N)
  BY <1>1
<1>9. \A a \in (rs \cup new) \cup ds :
        a.offset < Size /\ \E k \in 0..(J + N - 1) : a.offset = n + Chunk * k
  <2>1. \A a \in rs \cup ds : a.offset < Size /\ \E k \in 0..(J - 1) : a.offset = n + Chunk * k
    BY DEF Train
  <2>2. 0..(J - 1) \subseteq 0..(J + N - 1) /\ J..(J + N - 1) \subseteq 0..(J + N - 1)
    OBVIOUS
  <2> QED BY <2>1, <2>2, <1>3
<1>10. \A k \in 0..(J + N - 1) : \E a \in (rs \cup new) \cup ds : a.offset = n + Chunk * k
  <2>1. \A k \in 0..(J - 1) : \E a \in rs \cup ds : a.offset = n + Chunk * k
    BY DEF Train
  <2>2. \A k \in 0..(J + N - 1) : k \in 0..(J - 1) \/ k \in J..(J + N - 1)
    OBVIOUS
  <2> QED BY <2>1, <2>2, <1>4
<1> QED BY <1>6, <1>7, <1>8, <1>9, <1>10 DEF Train

\* The first part and those kept aside that follow it are written.
LEMMA TrainMoves ==
  ASSUME NEW rs, NEW ds, NEW n \in Nat, NEW next, NEW J \in Nat, NEW r \in rs, NEW u, NEW K \in Nat,
         Train(rs, ds, n, next, J), r.offset = n, Followers(u, ds, n + Chunk, K)
  PROVE  /\ n + Chunk * (1 + K) = n + Chunk + Chunk * K /\ J - 1 - K \in Nat
         /\ Train(rs \ {r}, ds \ u, n + Chunk * (1 + K), next, J - 1 - K)
         /\ NoneAt(ds \ u, n + Chunk * (1 + K))
<1> DEFINE m == n + Chunk * (1 + K)
<1>0. Chunk \in Nat \ {0} /\ Size \in Nat \ {0}
  BY DownloadAssumption DEF Download!SizesAssumption
<1>1. m = n + Chunk + Chunk * K /\ Chunk * K \in Int /\ Chunk * J \in Int /\ m \in Int /\ Chunk * 0 = 0
  BY <1>0, Times
<1>2. ASSUME NEW k \in Int PROVE n + Chunk + Chunk * k = n + Chunk * (1 + k) /\ m + Chunk * k = n + Chunk * (1 + K + k)
  <2>1. Chunk * (1 + k) = Chunk * 1 + Chunk * k /\ Chunk * k \in Int /\ Chunk * 1 = Chunk
        /\ Chunk * (1 + K + k) = Chunk * (1 + K) + Chunk * k /\ Chunk * (1 + K) \in Int
    BY <1>0, Times
  <2> QED BY <2>1, <1>0
<1>3. ASSUME NEW j \in Int, NEW k \in Int, n + Chunk * j = n + Chunk * k PROVE j = k
  <2>1. Chunk * j \in Int /\ Chunk * k \in Int
    BY <1>0, Times
  <2>2. j < k => Chunk * j + Chunk <= Chunk * k
    BY <1>0, Times
  <2>3. k < j => Chunk * k + Chunk <= Chunk * j
    BY <1>0, Times
  <2> QED BY <2>1, <2>2, <2>3, <1>0, <1>3
<1> HIDE DEF m
<1>4. \A k \in 0..K : \E a \in {r} \cup u : a.offset = n + Chunk * k
  <2> SUFFICES ASSUME NEW k \in 0..K PROVE \E a \in {r} \cup u : a.offset = n + Chunk * k
    OBVIOUS
  <2>1. CASE k = 0
    BY <2>1, <1>1
  <2>2. CASE k # 0
    <3>1. k - 1 \in 0..(K - 1) /\ k - 1 \in Int /\ 1 + (k - 1) = k
      BY <2>2
    <3>2. PICK d \in u : d.offset = n + Chunk + Chunk * (k - 1)
      BY <3>1 DEF Followers
    <3>3. n + Chunk + Chunk * (k - 1) = n + Chunk * k
      BY <3>1, <1>2
    <3> QED BY <3>2, <3>3
  <2> QED BY <2>1, <2>2
<1>5. \A a \in {r} \cup u : a \in rs \cup ds /\ \E k \in 0..K : a.offset = n + Chunk * k
  <2> SUFFICES ASSUME NEW a \in {r} \cup u
               PROVE  a \in rs \cup ds /\ \E k \in 0..K : a.offset = n + Chunk * k
    OBVIOUS
  <2>1. CASE a = r
    BY <2>1, <1>1
  <2>2. CASE a \in u
    <3>1. PICK j \in 0..(K - 1) : a.offset = n + Chunk + Chunk * j
      BY <2>2 DEF Followers
    <3>2. j \in Int /\ 1 + j \in 0..K
      OBVIOUS
    <3>3. a.offset = n + Chunk * (1 + j)
      BY <3>1, <3>2, <1>2
    <3> QED BY <3>2, <3>3, <2>2 DEF Followers
  <2> QED BY <2>1, <2>2
<1>6. K \in 0..(J - 1)
  <2>1. PICK a \in {r} \cup u : a.offset = n + Chunk * K
    BY <1>4
  <2>2. PICK k \in 0..(J - 1) : a.offset = n + Chunk * k
    BY <1>5 DEF Train
  <2> QED BY <2>1, <2>2, <1>3
<1>7. \A a \in (rs \ {r}) \cup (ds \ u) : a \in rs \cup ds /\ a \notin {r} \cup u
  BY DEF Train, Followers
<1>8. \A a \in (rs \ {r}) \cup (ds \ u) : \E k \in (K + 1)..(J - 1) : a.offset = n + Chunk * k
  <2> SUFFICES ASSUME NEW a \in (rs \ {r}) \cup (ds \ u)
               PROVE  \E k \in (K + 1)..(J - 1) : a.offset = n + Chunk * k
    OBVIOUS
  <2>1. PICK k \in 0..(J - 1) : a.offset = n + Chunk * k
    BY DEF Train
  <2>2. k \notin 0..K
    <3> SUFFICES ASSUME k \in 0..K PROVE FALSE
      OBVIOUS
    <3>1. PICK b \in {r} \cup u : b.offset = n + Chunk * k
      BY <1>4
    <3>2. a = b
      BY <3>1, <2>1, <1>5, <1>7 DEF Train
    <3> QED BY <3>2, <1>7
  <2> QED BY <2>1, <2>2
<1>9. \A k \in 0..(J - 1 - K - 1) : m + Chunk * k = n + Chunk * (1 + K + k) /\ 1 + K + k \in (K + 1)..(J - 1)
  BY <1>2
<1>10. \A a \in (rs \ {r}) \cup (ds \ u) : \E k \in 0..(J - 1 - K - 1) : a.offset = m + Chunk * k
  <2> SUFFICES ASSUME NEW a \in (rs \ {r}) \cup (ds \ u)
               PROVE  \E k \in 0..(J - 1 - K - 1) : a.offset = m + Chunk * k
    OBVIOUS
  <2>1. PICK k \in (K + 1)..(J - 1) : a.offset = n + Chunk * k
    BY <1>8
  <2>2. k - K - 1 \in 0..(J - 1 - K - 1) /\ 1 + K + (k - K - 1) = k
    BY <1>6
  <2>3. m + Chunk * (k - K - 1) = n + Chunk * k
    BY <2>2, <1>9
  <2> QED BY <2>1, <2>2, <2>3
<1>11. \A k \in 0..(J - 1 - K - 1) : \E a \in (rs \ {r}) \cup (ds \ u) : a.offset = m + Chunk * k
  <2> SUFFICES ASSUME NEW k \in 0..(J - 1 - K - 1)
               PROVE  \E a \in (rs \ {r}) \cup (ds \ u) : a.offset = m + Chunk * k
    OBVIOUS
  <2>1. m + Chunk * k = n + Chunk * (1 + K + k) /\ 1 + K + k \in (K + 1)..(J - 1) /\ 1 + K + k \in 0..(J - 1)
    BY <1>9, <1>6
  <2>2. PICK a \in rs \cup ds : a.offset = n + Chunk * (1 + K + k)
    BY <2>1 DEF Train
  <2>3. a \notin {r} \cup u
    <3> SUFFICES ASSUME a \in {r} \cup u PROVE FALSE
      OBVIOUS
    <3>1. PICK j \in 0..K : a.offset = n + Chunk * j
      BY <1>5
    <3>2. j = 1 + K + k
      BY <3>1, <2>2, <1>3
    <3> QED BY <3>1, <3>2
  <2> QED BY <2>1, <2>2, <2>3
<1>12. next = m + Chunk * (J - 1 - K)
  <2>1. J - 1 - K \in Int /\ 1 + K + (J - 1 - K) = J
    BY <1>6
  <2> QED BY <2>1, <1>2 DEF Train
<1>13. /\ (rs \ {r}) \cap (ds \ u) = {}
       /\ \A a, b \in (rs \ {r}) \cup (ds \ u) : a.offset = b.offset => a = b
       /\ \A a \in (rs \ {r}) \cup (ds \ u) : a.offset < Size
  BY DEF Train
<1>14. Train(rs \ {r}, ds \ u, m, next, J - 1 - K)
  BY <1>10, <1>11, <1>12, <1>13 DEF Train
<1>15. NoneAt(ds \ u, m)
  BY <1>1 DEF NoneAt, Followers
<1> QED BY <1>1, <1>6, <1>14, <1>15 DEF m

\* When the first part and those kept aside that follow it reach the end of the
\* file, nothing more is in flight.
LEMMA TrainEnds ==
  ASSUME NEW rs, NEW ds, NEW n \in Nat, NEW next, NEW J \in Nat, NEW r \in rs, NEW u, NEW K \in Nat,
         NEW first \in Nat, Train(rs, ds, n, next, J), r.offset = n, Followers(u, ds, first, K),
         first = n + Chunk \/ first >= Size, first <= n + Chunk, first + Chunk * K >= Size
  PROVE  rs \ {r} = {}
<1> SUFFICES ASSUME NEW q \in rs, q # r PROVE FALSE
  OBVIOUS
<1>0. Chunk \in Nat \ {0} /\ Size \in Nat \ {0} /\ Chunk * 0 = 0
  <2>1. Chunk \in Nat \ {0} /\ Size \in Nat \ {0}
    BY DownloadAssumption DEF Download!SizesAssumption
  <2> QED BY <2>1, Times
<1>1. PICK k \in 0..(J - 1) : q.offset = n + Chunk * k
  BY DEF Train
<1>2. k # 0
  <2>1. q.offset # n
    BY DEF Train
  <2> QED BY <2>1, <1>0, <1>1
<1>3. q.offset < Size
  BY DEF Train
<1>4. Chunk * 1 <= Chunk * k /\ Chunk * 1 = Chunk /\ Chunk * k \in Int
      /\ Chunk * (k - 1) = Chunk * k - Chunk * 1 /\ Chunk * (k - 1) \in Int
  BY <1>0, <1>2, Times
<1>5. first = n + Chunk /\ q.offset = first + Chunk * (k - 1)
  BY <1>0, <1>1, <1>3, <1>4
<1>6. k - 1 < K
  <2>1. K <= k - 1 => Chunk * K <= Chunk * (k - 1)
    BY <1>0, Times
  <2>2. Chunk * K \in Int
    BY <1>0, Times
  <2> QED BY <2>1, <2>2, <1>0, <1>3, <1>4, <1>5
<1>7. PICK d \in u : d.offset = first + Chunk * (k - 1)
  BY <1>2, <1>6 DEF Followers
<1>8. d \in ds /\ d = q
  BY <1>5, <1>7 DEF Followers, Train
<1> QED BY <1>8 DEF Train

\* The units w are those of units with what was written up to end, right or not.
WrittenTo(w, units, end, right) ==
  /\ w \in Seq(BOOLEAN)
  /\ Len(w) = IF end > Len(units) THEN end ELSE Len(units)
  /\ (right /\ \A i \in 1..Len(units) : units[i]) => \A i \in 1..Len(w) : w[i]

\* What is written after the end of what is there, or over it, makes no gap.
LEMMA Written ==
  ASSUME NEW units \in Seq(BOOLEAN), NEW at \in Nat, NEW n \in Nat, NEW right \in BOOLEAN,
         at <= Len(units)
  PROVE  WrittenTo(Download!Write(units, at, n, right), units, at + n, right)
<1> DEFINE m == IF at + n > Len(units) THEN at + n ELSE Len(units)
           w == [i \in 1..m |-> IF i \in (at + 1)..(at + n) THEN right ELSE units[i]]
<1>1. Download!Write(units, at, n, right) = w
  BY DEF Download!Write
<1>2. m \in Nat /\ Len(units) \in Nat
  OBVIOUS
<1>3. \A i \in 1..m : i \in (at + 1)..(at + n) \/ i \in 1..Len(units)
  OBVIOUS
<1>4. \A i \in 1..m : w[i] \in BOOLEAN
  <2> SUFFICES ASSUME NEW i \in 1..m PROVE w[i] \in BOOLEAN
    OBVIOUS
  <2>1. CASE i \in (at + 1)..(at + n)
    <3>1. w[i] = right
      BY <2>1
    <3> QED BY <3>1
  <2>2. CASE i \notin (at + 1)..(at + n)
    <3>1. w[i] = units[i] /\ i \in 1..Len(units)
      BY <2>2, <1>3
    <3> QED BY <3>1
  <2> QED BY <2>1, <2>2
<1>5. w \in Seq(BOOLEAN) /\ Len(w) = m
  <2>1. w = [i \in 1..m |-> w[i]]
    OBVIOUS
  <2> HIDE DEF w, m
  <2> QED BY <2>1, <1>2, <1>4
<1>6. (right /\ \A i \in 1..Len(units) : units[i]) => \A i \in 1..m : w[i]
  BY <1>3
<1> HIDE DEF w
<1> QED BY <1>1, <1>5, <1>6 DEF WrittenTo

-----------------------------------------------------------------------------
(* What a download keeps. *)

\* The file is written while an operation is under way and has not failed.
StreamRight ==
  /\ stream <=> (state = "downloading" /\ failures = 0)
  /\ state = "downloading" => finishes = 0

\* A file that did not move is asked for where it is.
HereRight == stream /\ ~kind.moved => here /\ \A r \in requests : r.here

\* There is room for what is asked for and what is kept aside; a file of known
\* size is not asked for beyond its end, another by one request at a time.
RoomRight ==
  /\ IsFiniteSet(requests) /\ IsFiniteSet(delayed)
  /\ Cardinality(requests) + Cardinality(delayed) <= MaxRequests
  /\ kind.known => \A r \in requests : r.offset < Size
  /\ ~kind.known => \A a, b \in requests : a = b

\* What is on disk is right, but for a secret file that something stopped; if
\* nothing did, the vector is that of its end, and there is more to come.
DiskRight ==
  /\ Len(temp) <= Size
  /\ (kind.secret => ~torn) => \A i \in 1..Len(temp) : temp[i]
  /\ ~torn =>
       /\ kind.secret => (temp = <<>> /\ ivFile = Download!NoIv) \/ (temp # <<>> /\ ivFile = Len(temp))
       /\ Len(temp) = Size => ~kind.known /\ ~kind.ragged
       /\ ~kind.known => Len(temp) % Chunk = 0

\* An operation writes where the file on disk ends, with the vector of that place;
\* or before its end, when something stopped another.
StreamDisk ==
  stream => /\ downloaded <= Len(temp)
            /\ ~torn => downloaded = Len(temp) /\ (kind.secret => iv = downloaded)
            /\ kind.known => downloaded < Size

\* A file of known size that did not move: its parts follow one another from
\* where the file on disk ends; unless its vector was lost with the first part
\* written, when it begins anew but asks for what comes after.
Unbroken ==
  /\ \E J \in Nat \ {0} : Train(requests, delayed, downloaded, nextOffset, J)
  /\ NoneAt(delayed, downloaded)
Severed ==
  /\ torn /\ kind.secret /\ resumed > 0
  /\ NoneAt(requests \cup delayed, downloaded)
InStep == stream /\ kind.known /\ ~kind.moved => Unbroken \/ Severed

\* A file of unknown size is asked for part by part; when it moved, its beginning
\* may be asked for again.
NextPart(r) ==
  \/ r.offset = downloaded /\ nextOffset = downloaded + Chunk
  \/ kind.moved /\ r.offset = 0 /\ downloaded > 0
OneByOne ==
  stream /\ ~kind.known /\ (~torn \/ resumed = 0) =>
    /\ downloaded % Chunk = 0
    /\ requests # {} => delayed = {}
    /\ ~kind.moved => requests # {}
    /\ \A r \in requests : NextPart(r)

\* When an operation finished, nothing is in flight any more.
NothingAfter == finishes > 0 /\ failures = 0 /\ ~kind.moved => requests = {}

FileInv ==
  /\ Download!TypeOK /\ StreamRight /\ HereRight /\ RoomRight /\ DiskRight /\ StreamDisk
  /\ InStep /\ OneByOne /\ Download!FinalIsWhole /\ NothingAfter

\* The constants of a download.
LEMMA Sizes ==
  /\ Size \in Nat \ {0} /\ Chunk \in Nat \ {0} /\ MaxRequests \in Nat \ {0}
  /\ MaxFaults \in Nat /\ MaxStarts \in Nat
BY DownloadAssumption DEF Download!SizesAssumption

\* What FileInv says of types.
LEMMA TypesOfFile ==
  ASSUME Download!TypeOK
  PROVE  /\ kind \in AnyKind
         /\ kind.known \in BOOLEAN /\ kind.secret \in BOOLEAN /\ kind.moved \in BOOLEAN /\ kind.ragged \in BOOLEAN
         /\ temp \in Seq(BOOLEAN) /\ Len(temp) \in Nat /\ ivFile \in Int /\ final \subseteq Seq(BOOLEAN)
         /\ state \in {"none", "downloading", "failed", "finished"}
         /\ downloaded \in Nat /\ downloaded <= Size /\ nextOffset \in Nat /\ here \in BOOLEAN
         /\ iv \in Int /\ stream \in BOOLEAN
         /\ requests \subseteq Download!Requests /\ delayed \subseteq Download!Requests
         /\ finishes \in Nat /\ failures \in Nat /\ resumed \in Nat
         /\ torn \in BOOLEAN /\ limped \in BOOLEAN /\ starts \in Nat /\ faults \in Nat
BY Sizes DEF Download!TypeOK, AnyKind

\* A download begins with nothing on disk.
LEMMA DownloadStarts == Download!Init => FileInv
<1> SUFFICES ASSUME Download!Init PROVE FileInv
  OBVIOUS
<1> USE DEF Download!Init
<1>1. Download!TypeOK
  <2>1. temp \in Seq(BOOLEAN) /\ ivFile \in Int /\ final \subseteq Seq(BOOLEAN)
    BY DEF Download!NoIv
  <2>2. downloaded \in 0..Size /\ nextOffset \in Nat /\ iv \in Int
    BY Sizes
  <2>4. here \in BOOLEAN /\ stream \in BOOLEAN
    OBVIOUS
  <2>3. requests \subseteq Download!Requests /\ delayed \subseteq Download!Requests
    OBVIOUS
  <2> QED BY <2>1, <2>2, <2>3, <2>4 DEF Download!TypeOK
<1>2. RoomRight
  <2>1. IsFiniteSet({}) /\ Cardinality({}) = 0
    BY FS_EmptySet
  <2> QED BY <2>1, Sizes DEF RoomRight
<1>3. DiskRight
  <2>1. temp = <<>> /\ Len(<<>>) = 0 /\ 0 # Size /\ 0 % Chunk = 0
    BY Sizes, Divides
  <2> QED BY <2>1, Sizes DEF DiskRight, Download!NoIv
<1>4. StreamRight /\ HereRight /\ StreamDisk /\ InStep /\ OneByOne /\ NothingAfter
  BY DEF StreamRight, HereRight, StreamDisk, InStep, OneByOne, NothingAfter
<1>5. Download!FinalIsWhole
  BY DEF Download!FinalIsWhole
<1> QED BY <1>1, <1>2, <1>3, <1>4, <1>5 DEF FileInv

\* When nothing of it changes but the counters of the bounds, it stays.
LEMMA DownloadStays ==
  ASSUME FileInv, UNCHANGED <<Download!vars>>
  PROVE  FileInv'
<1>1. UNCHANGED <<kind, temp, ivFile, final, state, downloaded, nextOffset, here, iv, stream, requests,
                  delayed, finishes, failures, resumed, torn, limped, starts, faults>>
  BY DEF Download!vars, Download!disk, Download!parts, Download!past
<1> QED BY <1>1 DEF FileInv, Download!TypeOK, StreamRight, HereRight, RoomRight, DiskRight, StreamDisk,
          InStep, Unbroken, Severed, Train, NoneAt, OneByOne, NextPart, Download!FinalIsWhole, NothingAfter

\* A sequence of Size units that are right is Whole.
LEMMA AllRightIsWhole ==
  ASSUME NEW units \in Seq(BOOLEAN), Len(units) = Size, \A i \in 1..Len(units) : units[i]
  PROVE  units = Download!Whole
<1>1. units = [i \in 1..Size |-> units[i]]
  OBVIOUS
<1>2. \A i \in 1..Size : units[i] \in BOOLEAN
  OBVIOUS
<1>3. \A i \in 1..Size : units[i] = TRUE
  BY <1>2
<1> QED BY <1>1, <1>3 DEF Download!Whole

\* With nothing in flight and nothing kept aside there is room.
LEMMA NothingAsked ==
  IsFiniteSet({}) /\ Cardinality({}) = 0
BY FS_EmptySet

\* Where an operation goes on: where the file on disk ends, if nothing was stopped.
LEMMA KeptUnits ==
  ASSUME Download!TypeOK, DiskRight
  PROVE  /\ Download!Kept(temp) \in Nat /\ Download!Kept(temp) <= Len(temp)
         /\ ~torn => Download!Kept(temp) = Len(temp)
         /\ ~torn /\ kind.secret /\ ivFile = Download!NoIv => Download!Kept(temp) = 0 /\ temp = <<>>
<1>1. Len(temp) \in Nat /\ Size \in Nat \ {0}
  BY Sizes, TypesOfFile
<1>2. ~torn => Download!Kept(temp) = Len(temp)
  BY DEF DiskRight, Download!Kept
<1>3. ~torn /\ kind.secret /\ ivFile = Download!NoIv => temp = <<>>
  BY <1>1 DEF DiskRight, Download!NoIv
<1>4. Len(<<>>) = 0
  OBVIOUS
<1> QED BY <1>1, <1>2, <1>3, <1>4 DEF Download!Kept

\* One request, of a file of unknown size.
LEMMA OnlyOne ==
  ASSUME NEW from \in Nat, NEW N \in Nat, N <= 1, NEW new, NEW h, NewParts(new, from, N, h)
  PROVE  /\ \A a, b \in new : a = b
         /\ \A a \in new : a.offset = from
         /\ N = 1 => new # {}
<1>0. Chunk * 0 = 0 /\ 0..(N - 1) \subseteq {0}
  BY Sizes, Times
<1>1. \A a \in new : a.offset = from
  BY <1>0 DEF NewParts
<1>2. \A a, b \in new : a = b
  BY <1>1 DEF NewParts
<1>3. N = 1 => new # {}
  BY DEF NewParts
<1> QED BY <1>1, <1>2, <1>3

\* An operation starts: it finds the file, or goes on with what is on disk.
LEMMA StartKeeps ==
  ASSUME FileInv, Download!Start
  PROVE  FileInv'
<1> DEFINE there == { f \in final : kind.known => Len(f) = Size }
           from == Download!Kept(temp)
<1>0. Download!TypeOK /\ DiskRight /\ Download!FinalIsWhole
  BY DEF FileInv
<1>1. /\ kind' = kind /\ torn' = torn /\ limped' = limped /\ faults' = faults
      /\ failures' = 0 /\ here' = (~kind.moved) /\ delayed' = {} /\ starts' = starts + 1
  BY Zenon DEF Download!Start
<1>2. CASE there # {}
  <2>1. /\ state' = "finished" /\ finishes' = 1 /\ stream' = FALSE
        /\ final' = there /\ requests' = {}
        /\ downloaded' = 0 /\ nextOffset' = 0 /\ resumed' = 0 /\ iv' = 0
        /\ temp' = temp /\ ivFile' = ivFile
    BY <1>2 DEF Download!Start
  <2>2. there \subseteq final
    OBVIOUS
  <2> HIDE DEF there
  <2>3. Download!TypeOK'
    <3>1. downloaded' \in 0..Size /\ kind.moved \in BOOLEAN /\ starts' \in Nat
      BY <1>0, <1>1, <2>1, Sizes, TypesOfFile
    <3>2. here' \in BOOLEAN
      BY <1>1, <3>1
    <3>3. temp' \in Seq(BOOLEAN) /\ ivFile' \in Int /\ final' \subseteq Seq(BOOLEAN)
      BY <1>0, <2>1, <2>2, TypesOfFile
    <3>4. nextOffset' \in Nat /\ iv' \in Int /\ resumed' \in Nat /\ finishes' \in Nat
      BY <2>1
    <3>5. stream' \in BOOLEAN
      BY <2>1
    <3> QED BY <1>0, <1>1, <2>1, <3>1, <3>2, <3>3, <3>4, <3>5 DEF Download!TypeOK
  <2>4. RoomRight'
    BY <1>1, <2>1, NothingAsked, Sizes DEF RoomRight
  <2>5. DiskRight'
    BY <1>0, <1>1, <2>1 DEF DiskRight
  <2>6. Download!FinalIsWhole'
    <3>1. Download!Whole' = Download!Whole
      BY DEF Download!Whole
    <3> QED BY <1>0, <1>1, <2>1, <2>2, <3>1 DEF Download!FinalIsWhole
  <2>7. StreamRight'
    BY <2>1 DEF StreamRight
  <2>8. HereRight' /\ StreamDisk' /\ InStep' /\ OneByOne' /\ NothingAfter'
    BY <2>1 DEF HereRight, StreamDisk, InStep, OneByOne, NothingAfter
  <2> QED BY <2>3, <2>4, <2>5, <2>6, <2>7, <2>8 DEF FileInv
<1>3. CASE there = {}
  <2>1. /\ downloaded' = (IF kind.secret /\ ivFile = Download!NoIv THEN 0 ELSE from)
        /\ iv' = (IF kind.secret /\ ivFile # Download!NoIv THEN ivFile ELSE 0)
        /\ resumed' = from
    BY <1>3 DEF Download!Start
  <2>2. /\ from \in Nat /\ from <= Len(temp) /\ Len(temp) \in Nat /\ Len(temp) <= Size
        /\ ~torn => from = Len(temp)
        /\ ~torn /\ kind.secret /\ ivFile = Download!NoIv => from = 0
    BY <1>0, KeptUnits, TypesOfFile DEF DiskRight
  <2>3. /\ downloaded' \in Nat /\ downloaded' <= from /\ downloaded' <= Size
        /\ ~torn => downloaded' = from
        /\ downloaded' # from => downloaded' = 0 /\ torn /\ kind.secret /\ from > 0
    <3> HIDE DEF from
    <3> QED BY <2>1, <2>2, Sizes
  <2>4. iv' \in Int /\ iv \in Int
    BY <1>0, <2>1, TypesOfFile
  <2>5. ~torn /\ kind.secret => iv' = downloaded'
    <3> SUFFICES ASSUME ~torn, kind.secret PROVE iv' = downloaded'
      OBVIOUS
    <3>1. CASE ivFile = Download!NoIv
      BY <2>1, <3>1
    <3>2. CASE ivFile # Download!NoIv
      <4>1. ivFile = Len(temp)
        BY <1>0, <3>2 DEF DiskRight
      <4> QED BY <2>1, <2>2, <3>2, <4>1
    <3> QED BY <3>1, <3>2
  <2>6. CASE kind.known /\ downloaded' = Size
    <3>1. /\ state' = "finished" /\ finishes' = 1 /\ stream' = FALSE
          /\ final' = {temp} /\ temp' = <<>> /\ ivFile' = Download!NoIv
          /\ requests' = {} /\ nextOffset' = from
      BY <1>3, <2>6 DEF Download!Start
    <3>2. Len(temp) = Size
      <4> HIDE DEF from
      <4> QED BY <2>2, <2>3, <2>6, Sizes
    <3>3. Download!TypeOK'
      <4>1. temp \in Seq(BOOLEAN) /\ kind \in AnyKind /\ starts' \in Nat
        BY <1>0, <1>1 DEF Download!TypeOK
      <4>2. temp' \in Seq(BOOLEAN) /\ final' \subseteq Seq(BOOLEAN) /\ ivFile' \in Int
        BY <3>1, <4>1 DEF Download!NoIv
      <4>3. downloaded' \in 0..Size /\ nextOffset' \in Nat /\ resumed' \in Nat
        <5> HIDE DEF from
        <5> QED BY <2>1, <2>2, <2>3, <3>1, Sizes
      <4>4. kind.moved \in BOOLEAN
        BY <1>0, TypesOfFile
      <4>5. here' \in BOOLEAN
        BY <1>1, <4>4
      <4> QED BY <1>0, <1>1, <2>4, <3>1, <4>1, <4>2, <4>3, <4>5 DEF Download!TypeOK
    <3>4. RoomRight'
      BY <1>1, <3>1, NothingAsked, Sizes DEF RoomRight
    <3>5. DiskRight'
      <4>1. Len(<<>>) = 0 /\ 0 % Chunk = 0 /\ 0 # Size
        BY Sizes, Divides
      <4> QED BY <1>1, <3>1, <4>1, Sizes DEF DiskRight, Download!NoIv
    <3>6. Download!FinalIsWhole'
      <4>1. Download!Whole' = Download!Whole
        BY DEF Download!Whole
      <4>2. ASSUME torn => kind.known /\ ~kind.secret PROVE temp = Download!Whole
        <5>1. \A i \in 1..Len(temp) : temp[i]
          BY <1>0, <4>2 DEF DiskRight
        <5> QED BY <1>0, <3>2, <5>1, AllRightIsWhole, TypesOfFile
      <4> QED BY <1>1, <3>1, <4>1, <4>2 DEF Download!FinalIsWhole
    <3>7. StreamRight'
      BY <3>1 DEF StreamRight
    <3>8. HereRight' /\ StreamDisk' /\ InStep' /\ OneByOne' /\ NothingAfter'
      BY <3>1 DEF HereRight, StreamDisk, InStep, OneByOne, NothingAfter
    <3> QED BY <3>3, <3>4, <3>5, <3>6, <3>7, <3>8 DEF FileInv
  <2>7. CASE ~(kind.known /\ downloaded' = Size)
    <3>1. /\ state' = "downloading" /\ finishes' = 0 /\ stream' = TRUE
          /\ final' = {} /\ temp' = temp /\ ivFile' = ivFile
          /\ Download!StartDownloadRequest({}, {}, from)
      BY <1>3, <2>7 DEF Download!Start
    <3>2. kind \in AnyKind /\ here' \in BOOLEAN /\ kind.moved \in BOOLEAN /\ kind.known \in BOOLEAN
          /\ starts' \in Nat
      BY <1>0, <1>1, TypesOfFile
    <3>3. PICK N \in Nat : \E new :
           /\ NewParts(new, from, N, here')
           /\ requests' = {} \cup new /\ nextOffset' = from + Chunk * N
           /\ IsFiniteSet(requests') /\ Cardinality(requests') + Cardinality({}) <= MaxRequests
           /\ ~kind.known => N <= 1
           /\ state' = "downloading" /\ Cardinality({}) + Cardinality({}) < MaxRequests =>
                ((~kind.known \/ from < Size) => N >= 1)
      <4> HIDE DEF from
      <4> QED BY <2>2, <3>1, <3>2, NothingAsked, Sizes, Asks
    <3>4. PICK new :
           /\ NewParts(new, from, N, here')
           /\ requests' = {} \cup new /\ nextOffset' = from + Chunk * N
           /\ IsFiniteSet(requests') /\ Cardinality(requests') + Cardinality({}) <= MaxRequests
           /\ ~kind.known => N <= 1
           /\ state' = "downloading" /\ Cardinality({}) + Cardinality({}) < MaxRequests =>
                ((~kind.known \/ from < Size) => N >= 1)
      BY <3>3
    <3>5. requests' = new /\ (~kind.known \/ from < Size => N >= 1)
      BY <3>1, <3>4, NothingAsked, Sizes
    <3> HIDE DEF from
    <3>6. Download!TypeOK'
      <4>1. downloaded' \in 0..Size /\ resumed' \in Nat
        BY <2>1, <2>2, <2>3, Sizes
      <4>2. nextOffset' \in Nat
        <5>1. 0 <= Chunk * N /\ Chunk * N \in Int
          BY Sizes, Times
        <5> QED BY <5>1, <3>4, <2>2
      <4>3. requests' \subseteq Download!Requests
        BY <3>4, <3>5 DEF NewParts
      <4> QED BY <1>0, <1>1, <2>4, <3>1, <3>2, <4>1, <4>2, <4>3 DEF Download!TypeOK
    <3>7. RoomRight'
      <4>1. ~kind.known => \A a, b \in new : a = b
        BY <2>2, <3>4, OnlyOne
      <4>2. kind.known => \A r \in new : r.offset < Size
        BY <3>4 DEF NewParts
      <4> QED BY <1>1, <3>4, <3>5, <4>1, <4>2, NothingAsked DEF RoomRight
    <3>8. DiskRight'
      BY <1>0, <1>1, <3>1 DEF DiskRight
    <3>9. StreamRight'
      BY <1>1, <3>1 DEF StreamRight
    <3>10. HereRight'
      <4>1. \A r \in new : r.here = here'
        BY <3>4 DEF NewParts
      <4>2. ~kind.moved => here'
        BY <1>1
      <4> QED BY <1>1, <3>5, <4>1, <4>2 DEF HereRight
    <3>11. StreamDisk'
      <4>1. downloaded' <= Len(temp) /\ (~torn => downloaded' = Len(temp))
        BY <2>2, <2>3
      <4>2. kind.known => downloaded' < Size
        BY <2>3, <2>7, Sizes
      <4> QED BY <1>1, <2>5, <3>1, <4>1, <4>2 DEF StreamDisk
    <3>12. InStep'
      <4> SUFFICES ASSUME kind.known, ~kind.moved PROVE Unbroken' \/ Severed'
        BY <1>1 DEF InStep
      <4>1. CASE downloaded' = from
        <5>1. Train({}, {}, from, from, 0)
          <6>1. Chunk * 0 = 0
            BY Sizes, Times
          <6> QED BY <2>2, <6>1 DEF Train
        <5>2. Train({} \cup new, {}, from, from + Chunk * N, 0 + N)
          BY <2>2, <3>4, <5>1, TrainGrows
        <5>3. N \in Nat \ {0}
          BY <2>3, <2>7, <3>5, <4>1, Sizes
        <5>4. Train(requests', delayed', downloaded', nextOffset', N)
          <6>1. requests' = {} \cup new /\ 0 + N = N
            BY <3>4
          <6> QED BY <1>1, <3>4, <4>1, <5>2, <6>1
        <5> QED BY <1>1, <5>3, <5>4 DEF Unbroken, NoneAt, Train
      <4>2. CASE downloaded' # from
        <5>1. downloaded' = 0 /\ torn /\ kind.secret /\ from > 0
          BY <2>3, <4>2
        <5>2. NoneAt(requests' \cup delayed', downloaded')
          <6> SUFFICES ASSUME NEW a \in new PROVE a.offset # 0
            BY <1>1, <3>5, <5>1 DEF NoneAt
          <6>1. PICK k \in 0..(N - 1) : a.offset = from + Chunk * k
            BY <3>4 DEF NewParts
          <6>2. 0 <= Chunk * k /\ Chunk * k \in Int
            BY Sizes, Times
          <6> QED BY <2>2, <5>1, <6>1, <6>2
        <5> QED BY <1>1, <2>1, <5>1, <5>2 DEF Severed, NoneAt
      <4> QED BY <4>1, <4>2
    <3>13. OneByOne'
      <4> SUFFICES ASSUME ~kind.known, ~torn \/ from = 0
                   PROVE  /\ downloaded' % Chunk = 0 /\ requests' # {}
                          /\ \A r \in requests' : r.offset = downloaded' /\ nextOffset' = downloaded' + Chunk
        BY <1>1, <2>1 DEF OneByOne, NextPart
      <4>1. downloaded' = from
        BY <2>2, <2>3
      <4>2. downloaded' % Chunk = 0
        <5>1. CASE ~torn
          BY <1>0, <2>2, <4>1, <5>1 DEF DiskRight
        <5>2. CASE from = 0
          BY <4>1, <5>2, Sizes, Divides
        <5> QED BY <5>1, <5>2
      <4>3. N = 1
        BY <3>4, <3>5
      <4>4. new # {} /\ \A a \in new : a.offset = from
        BY <2>2, <3>4, <4>3, OnlyOne
      <4>5. nextOffset' = from + Chunk
        BY <3>4, <4>3, Sizes
      <4> QED BY <3>5, <4>1, <4>2, <4>4, <4>5
    <3>14. Download!FinalIsWhole' /\ NothingAfter'
      BY <3>1 DEF Download!FinalIsWhole, NothingAfter
    <3> QED BY <3>6, <3>7, <3>8, <3>9, <3>10, <3>11, <3>12, <3>13, <3>14 DEF FileInv
  <2> QED BY <2>6, <2>7
<1> QED BY <1>2, <1>3

\* Fewer requests need no more room.
LEMMA RoomForFewer ==
  ASSUME Download!TypeOK, RoomRight, requests' \subseteq requests, delayed' = {} \/ delayed' = delayed,
         kind' = kind
  PROVE  RoomRight'
<1>1. requests' \in SUBSET requests /\ delayed' \in SUBSET delayed
  OBVIOUS
<1>2. /\ IsFiniteSet(requests') /\ Cardinality(requests') <= Cardinality(requests)
      /\ IsFiniteSet(delayed') /\ Cardinality(delayed') <= Cardinality(delayed)
  BY <1>1, FS_Subset DEF RoomRight
<1>3. Cardinality(requests') + Cardinality(delayed') <= MaxRequests
  BY <1>2, FS_CardinalityType, Sizes DEF RoomRight
<1> QED BY <1>1, <1>2, <1>3 DEF RoomRight

\* Nothing is asked of an operation that does not write.
LEMMA WritesNoMore ==
  ASSUME ~stream'
  PROVE  HereRight' /\ StreamDisk' /\ InStep' /\ OneByOne'
BY DEF HereRight, StreamDisk, InStep, OneByOne

\* An operation fails, whatever else the step does to the disk.
LEMMA FailKeeps ==
  ASSUME FileInv, Download!Fail, requests' \subseteq requests,
         kind' = kind, final' = final, state' = state \/ state' = "failed", downloaded' = downloaded,
         nextOffset' = nextOffset, here' = here, finishes' = finishes, resumed' = resumed,
         starts' = starts, limped' = limped, iv' \in Int, faults' \in Nat, torn' \in BOOLEAN, torn => torn',
         temp' \in Seq(BOOLEAN), ivFile' \in Int, DiskRight'
  PROVE  FileInv'
<1>0. Download!TypeOK /\ StreamRight /\ RoomRight /\ Download!FinalIsWhole
  BY DEF FileInv
<1>1. stream' = FALSE /\ delayed' = {} /\ failures' = failures + 1
  BY Zenon DEF Download!Fail
<1>2. failures' \in Nat /\ failures' > 0 /\ stream' \in BOOLEAN
  <2>1. failures \in Nat
    BY <1>0, TypesOfFile
  <2>2. failures' \in Nat /\ failures' > 0
    BY <1>1, <2>1
  <2>3. stream' \in BOOLEAN
    BY <1>1
  <2> QED BY <2>2, <2>3
<1>3. Download!TypeOK'
  BY <1>0, <1>1, <1>2 DEF Download!TypeOK
<1>4. StreamRight'
  BY <1>0, <1>1, <1>2 DEF StreamRight
<1>5. RoomRight'
  BY <1>0, <1>1, RoomForFewer
<1>6. Download!FinalIsWhole'
  <2>1. Download!Whole' = Download!Whole
    BY DEF Download!Whole
  <2> QED BY <1>0, <2>1 DEF Download!FinalIsWhole
<1>7. NothingAfter'
  BY <1>2 DEF NothingAfter
<1>8. HereRight' /\ StreamDisk' /\ InStep' /\ OneByOne'
  BY <1>1, WritesNoMore
<1> QED BY <1>3, <1>4, <1>5, <1>6, <1>7, <1>8 DEF FileInv

\* An operation finishes, with what is on disk under the name of the file.
LEMMA FinishKeeps ==
  ASSUME FileInv, NEW r \in requests, NEW rs \in SUBSET requests, NEW units \in Seq(BOOLEAN),
         Download!Finish(rs, units),
         (state = "downloading" /\ failures = 0 /\ (torn => kind.known /\ ~kind.secret)) =>
           units = Download!Whole,
         (state = "downloading" /\ failures = 0 /\ ~kind.moved) => rs = {},
         kind' = kind, here' = here, resumed' = resumed, starts' = starts, torn' = torn, faults' = faults,
         downloaded' \in 0..Size, iv' \in Int
  PROVE  FileInv'
<1>0. Download!TypeOK /\ StreamRight /\ RoomRight /\ DiskRight /\ Download!FinalIsWhole /\ NothingAfter
  BY DEF FileInv
<1>1. requests' = rs /\ nextOffset' = nextOffset /\ failures' = failures
  BY Zenon DEF Download!Finish
<1>2. Download!Whole' = Download!Whole
  BY DEF Download!Whole
<1>3. CASE state = "downloading"
  <2>1. /\ state' = "finished" /\ stream' = FALSE /\ delayed' = {}
        /\ final' = {units} /\ temp' = <<>> /\ ivFile' = Download!NoIv
        /\ finishes' = finishes + 1
        /\ limped' = (limped \/ failures > 0)
    BY <1>3, Zenon DEF Download!Finish
  <2>2. Download!TypeOK'
    <3>1. temp' \in Seq(BOOLEAN) /\ final' \subseteq Seq(BOOLEAN) /\ ivFile' \in Int
      BY <2>1 DEF Download!NoIv
    <3>2. limped' \in BOOLEAN
      BY <2>1
    <3>3. finishes' \in Nat
      BY <1>0, <2>1, TypesOfFile
    <3>4. stream' \in BOOLEAN
      BY <2>1
    <3> QED BY <1>0, <1>1, <2>1, <3>1, <3>2, <3>3, <3>4 DEF Download!TypeOK
  <2>3. RoomRight'
    BY <1>0, <1>1, <2>1, RoomForFewer
  <2>4. DiskRight'
    <3>1. Len(<<>>) = 0 /\ 0 % Chunk = 0 /\ 0 # Size
      BY Sizes, Divides
    <3> QED BY <2>1, <3>1, Sizes DEF DiskRight, Download!NoIv
  <2>5. Download!FinalIsWhole'
    <3> SUFFICES ASSUME ~limped', torn => kind.known /\ ~kind.secret PROVE units = Download!Whole
      BY <1>2, <2>1 DEF Download!FinalIsWhole
    <3>1. ~(failures > 0)
      BY <2>1, Zenon
    <3>2. failures = 0
      BY <1>0, <3>1, TypesOfFile
    <3> QED BY <1>3, <3>2
  <2>6. NothingAfter'
    BY <1>1, <1>3 DEF NothingAfter
  <2>7. StreamRight'
    BY <2>1 DEF StreamRight
  <2>8. HereRight' /\ StreamDisk' /\ InStep' /\ OneByOne'
    BY <2>1, WritesNoMore
  <2> QED BY <2>2, <2>3, <2>4, <2>5, <2>6, <2>7, <2>8 DEF FileInv
<1>4. CASE state # "downloading"
  <2>1. /\ state' = state /\ stream' = stream /\ delayed' = delayed
        /\ temp' = temp /\ ivFile' = ivFile /\ final' = final
        /\ finishes' = finishes /\ limped' = limped
    BY <1>4 DEF Download!Finish, Download!disk
  <2>2. ~stream'
    BY <1>0, <1>4, <2>1 DEF StreamRight
  <2>3. Download!TypeOK'
    BY <1>0, <1>1, <2>1 DEF Download!TypeOK
  <2>4. RoomRight'
    BY <1>0, <1>1, <2>1, RoomForFewer
  <2>5. DiskRight' /\ Download!FinalIsWhole'
    BY <1>0, <1>2, <2>1 DEF DiskRight, Download!FinalIsWhole
  <2>6. NothingAfter'
    BY <1>0, <1>1, <2>1 DEF NothingAfter
  <2>7. StreamRight'
    BY <1>0, <1>1, <2>1 DEF StreamRight
  <2>8. HereRight' /\ StreamDisk' /\ InStep' /\ OneByOne'
    BY <2>2, WritesNoMore
  <2> QED BY <2>3, <2>4, <2>5, <2>6, <2>7, <2>8 DEF FileInv
<1> QED BY <1>3, <1>4

\* An operation is cancelled.
LEMMA CancelKeeps ==
  ASSUME FileInv, Download!Cancel
  PROVE  FileInv'
<1>0. Download!TypeOK /\ DiskRight
  BY DEF FileInv
<1>1. /\ state' = "failed" /\ Download!Fail /\ requests' \subseteq requests /\ faults' = faults + 1
      /\ kind' = kind /\ temp' = temp /\ ivFile' = ivFile /\ final' = final /\ downloaded' = downloaded
      /\ here' = here /\ iv' = iv /\ nextOffset' = nextOffset /\ finishes' = finishes
      /\ resumed' = resumed /\ starts' = starts /\ torn' = torn /\ limped' = limped
  BY DEF Download!Cancel, Download!Fault, Download!disk, Download!past
<1>2. DiskRight'
  BY <1>0, <1>1 DEF DiskRight
<1>3. iv' \in Int /\ faults' \in Nat /\ torn' \in BOOLEAN /\ temp' \in Seq(BOOLEAN) /\ ivFile' \in Int
  BY <1>0, <1>1, TypesOfFile
<1> QED BY <1>1, <1>2, <1>3, FailKeeps

\* A request fails for good.
LEMMA PartFailsKeeps ==
  ASSUME FileInv, NEW r \in requests, Download!PartFails(r)
  PROVE  FileInv'
<1>0. Download!TypeOK /\ DiskRight
  BY DEF FileInv
<1>1. /\ state' = state /\ Download!Fail /\ requests' \subseteq requests /\ faults' = faults + 1
      /\ kind' = kind /\ temp' = temp /\ ivFile' = ivFile /\ final' = final /\ downloaded' = downloaded
      /\ here' = here /\ iv' = iv /\ nextOffset' = nextOffset /\ finishes' = finishes
      /\ resumed' = resumed /\ starts' = starts /\ torn' = torn /\ limped' = limped
  BY DEF Download!PartFails, Download!Fault, Download!disk, Download!past
<1>2. DiskRight'
  BY <1>0, <1>1 DEF DiskRight
<1>3. iv' \in Int /\ faults' \in Nat /\ torn' \in BOOLEAN /\ temp' \in Seq(BOOLEAN) /\ ivFile' \in Int
  BY <1>0, <1>1, TypesOfFile
<1> QED BY <1>1, <1>2, <1>3, FailKeeps

\* The process stops, or the disk is full, in the middle of a part: what is on
\* disk goes on from where it was, and its vector is that of another place.
LEMMA HalfWrittenOnDisk ==
  ASSUME Download!TypeOK, DiskRight, StreamDisk, stream, downloaded < Size,
         NEW n, Download!HalfWritten(n), kind' = kind
  PROVE  /\ temp' \in Seq(BOOLEAN) /\ torn' = TRUE /\ ivFile' = ivFile /\ final' = final
         /\ DiskRight'
<1>0. torn' = TRUE /\ ivFile' = ivFile /\ final' = final
      /\ n \in 1..Download!PartLen(downloaded)
      /\ temp' = Download!Write(temp, downloaded, n, Download!Right)
  BY DEF Download!HalfWritten
<1>1. /\ temp \in Seq(BOOLEAN) /\ Len(temp) \in Nat /\ downloaded \in Nat /\ downloaded <= Len(temp)
      /\ Len(temp) <= Size /\ Size \in Nat /\ Chunk \in Nat
  BY TypesOfFile, Sizes DEF StreamDisk, DiskRight
<1>2. n \in Nat /\ downloaded + n <= Size
  BY <1>0, <1>1 DEF Download!PartLen, Download!Least
<1>3. Download!Right \in BOOLEAN
  BY DEF Download!Right
<1>4. /\ temp' \in Seq(BOOLEAN)
      /\ Len(temp') = IF downloaded + n > Len(temp) THEN downloaded + n ELSE Len(temp)
      /\ (Download!Right /\ \A i \in 1..Len(temp) : temp[i]) => \A i \in 1..Len(temp') : temp'[i]
  <2> DEFINE right == Download!Right
  <2>1. right \in BOOLEAN
    BY <1>3
  <2> HIDE DEF right
  <2>2. WrittenTo(Download!Write(temp, downloaded, n, right), temp, downloaded + n, right)
    BY <1>1, <1>2, <2>1, Written
  <2>3. temp' = Download!Write(temp, downloaded, n, right)
    BY <1>0 DEF right
  <2>4. WrittenTo(temp', temp, downloaded + n, right)
    BY <2>2, <2>3
  <2>5. /\ temp' \in Seq(BOOLEAN)
        /\ Len(temp') = IF downloaded + n > Len(temp) THEN downloaded + n ELSE Len(temp)
        /\ (right /\ \A i \in 1..Len(temp) : temp[i]) => \A i \in 1..Len(temp') : temp'[i]
    BY <2>4 DEF WrittenTo
  <2> QED BY <2>5 DEF right
<1>5. Len(temp') <= Size
  BY <1>1, <1>2, <1>4
<1>6. ~kind.secret => \A i \in 1..Len(temp') : temp'[i]
  <2> SUFFICES ASSUME ~kind.secret PROVE \A i \in 1..Len(temp') : temp'[i]
    OBVIOUS
  <2>1. Download!Right
    BY DEF Download!Right
  <2>2. \A i \in 1..Len(temp) : temp[i]
    BY DEF DiskRight
  <2> QED BY <1>4, <2>1, <2>2
<1>7. DiskRight'
  BY <1>0, <1>5, <1>6 DEF DiskRight
<1> QED BY <1>0, <1>4, <1>7

\* A write throws.
LEMMA WriteThrowsKeeps ==
  ASSUME FileInv, NEW r \in requests, Download!WriteThrows(r)
  PROVE  FileInv'
<1>0. Download!TypeOK /\ DiskRight /\ StreamDisk
  BY DEF FileInv
<1>1. /\ Download!Fail /\ requests' \subseteq requests /\ faults' = faults + 1 /\ stream
      /\ r.offset = downloaded /\ r.offset < Size /\ \E n \in 1..Size : Download!HalfWritten(n)
      /\ iv' = Download!After(downloaded + Download!PartLen(downloaded))
      /\ kind' = kind /\ state' = state /\ downloaded' = downloaded
      /\ here' = here /\ nextOffset' = nextOffset /\ finishes' = finishes
      /\ resumed' = resumed /\ starts' = starts /\ limped' = limped
  BY DEF Download!WriteThrows, Download!Fault, Download!past
<1>2. PICK n \in 1..Size : Download!HalfWritten(n)
  BY <1>1
<1>3. downloaded < Size
  BY <1>1
<1>4. temp' \in Seq(BOOLEAN) /\ torn' = TRUE /\ ivFile' = ivFile /\ final' = final /\ DiskRight'
  BY <1>0, <1>1, <1>2, <1>3, HalfWrittenOnDisk
<1>5. iv' \in Int
  <2>1. downloaded \in Nat /\ Size \in Nat /\ Chunk \in Nat /\ iv \in Int
    BY <1>0, TypesOfFile, Sizes
  <2>2. Download!PartLen(downloaded) \in Int
    BY <2>1 DEF Download!PartLen, Download!Least
  <2> QED BY <1>1, <2>1, <2>2 DEF Download!After, Download!WrongIv
<1>6. torn' \in BOOLEAN /\ (torn => torn')
  BY <1>4
<1>7. faults' \in Nat /\ ivFile' \in Int
  BY <1>0, <1>1, <1>4, TypesOfFile
<1> QED BY <1>1, <1>4, <1>5, <1>6, <1>7, FailKeeps

\* The process ends.
LEMMA CrashKeeps ==
  ASSUME FileInv, Download!Crash
  PROVE  FileInv'
<1>0. Download!TypeOK /\ StreamRight /\ DiskRight /\ StreamDisk /\ RoomRight /\ Download!FinalIsWhole
  BY DEF FileInv
<1>1. /\ state' = "none" /\ stream' = FALSE /\ downloaded' = 0 /\ nextOffset' = 0 /\ here' = FALSE /\ iv' = 0
      /\ requests' = {} /\ delayed' = {} /\ finishes' = 0 /\ failures' = 0 /\ resumed' = 0
      /\ kind' = kind /\ starts' = starts /\ limped' = limped /\ faults' = faults + 1
  BY Zenon DEF Download!Crash, Download!Fault
<1>2. temp' \in Seq(BOOLEAN) /\ ivFile' \in Int /\ final' = final /\ torn' \in BOOLEAN
      /\ (torn => torn') /\ DiskRight'
  <2>1. CASE UNCHANGED <<Download!disk, torn>>
    <3>1. temp' = temp /\ ivFile' = ivFile /\ final' = final /\ torn' = torn
      BY <2>1 DEF Download!disk
    <3>2. DiskRight'
      BY <1>0, <1>1, <3>1 DEF DiskRight
    <3> QED BY <1>0, <3>1, <3>2, TypesOfFile
  <2>2. CASE /\ stream
             /\ \E r \in requests : r.here /\ r.offset = downloaded
             /\ \E n \in 1..Size : Download!HalfWritten(n)
    <3>1. PICK n \in 1..Size : Download!HalfWritten(n)
      BY <2>2
    <3>2. downloaded < Size
      <4>1. n \in 1..Download!PartLen(downloaded)
        BY <3>1 DEF Download!HalfWritten
      <4>2. downloaded \in Nat /\ Size \in Nat /\ Chunk \in Nat
        BY <1>0, TypesOfFile, Sizes
      <4> QED BY <4>1, <4>2 DEF Download!PartLen, Download!Least
    <3>3. temp' \in Seq(BOOLEAN) /\ torn' = TRUE /\ ivFile' = ivFile /\ final' = final /\ DiskRight'
      BY <1>0, <1>1, <2>2, <3>1, <3>2, HalfWrittenOnDisk
    <3> QED BY <1>0, <3>3, TypesOfFile
  <2>3. CASE /\ stream
             /\ \E r \in requests : r.here /\ r.offset = downloaded
             /\ downloaded + Download!PartLen(downloaded) = Size
             /\ temp' = Download!Write(temp, downloaded, Size - downloaded, Download!Right)
             /\ ivFile' = (IF kind.secret THEN Download!After(Size) ELSE ivFile)
             /\ torn' = TRUE /\ UNCHANGED final
    <3>1. /\ temp \in Seq(BOOLEAN) /\ Len(temp) \in Nat /\ downloaded \in Nat /\ downloaded <= Len(temp)
          /\ Len(temp) <= Size /\ Size \in Nat /\ ivFile \in Int /\ iv \in Int
      BY <1>0, <2>3, TypesOfFile, Sizes DEF StreamDisk, DiskRight
    <3>2. Size - downloaded \in Nat /\ downloaded + (Size - downloaded) = Size
      BY <3>1
    <3> DEFINE right == Download!Right
    <3>3. right \in BOOLEAN
      BY DEF Download!Right
    <3>4. temp' = Download!Write(temp, downloaded, Size - downloaded, right)
      BY <2>3
    <3>5. ~kind.secret => right
      BY DEF Download!Right
    <3> HIDE DEF right
    <3>6. /\ temp' \in Seq(BOOLEAN)
          /\ Len(temp') = IF Size > Len(temp) THEN Size ELSE Len(temp)
          /\ (right /\ \A i \in 1..Len(temp) : temp[i]) => \A i \in 1..Len(temp') : temp'[i]
      <4> DEFINE n == Size - downloaded
      <4>1. n \in Nat /\ downloaded + n = Size
        BY <3>2
      <4>2. temp' = Download!Write(temp, downloaded, n, right)
        BY <3>4
      <4> HIDE DEF n
      <4>3. WrittenTo(Download!Write(temp, downloaded, n, right), temp, downloaded + n, right)
        BY <3>1, <3>3, <4>1, Written
      <4>4. WrittenTo(temp', temp, Size, right)
        BY <4>1, <4>2, <4>3
      <4> QED BY <4>4 DEF WrittenTo
    <3>7. Len(temp') <= Size
      BY <3>1, <3>6
    <3>8. ~kind.secret => \A i \in 1..Len(temp') : temp'[i]
      BY <1>0, <3>5, <3>6 DEF DiskRight
    <3>9. DiskRight'
      BY <1>1, <2>3, <3>7, <3>8 DEF DiskRight
    <3>10. ivFile' \in Int
      BY <2>3, <3>1 DEF Download!After, Download!WrongIv
    <3>11. torn' \in BOOLEAN /\ (torn => torn')
      BY <2>3
    <3> QED BY <2>3, <3>6, <3>9, <3>10, <3>11
  <2> QED BY <2>1, <2>2, <2>3 DEF Download!Crash
<1>3. Download!TypeOK'
  <2>1. downloaded' \in 0..Size /\ nextOffset' \in Nat /\ iv' \in Int /\ finishes' \in Nat /\ failures' \in Nat
        /\ resumed' \in Nat
    BY <1>1, Sizes
  <2>2. here' \in BOOLEAN /\ stream' \in BOOLEAN
    BY <1>1
  <2>3. faults' \in Nat
    BY <1>0, <1>1, TypesOfFile
  <2> QED BY <1>0, <1>1, <1>2, <2>1, <2>2, <2>3 DEF Download!TypeOK
<1>4. RoomRight'
  BY <1>1, NothingAsked, Sizes DEF RoomRight
<1>5. Download!FinalIsWhole'
  <2>1. Download!Whole' = Download!Whole
    BY DEF Download!Whole
  <2> QED BY <1>0, <1>1, <1>2, <2>1 DEF Download!FinalIsWhole
<1>6. NothingAfter' /\ StreamRight'
  BY <1>1 DEF NothingAfter, StreamRight
<1>7. HereRight' /\ StreamDisk' /\ InStep' /\ OneByOne'
  BY <1>1, WritesNoMore
<1> QED BY <1>2, <1>3, <1>4, <1>5, <1>6, <1>7 DEF FileInv

\* An answer leaves room for a request.
LEMMA RoomOfAnswer ==
  ASSUME Download!TypeOK, RoomRight, NEW r \in requests, NEW ds \in SUBSET delayed
  PROVE  /\ IsFiniteSet(requests \ {r}) /\ IsFiniteSet(ds)
         /\ Cardinality(requests \ {r}) + Cardinality(ds) < MaxRequests
         /\ Cardinality(requests \ {r}) \in Nat /\ Cardinality(ds) \in Nat
<1>1. /\ IsFiniteSet(requests \ {r}) /\ Cardinality(requests \ {r}) = Cardinality(requests) - 1
      /\ IsFiniteSet(ds) /\ Cardinality(ds) <= Cardinality(delayed)
  BY FS_RemoveElement, FS_Subset DEF RoomRight
<1>2. /\ Cardinality(requests \ {r}) \in Nat /\ Cardinality(ds) \in Nat
      /\ Cardinality(requests) \in Nat /\ Cardinality(delayed) \in Nat
  BY <1>1, FS_CardinalityType DEF RoomRight
<1> QED BY <1>1, <1>2, Sizes DEF RoomRight

\* An answer that is not the next part is kept aside.
LEMMA PartDelayedKeeps ==
  ASSUME FileInv, NEW r \in requests, Download!PartDelayed(r)
  PROVE  FileInv'
<1>0. /\ Download!TypeOK /\ StreamRight /\ HereRight /\ RoomRight /\ DiskRight /\ StreamDisk
      /\ InStep /\ OneByOne /\ Download!FinalIsWhole /\ NothingAfter
  BY DEF FileInv
<1>1. /\ r.offset # downloaded /\ requests' = requests \ {r}
      /\ delayed' = (IF state = "downloading" THEN delayed \cup {r} ELSE delayed)
      /\ kind' = kind /\ temp' = temp /\ ivFile' = ivFile /\ final' = final /\ state' = state
      /\ downloaded' = downloaded /\ here' = here /\ iv' = iv /\ stream' = stream
      /\ nextOffset' = nextOffset /\ finishes' = finishes /\ failures' = failures
      /\ resumed' = resumed /\ starts' = starts /\ torn' = torn /\ limped' = limped /\ faults' = faults
  BY DEF Download!PartDelayed, Download!disk, Download!past
<1>2. Download!TypeOK'
  BY <1>0, <1>1 DEF Download!TypeOK
<1>3. RoomRight'
  <2>1. /\ IsFiniteSet(requests \ {r}) /\ IsFiniteSet(delayed)
        /\ Cardinality(requests \ {r}) + Cardinality(delayed) < MaxRequests
        /\ Cardinality(requests \ {r}) \in Nat /\ Cardinality(delayed) \in Nat
    BY <1>0, RoomOfAnswer
  <2>2. /\ IsFiniteSet(delayed \cup {r}) /\ Cardinality(delayed \cup {r}) <= Cardinality(delayed) + 1
        /\ Cardinality(delayed \cup {r}) \in Nat
    <3>1. /\ IsFiniteSet(delayed \cup {r})
          /\ Cardinality(delayed \cup {r}) = IF r \in delayed THEN Cardinality(delayed) ELSE Cardinality(delayed) + 1
      BY <2>1, FS_AddElement
    <3> QED BY <2>1, <3>1
  <2>3. IsFiniteSet(delayed') /\ Cardinality(requests') + Cardinality(delayed') <= MaxRequests
    <3>0. requests' = requests \ {r} /\ MaxRequests \in Nat
      BY <1>1, Sizes
    <3>1. CASE delayed' = delayed
      <4>1. IsFiniteSet(delayed') /\ Cardinality(delayed') = Cardinality(delayed)
        BY <2>1, <3>1
      <4> QED BY <2>1, <3>0, <4>1
    <3>2. CASE delayed' = delayed \cup {r}
      <4>1. IsFiniteSet(delayed') /\ Cardinality(delayed') = Cardinality(delayed \cup {r})
        BY <2>2, <3>2
      <4> QED BY <2>1, <2>2, <3>0, <4>1
    <3> QED BY <1>1, <3>1, <3>2
  <2> QED BY <1>0, <1>1, <2>1, <2>3 DEF RoomRight
<1>4. DiskRight' /\ StreamRight'
  BY <1>0, <1>1 DEF DiskRight, StreamRight
<1>5. HereRight' /\ StreamDisk'
  BY <1>0, <1>1 DEF HereRight, StreamDisk
<1>6. InStep'
  <2> SUFFICES ASSUME stream, kind.known, ~kind.moved PROVE Unbroken' \/ Severed'
    BY <1>1 DEF InStep
  <2>1. delayed' = delayed \cup {r}
    BY <1>0, <1>1 DEF StreamRight
  <2>2. requests' \cup delayed' = requests \cup delayed
    BY <1>1, <2>1
  <2>3. CASE Unbroken
    <3>1. PICK J \in Nat \ {0} : Train(requests, delayed, downloaded, nextOffset, J)
      BY <2>3 DEF Unbroken
    <3>2. requests' \cap delayed' = {}
      BY <1>1, <2>1, <3>1 DEF Train
    <3>3. Train(requests', delayed', downloaded', nextOffset', J)
      BY <1>1, <2>2, <3>1, <3>2 DEF Train
    <3>4. NoneAt(delayed', downloaded')
      BY <1>1, <2>1, <2>3 DEF Unbroken, NoneAt
    <3> QED BY <3>3, <3>4 DEF Unbroken, Train, NoneAt
  <2>4. CASE Severed
    BY <1>1, <2>2, <2>4 DEF Severed, NoneAt
  <2> QED BY <1>0, <2>3, <2>4 DEF InStep
<1>7. OneByOne'
  <2> SUFFICES ASSUME stream, ~kind.known, ~torn \/ resumed = 0
               PROVE  downloaded % Chunk = 0 /\ requests' = {} /\ kind.moved
    BY <1>1 DEF OneByOne
  <2>1. downloaded % Chunk = 0 /\ NextPart(r)
    BY <1>0 DEF OneByOne
  <2>2. kind.moved
    BY <1>1, <2>1 DEF NextPart
  <2>3. requests' = {}
    BY <1>0, <1>1 DEF RoomRight
  <2> QED BY <2>1, <2>2, <2>3
<1>8. Download!FinalIsWhole'
  <2>1. Download!Whole' = Download!Whole
    BY DEF Download!Whole
  <2> QED BY <1>0, <1>1, <2>1 DEF Download!FinalIsWhole
<1>9. NothingAfter'
  BY <1>0, <1>1 DEF NothingAfter
<1> QED BY <1>2, <1>3, <1>4, <1>5, <1>6, <1>7, <1>8, <1>9 DEF FileInv

\* The file is elsewhere: it is asked for there, from its beginning.
LEMMA MigratedKeeps ==
  ASSUME FileInv, NEW r \in requests, Download!Migrated(r)
  PROVE  FileInv'
<1>0. /\ Download!TypeOK /\ StreamRight /\ HereRight /\ RoomRight /\ DiskRight /\ StreamDisk
      /\ InStep /\ OneByOne /\ Download!FinalIsWhole /\ NothingAfter
  BY DEF FileInv
<1>1. /\ ~r.here /\ here' = TRUE /\ Download!StartDownloadRequest(requests \ {r}, delayed, 0)
      /\ kind' = kind /\ temp' = temp /\ ivFile' = ivFile /\ final' = final /\ state' = state
      /\ downloaded' = downloaded /\ iv' = iv /\ stream' = stream /\ delayed' = delayed
      /\ finishes' = finishes /\ failures' = failures
      /\ resumed' = resumed /\ starts' = starts /\ torn' = torn /\ limped' = limped /\ faults' = faults
  BY DEF Download!Migrated, Download!disk, Download!past
<1>2. /\ IsFiniteSet(requests \ {r}) /\ IsFiniteSet(delayed)
      /\ Cardinality(requests \ {r}) + Cardinality(delayed) < MaxRequests
      /\ Cardinality(requests \ {r}) \in Nat /\ Cardinality(delayed) \in Nat
  BY <1>0, RoomOfAnswer
<1> DEFINE rs == requests \ {r}
<1>3. PICK N \in Nat : \E new :
           /\ NewParts(new, 0, N, here')
           /\ requests' = rs \cup new /\ nextOffset' = 0 + Chunk * N
           /\ IsFiniteSet(requests') /\ Cardinality(requests') + Cardinality(delayed) <= MaxRequests
           /\ ~kind.known => N <= 1
           /\ state' = "downloading" /\ Cardinality(rs) + Cardinality(delayed) < MaxRequests =>
                ((~kind.known \/ 0 < Size) => N >= 1)
  <2>1. rs \subseteq Download!Requests /\ delayed \subseteq Download!Requests /\ kind \in AnyKind
        /\ here' \in BOOLEAN
    BY <1>0, <1>1, TypesOfFile
  <2>2. IsFiniteSet(rs) /\ Cardinality(rs) + Cardinality(delayed) <= MaxRequests
        /\ Download!StartDownloadRequest(rs, delayed, 0)
    BY <1>1, <1>2, Sizes
  <2> HIDE DEF rs
  <2> QED BY <1>2, <2>1, <2>2, Asks
<1>4. PICK new :
           /\ NewParts(new, 0, N, here')
           /\ requests' = rs \cup new /\ nextOffset' = 0 + Chunk * N
           /\ IsFiniteSet(requests') /\ Cardinality(requests') + Cardinality(delayed) <= MaxRequests
           /\ ~kind.known => N <= 1
  BY <1>3
<1>5. Download!TypeOK'
  <2>1. requests' \subseteq Download!Requests
    BY <1>0, <1>4 DEF NewParts, Download!TypeOK
  <2>2. nextOffset' \in Nat
    <3>1. Chunk * N \in Int /\ 0 <= Chunk * N
      BY Sizes, Times
    <3> QED BY <1>4, <3>1
  <2>3. here' \in BOOLEAN
    BY <1>1
  <2> QED BY <1>0, <1>1, <2>1, <2>2, <2>3 DEF Download!TypeOK
<1>6. ~kind.known => rs = {} /\ \A a, b \in new : a = b
  <2>1. ~kind.known => \A a, b \in new : a = b
    BY <1>4, OnlyOne
  <2> QED BY <1>0, <2>1 DEF RoomRight
<1>7. RoomRight'
  <2>1. kind.known => \A a \in requests' : a.offset < Size
    BY <1>0, <1>4 DEF RoomRight, NewParts
  <2>2. ~kind.known => \A a, b \in requests' : a = b
    BY <1>4, <1>6
  <2> QED BY <1>1, <1>2, <1>4, <2>1, <2>2 DEF RoomRight
<1>8. DiskRight' /\ StreamRight' /\ StreamDisk'
  BY <1>0, <1>1 DEF DiskRight, StreamRight, StreamDisk
<1>9. stream => kind.moved
  BY <1>0, <1>1 DEF HereRight
<1>10. HereRight' /\ InStep'
  BY <1>1, <1>9 DEF HereRight, InStep
<1>11. OneByOne'
  <2> SUFFICES ASSUME stream, ~kind.known, ~torn \/ resumed = 0
               PROVE  /\ downloaded % Chunk = 0 /\ delayed = {}
                      /\ \A a \in new : NextPart(a)'
    BY <1>1, <1>4, <1>6, <1>9 DEF OneByOne
  <2>1. downloaded % Chunk = 0 /\ delayed = {}
    BY <1>0 DEF OneByOne
  <2>2. \A a \in new : a.offset = 0 /\ nextOffset' = Chunk
    <3> SUFFICES ASSUME NEW a \in new PROVE a.offset = 0 /\ nextOffset' = Chunk
      OBVIOUS
    <3>1. a.offset = 0
      BY <1>4, OnlyOne
    <3>2. N = 1
      BY <1>4 DEF NewParts
    <3> QED BY <1>4, <3>1, <3>2, Sizes
  <2>3. downloaded \in Nat
    BY <1>0, TypesOfFile
  <2>4. downloaded = 0 \/ downloaded > 0
    BY <2>3
  <2> QED BY <1>1, <1>9, <2>1, <2>2, <2>3, <2>4, Sizes DEF NextPart
<1>12. Download!FinalIsWhole'
  <2>1. Download!Whole' = Download!Whole
    BY DEF Download!Whole
  <2> QED BY <1>0, <1>1, <2>1 DEF Download!FinalIsWhole
<1>13. NothingAfter'
  BY <1>0, <1>1 DEF NothingAfter
<1> QED BY <1>5, <1>7, <1>8, <1>10, <1>11, <1>12, <1>13 DEF FileInv

\* The answer to a part that starts where the file ends.
LEMMA PartBeyondKeeps ==
  ASSUME FileInv, NEW r \in requests, Download!PartBeyond(r)
  PROVE  FileInv'
<1>0. /\ Download!TypeOK /\ StreamRight /\ RoomRight /\ DiskRight /\ StreamDisk /\ OneByOne
  BY DEF FileInv
<1>1. /\ r.offset >= Size
      /\ kind' = kind /\ downloaded' = downloaded /\ here' = here /\ iv' = iv
      /\ resumed' = resumed /\ starts' = starts /\ torn' = torn /\ faults' = faults
  BY DEF Download!PartBeyond, Download!past
<1>2. /\ temp \in Seq(BOOLEAN) /\ Len(temp) \in Nat /\ Len(temp) <= Size /\ Size \in Nat \ {0}
      /\ downloaded \in 0..Size /\ iv \in Int /\ r.offset \in Nat
  <2>1. r.offset \in Nat
    BY <1>0, TypesOfFile DEF Download!Requests
  <2> QED BY <1>0, <2>1, TypesOfFile, Sizes DEF DiskRight
<1>3. ~kind.known /\ requests \ {r} = {}
  <2>1. ~kind.known
    BY <1>0, <1>1, <1>2 DEF RoomRight
  <2> QED BY <1>0, <2>1 DEF RoomRight
<1>4. CASE \/ r.offset = downloaded /\ Download!Finish(requests \ {r}, temp)
           \/ Download!FullParts(downloaded) /\ Download!Finish(requests \ {r}, temp)
  <2>1. Download!Finish(requests \ {r}, temp) /\ requests \ {r} \in SUBSET requests
    BY <1>4
  <2>2. ASSUME state = "downloading", failures = 0, torn => kind.known /\ ~kind.secret
        PROVE  temp = Download!Whole
    <3>1. stream /\ ~torn
      BY <1>0, <1>3, <2>2 DEF StreamRight
    <3>2. downloaded = Len(temp)
      BY <1>0, <3>1 DEF StreamDisk
    <3>3. r.offset = downloaded
      BY <1>0, <1>1, <1>2, <1>3, <3>1 DEF OneByOne, NextPart
    <3>4. Len(temp) = Size
      BY <1>1, <1>2, <3>2, <3>3
    <3>5. \A i \in 1..Len(temp) : temp[i]
      BY <1>0, <3>1 DEF DiskRight
    <3> QED BY <1>2, <3>4, <3>5, AllRightIsWhole
  <2>3. downloaded' \in 0..Size /\ iv' \in Int
    BY <1>1, <1>2
  <2> QED BY <1>1, <1>2, <1>3, <2>1, <2>2, <2>3, FinishKeeps
<1>5. CASE /\ ~Download!FullParts(downloaded)
           /\ Download!Fail
           /\ requests' = requests \ {r}
           /\ UNCHANGED <<Download!disk, state, nextOffset, finishes, limped>>
  <2>1. /\ temp' = temp /\ ivFile' = ivFile /\ final' = final /\ state' = state
        /\ nextOffset' = nextOffset /\ finishes' = finishes /\ limped' = limped
        /\ Download!Fail /\ requests' \subseteq requests
    BY <1>5 DEF Download!disk
  <2>2. DiskRight'
    BY <1>0, <1>1, <2>1 DEF DiskRight
  <2>3. iv' \in Int /\ faults' \in Nat /\ torn' \in BOOLEAN /\ temp' \in Seq(BOOLEAN) /\ ivFile' \in Int
    BY <1>0, <1>1, <2>1, TypesOfFile
  <2> QED BY <1>1, <2>1, <2>2, <2>3, FailKeeps
<1> QED BY <1>4, <1>5 DEF Download!PartBeyond

\* Where a part that is written ends, with those that follow it.
LEMMA EndOfParts ==
  ASSUME Download!TypeOK, RoomRight, downloaded < Size
  PROVE  LET first == downloaded + Download!PartLen(downloaded)
             used  == Download!Follow(first)
             end   == Download!Least(first + Chunk * Download!Cardinality(used), Size)
         IN \E K \in Nat :
              /\ Followers(used, delayed, first, K)
              /\ first \in Nat /\ first <= downloaded + Chunk
              /\ first = downloaded + Chunk \/ first >= Size
              /\ end \in Nat /\ downloaded < end /\ end <= Size
              /\ end < Size => first = downloaded + Chunk /\ end = downloaded + Chunk * (1 + K)
              /\ end = Size => first + Chunk * K >= Size
<1> DEFINE first == downloaded + Download!PartLen(downloaded)
           used  == Download!Follow(first)
           end   == Download!Least(first + Chunk * Download!Cardinality(used), Size)
<1>0. /\ downloaded \in Nat /\ Size \in Nat \ {0} /\ Chunk \in Nat \ {0} /\ MaxRequests \in Nat \ {0}
      /\ delayed \subseteq Download!Requests
  BY Sizes, TypesOfFile
<1>1. /\ first \in Nat /\ first <= downloaded + Chunk /\ downloaded < first /\ first <= Size
      /\ first = downloaded + Chunk \/ first >= Size
  BY <1>0 DEF Download!PartLen, Download!Least
<1>2. IsFiniteSet(delayed) /\ Cardinality(delayed) <= MaxRequests
  <2>1. Cardinality(requests) \in Nat /\ Cardinality(delayed) \in Nat
    BY FS_CardinalityType DEF RoomRight
  <2> QED BY <2>1, <1>0 DEF RoomRight
<1> HIDE DEF first
<1>3. PICK K \in 0..MaxRequests : Followers(used, delayed, first, K)
  BY <1>0, <1>1, <1>2, FollowTakes
<1>4. Download!Cardinality(used) = K
  <2>1. Cardinality(used) = K
    BY <1>3 DEF Followers
  <2> HIDE DEF used
  <2> QED BY <2>1, SameCount
<1>5. /\ Chunk * K \in Int /\ 0 <= Chunk * K /\ Chunk * (1 + K) = Chunk * 1 + Chunk * K /\ Chunk * 1 = Chunk
  BY <1>0, Times
<1>6. end = (IF first + Chunk * K < Size THEN first + Chunk * K ELSE Size)
  <2> HIDE DEF used
  <2> QED BY <1>4 DEF Download!Least
<1> HIDE DEF used, end
<1>7. /\ end \in Nat /\ downloaded < end /\ end <= Size
      /\ end < Size => first = downloaded + Chunk /\ end = downloaded + Chunk * (1 + K)
      /\ end = Size => first + Chunk * K >= Size
  BY <1>0, <1>1, <1>5, <1>6
<1>8. \E k \in Nat :
              /\ Followers(used, delayed, first, k)
              /\ first \in Nat /\ first <= downloaded + Chunk
              /\ first = downloaded + Chunk \/ first >= Size
              /\ end \in Nat /\ downloaded < end /\ end <= Size
              /\ end < Size => first = downloaded + Chunk /\ end = downloaded + Chunk * (1 + k)
              /\ end = Size => first + Chunk * k >= Size
  BY <1>0, <1>1, <1>3, <1>7
<1> QED BY <1>8 DEF first, used, end

\* The next part is written, with those that follow it.
LEMMA PartWrittenKeeps ==
  ASSUME FileInv, NEW r \in requests, Download!PartWritten(r)
  PROVE  FileInv'
<1> DEFINE first == downloaded + Download!PartLen(downloaded)
           used  == Download!Follow(first)
           end   == Download!Least(first + Chunk * Download!Cardinality(used), Size)
           units == IF stream THEN Download!Write(temp, downloaded, end - downloaded, Download!Right) ELSE temp
           more  == IF kind.known THEN end < Size ELSE Download!FullParts(end)
<1>0. /\ Download!TypeOK /\ StreamRight /\ HereRight /\ RoomRight /\ DiskRight /\ StreamDisk
      /\ InStep /\ OneByOne /\ Download!FinalIsWhole /\ NothingAfter
  BY DEF FileInv
<1>1. /\ r.offset = downloaded /\ r.offset < Size
      /\ downloaded' = end /\ iv' = Download!After(end)
      /\ kind' = kind /\ here' = here /\ resumed' = resumed /\ starts' = starts /\ torn' = torn /\ faults' = faults
  BY DEF Download!PartWritten, Download!past
<1>2. PICK K \in Nat :
        /\ Followers(used, delayed, first, K)
        /\ first \in Nat /\ first <= downloaded + Chunk
        /\ first = downloaded + Chunk \/ first >= Size
        /\ end \in Nat /\ downloaded < end /\ end <= Size
        /\ end < Size => first = downloaded + Chunk /\ end = downloaded + Chunk * (1 + K)
        /\ end = Size => first + Chunk * K >= Size
  <2>1. downloaded < Size
    BY <1>1
  <2> QED BY <1>0, <2>1, EndOfParts
<1>3. ~more => Download!Finish(requests \ {r}, units)
  BY DEF Download!PartWritten
<1>4. more => /\ state' = state /\ delayed' = delayed \ used
              /\ Download!StartDownloadRequest(requests \ {r}, delayed \ used, nextOffset)
              /\ temp' = units
              /\ ivFile' = Download!SavedIv(Download!After(end))
              /\ final' = final /\ stream' = stream /\ finishes' = finishes
              /\ failures' = failures /\ limped' = limped
  BY DEF Download!PartWritten
<1>5. units = (IF stream THEN Download!Write(temp, downloaded, end - downloaded, Download!Right) ELSE temp)
  OBVIOUS
<1>6. more <=> (kind.known /\ end < Size) \/ (~kind.known /\ Download!FullParts(end))
  OBVIOUS
<1> HIDE DEF first, used, end, units, more
<1>7. /\ temp \in Seq(BOOLEAN) /\ Len(temp) \in Nat /\ Len(temp) <= Size /\ downloaded \in Nat
      /\ Size \in Nat \ {0} /\ Chunk \in Nat \ {0} /\ iv \in Int /\ ivFile \in Int /\ nextOffset \in Nat
      /\ kind \in AnyKind /\ here \in BOOLEAN
  BY <1>0, TypesOfFile, Sizes DEF DiskRight
<1>8. iv' \in Int
  BY <1>1, <1>2, <1>7 DEF Download!After, Download!WrongIv
<1>9. stream => /\ units \in Seq(BOOLEAN)
                /\ Len(units) = (IF end > Len(temp) THEN end ELSE Len(temp))
                /\ (Download!Right /\ \A i \in 1..Len(temp) : temp[i]) => \A i \in 1..Len(units) : units[i]
  <2> SUFFICES ASSUME stream
               PROVE  /\ units \in Seq(BOOLEAN)
                      /\ Len(units) = (IF end > Len(temp) THEN end ELSE Len(temp))
                      /\ (Download!Right /\ \A i \in 1..Len(temp) : temp[i]) => \A i \in 1..Len(units) : units[i]
    OBVIOUS
  <2> DEFINE n == end - downloaded
             right == Download!Right
  <2>1. n \in Nat /\ downloaded + n = end
    BY <1>2, <1>7
  <2>2. right \in BOOLEAN
    BY DEF Download!Right
  <2>3. units = Download!Write(temp, downloaded, n, right)
    BY <1>5
  <2>4. downloaded <= Len(temp)
    BY <1>0 DEF StreamDisk
  <2> HIDE DEF n, right
  <2>5. WrittenTo(Download!Write(temp, downloaded, n, right), temp, downloaded + n, right)
    BY <1>7, <2>1, <2>2, <2>4, Written
  <2>6. WrittenTo(units, temp, end, right)
    BY <2>1, <2>3, <2>5
  <2>7. /\ units \in Seq(BOOLEAN)
        /\ Len(units) = (IF end > Len(temp) THEN end ELSE Len(temp))
        /\ (right /\ \A i \in 1..Len(temp) : temp[i]) => \A i \in 1..Len(units) : units[i]
    BY <2>6 DEF WrittenTo
  <2> QED BY <2>7 DEF right
<1>10. units \in Seq(BOOLEAN)
  <2>1. CASE stream
    BY <1>9, <2>1
  <2>2. CASE ~stream
    BY <1>5, <1>7, <2>2
  <2> QED BY <2>1, <2>2
<1>11. stream /\ (kind.secret => ~torn) =>
         /\ \A i \in 1..Len(units) : units[i]
         /\ kind.secret => Download!After(end) = end
  <2> SUFFICES ASSUME stream, kind.secret => ~torn
               PROVE  /\ \A i \in 1..Len(units) : units[i]
                      /\ kind.secret => Download!After(end) = end
    OBVIOUS
  <2>1. Download!Right
    BY <1>0 DEF StreamDisk, Download!Right
  <2>2. \A i \in 1..Len(temp) : temp[i]
    BY <1>0 DEF DiskRight
  <2> QED BY <1>9, <2>1, <2>2 DEF Download!After
<1>12. stream /\ ~kind.known /\ (~torn \/ resumed = 0) =>
         /\ downloaded % Chunk = 0 /\ delayed = {} /\ nextOffset = downloaded + Chunk
         /\ end < Size => end % Chunk = 0
         /\ end % Chunk = 0 => end = downloaded + Chunk
  <2> SUFFICES ASSUME stream, ~kind.known, ~torn \/ resumed = 0
               PROVE  /\ downloaded % Chunk = 0 /\ delayed = {} /\ nextOffset = downloaded + Chunk
                      /\ end < Size => end % Chunk = 0
                      /\ end % Chunk = 0 => end = downloaded + Chunk
    OBVIOUS
  <2>1. downloaded % Chunk = 0 /\ delayed = {} /\ NextPart(r)
    BY <1>0 DEF OneByOne
  <2>2. nextOffset = downloaded + Chunk
    BY <1>1, <2>1 DEF NextPart
  <2>3. PICK k \in Nat : downloaded = Chunk * k
    BY <1>7, <2>1, Divides
  <2>4. end < Size => end % Chunk = 0
    <3> SUFFICES ASSUME end < Size PROVE end % Chunk = 0
      OBVIOUS
    <3>1. end = downloaded + Chunk * (1 + K)
      BY <1>2
    <3>2. Chunk * (k + (1 + K)) = Chunk * k + Chunk * (1 + K) /\ k + (1 + K) \in Nat
      BY <1>7, Times
    <3>3. end = Chunk * (k + (1 + K))
      BY <2>3, <3>1, <3>2
    <3> QED BY <1>2, <1>7, <3>2, <3>3, Divides
  <2>5. K = 0
    <3>1. used = {}
      BY <1>2, <2>1 DEF Followers
    <3>2. Cardinality(used) = K
      BY <1>2 DEF Followers
    <3> QED BY <3>1, <3>2, NothingAsked
  <2>6. end <= downloaded + Chunk
    <3>1. Chunk * (1 + K) = Chunk /\ Chunk * K = 0
      BY <1>7, <2>5, Times
    <3>2. end = Size => first >= Size
      BY <1>2, <3>1
    <3> QED BY <1>2, <1>7, <3>1, <3>2
  <2>7. end % Chunk = 0 => end = downloaded + Chunk
    <3> SUFFICES ASSUME end % Chunk = 0 PROVE end = downloaded + Chunk
      OBVIOUS
    <3>1. PICK m \in Nat : end = Chunk * m
      BY <1>2, <1>7, Divides
    <3>2. m <= k => Chunk * m <= Chunk * k
      BY <1>7, Times
    <3>3. k < m => Chunk * k + Chunk <= Chunk * m
      BY <1>7, Times
    <3>4. Chunk * k \in Int /\ Chunk * m \in Int
      BY <1>7, Times
    <3> QED BY <1>2, <1>7, <2>3, <2>6, <3>1, <3>2, <3>3, <3>4
  <2> QED BY <2>1, <2>2, <2>4, <2>7
<1>13. CASE ~more
  <2>1. Download!Finish(requests \ {r}, units) /\ requests \ {r} \in SUBSET requests
    BY <1>3, <1>13
  <2>2. ASSUME state = "downloading", failures = 0, torn => kind.known /\ ~kind.secret
        PROVE  units = Download!Whole
    <3>1. stream
      BY <1>0, <2>2 DEF StreamRight
    <3>2. end = Size
      <4>1. CASE kind.known
        BY <1>2, <1>6, <1>7, <1>13, <4>1
      <4>2. CASE ~kind.known
        <5>1. ~Download!FullParts(end)
          BY <1>6, <1>13, <4>2
        <5>2. end < Size => end % Chunk = 0
          BY <1>12, <2>2, <3>1, <4>2
        <5> QED BY <1>2, <1>7, <5>1, <5>2 DEF Download!FullParts
      <4> QED BY <4>1, <4>2
    <3>3. Len(units) = Size
      BY <1>7, <1>9, <3>1, <3>2
    <3>4. \A i \in 1..Len(units) : units[i]
      BY <1>11, <2>2, <3>1
    <3> QED BY <1>10, <3>3, <3>4, AllRightIsWhole
  <2>3. ASSUME state = "downloading", failures = 0, ~kind.moved
        PROVE  requests \ {r} = {}
    <3>1. stream
      BY <1>0, <2>3 DEF StreamRight
    <3>2. CASE ~kind.known
      BY <1>0, <3>2 DEF RoomRight
    <3>3. CASE kind.known
      <4>1. Unbroken
        <5>1. ~Severed
          BY <1>1 DEF Severed, NoneAt
        <5> QED BY <1>0, <2>3, <3>1, <3>3, <5>1 DEF InStep
      <4>2. PICK J \in Nat \ {0} : Train(requests, delayed, downloaded, nextOffset, J)
        BY <4>1 DEF Unbroken
      <4>3. end = Size
        BY <1>2, <1>6, <1>7, <1>13, <3>3
      <4> QED BY <1>1, <1>2, <1>7, <4>2, <4>3, TrainEnds
    <3> QED BY <3>2, <3>3
  <2>4. downloaded' \in 0..Size
    BY <1>1, <1>2, <1>7
  <2> QED BY <1>1, <1>8, <1>10, <2>1, <2>2, <2>3, <2>4, FinishKeeps
<1>14. CASE more
  <2> DEFINE rs == requests \ {r}
             ds == delayed \ used
  <2>1. /\ state' = state /\ delayed' = ds
        /\ Download!StartDownloadRequest(rs, ds, nextOffset)
        /\ temp' = units
        /\ ivFile' = Download!SavedIv(Download!After(end))
        /\ final' = final /\ stream' = stream /\ finishes' = finishes
        /\ failures' = failures /\ limped' = limped
    BY <1>4, <1>14
  <2>2. /\ IsFiniteSet(rs) /\ IsFiniteSet(ds) /\ Cardinality(rs) + Cardinality(ds) < MaxRequests
        /\ Cardinality(rs) \in Nat /\ Cardinality(ds) \in Nat
    <3>1. ds \in SUBSET delayed
      OBVIOUS
    <3> HIDE DEF ds
    <3> QED BY <1>0, <3>1, RoomOfAnswer
  <2>3. rs \subseteq Download!Requests /\ ds \subseteq Download!Requests /\ here' \in BOOLEAN
    BY <1>0, <1>1, <1>7, TypesOfFile
  <2>4. rs \subseteq requests /\ ds \subseteq delayed
    OBVIOUS
  <2>5. ~kind.known => rs = {}
    BY <1>0 DEF RoomRight
  <2>6. PICK N \in Nat : \E new :
           /\ NewParts(new, nextOffset, N, here')
           /\ requests' = rs \cup new /\ nextOffset' = nextOffset + Chunk * N
           /\ IsFiniteSet(requests') /\ Cardinality(requests') + Cardinality(ds) <= MaxRequests
           /\ ~kind.known => N <= 1
           /\ state' = "downloading" /\ Cardinality(rs) + Cardinality(ds) < MaxRequests =>
                ((~kind.known \/ nextOffset < Size) => N >= 1)
    <3>1. Cardinality(rs) + Cardinality(ds) <= MaxRequests
      BY <2>2, Sizes
    <3> HIDE DEF rs, ds
    <3> QED BY <1>7, <2>1, <2>2, <2>3, <3>1, Asks
  <2>7. PICK new :
           /\ NewParts(new, nextOffset, N, here')
           /\ requests' = rs \cup new /\ nextOffset' = nextOffset + Chunk * N
           /\ IsFiniteSet(requests') /\ Cardinality(requests') + Cardinality(ds) <= MaxRequests
           /\ ~kind.known => N <= 1
           /\ state' = "downloading" => ((~kind.known \/ nextOffset < Size) => N >= 1)
    BY <2>2, <2>6
  <2>8. Download!TypeOK'
    <3>1. requests' \subseteq Download!Requests /\ delayed' \subseteq Download!Requests
      BY <2>1, <2>3, <2>7 DEF NewParts
    <3>2. nextOffset' \in Nat
      <4>1. Chunk * N \in Int /\ 0 <= Chunk * N
        BY <1>7, Times
      <4> QED BY <1>7, <2>7, <4>1
    <3>3. ivFile' \in Int
      <4>1. Download!After(end) \in Int
        BY <1>1, <1>8
      <4> QED BY <1>7, <2>1, <4>1 DEF Download!SavedIv
    <3>4. downloaded' \in 0..Size
      BY <1>1, <1>2, <1>7
    <3>5. temp' \in Seq(BOOLEAN)
      BY <1>10, <2>1
    <3> QED BY <1>0, <1>1, <1>8, <2>1, <3>1, <3>2, <3>3, <3>4, <3>5 DEF Download!TypeOK
  <2>9. RoomRight'
    <3>1. kind.known => \A a \in requests' : a.offset < Size
      BY <1>0, <2>4, <2>7 DEF RoomRight, NewParts
    <3>2. ~kind.known => \A a, b \in new : a = b
      BY <1>7, <2>7, OnlyOne
    <3>3. ~kind.known => \A a, b \in requests' : a = b
      BY <2>5, <2>7, <3>2
    <3> QED BY <1>1, <2>1, <2>2, <2>7, <3>1, <3>3 DEF RoomRight
  <2>10. StreamRight'
    BY <1>0, <2>1 DEF StreamRight
  <2>11. HereRight'
    <3>1. \A a \in new : a.here = here'
      BY <2>7 DEF NewParts
    <3> QED BY <1>0, <1>1, <2>1, <2>4, <2>7, <3>1 DEF HereRight
  <2>12. DiskRight'
    <3>1. CASE ~stream
      <4>1. temp' = temp /\ ivFile' = ivFile
        BY <1>5, <2>1, <3>1 DEF Download!SavedIv
      <4> QED BY <1>0, <1>1, <4>1 DEF DiskRight
    <3>2. CASE stream
      <4>1. Len(units) <= Size
        BY <1>2, <1>7, <1>9, <3>2
      <4>2. (kind.secret => ~torn) => \A i \in 1..Len(units) : units[i]
        BY <1>11, <3>2
      <4>3. ASSUME ~torn
            PROVE  /\ kind.secret => units # <<>> /\ ivFile' = Len(units)
                   /\ Len(units) = Size => ~kind.known /\ ~kind.ragged
                   /\ ~kind.known => Len(units) % Chunk = 0
        <5>1. downloaded = Len(temp)
          BY <1>0, <3>2, <4>3 DEF StreamDisk
        <5>2. Len(units) = end
          BY <1>2, <1>7, <1>9, <3>2, <5>1
        <5>3. units # <<>>
          <6>1. Len(<<>>) = 0
            OBVIOUS
          <6> QED BY <1>2, <1>7, <5>2, <6>1
        <5>4. kind.secret => ivFile' = end
          BY <1>11, <2>1, <3>2, <4>3 DEF Download!SavedIv
        <5>5. end = Size => ~kind.known /\ ~kind.ragged
          BY <1>6, <1>7, <1>14 DEF Download!FullParts
        <5>6. ~kind.known => end % Chunk = 0
          BY <1>6, <1>14 DEF Download!FullParts
        <5> QED BY <5>2, <5>3, <5>4, <5>5, <5>6
      <4> QED BY <1>1, <2>1, <4>1, <4>2, <4>3 DEF DiskRight
    <3> QED BY <3>1, <3>2
  <2>13. StreamDisk'
    <3> SUFFICES ASSUME stream
                 PROVE  /\ end <= Len(units)
                        /\ ~torn => end = Len(units) /\ (kind.secret => iv' = end)
                        /\ kind.known => end < Size
      BY <1>1, <2>1 DEF StreamDisk
    <3>1. end <= Len(units)
      BY <1>2, <1>7, <1>9
    <3>2. ~torn => end = Len(units)
      BY <1>0, <1>2, <1>7, <1>9 DEF StreamDisk
    <3>3. ~torn => (kind.secret => iv' = end)
      BY <1>1, <1>11
    <3> QED BY <1>6, <1>14, <3>1, <3>2, <3>3
  <2>14. InStep'
    <3> SUFFICES ASSUME stream, kind.known, ~kind.moved PROVE Unbroken'
      BY <1>1, <2>1 DEF InStep
    <3>1. Unbroken
      <4>1. ~Severed
        BY <1>1 DEF Severed, NoneAt
      <4> QED BY <1>0, <4>1 DEF InStep
    <3>2. PICK J \in Nat \ {0} : Train(requests, delayed, downloaded, nextOffset, J)
      BY <3>1 DEF Unbroken
    <3>3. end < Size /\ first = downloaded + Chunk /\ end = downloaded + Chunk * (1 + K)
      BY <1>2, <1>6, <1>14
    <3>4. Followers(used, delayed, downloaded + Chunk, K)
      BY <1>2, <3>3
    <3>5. /\ J - 1 - K \in Nat
          /\ Train(requests \ {r}, delayed \ used, downloaded + Chunk * (1 + K), nextOffset, J - 1 - K)
          /\ NoneAt(delayed \ used, downloaded + Chunk * (1 + K))
      BY <1>1, <1>7, <3>2, <3>4, TrainMoves
    <3>6. Train(rs, ds, end, nextOffset, J - 1 - K) /\ NoneAt(ds, end)
      BY <3>3, <3>5
    <3>7. J - 1 - K = 0 => nextOffset < Size
      <4>1. nextOffset = end + Chunk * (J - 1 - K)
        BY <3>6 DEF Train
      <4>2. Chunk * 0 = 0
        BY <1>7, Times
      <4> QED BY <1>2, <3>3, <4>1, <4>2
    <3>8. J - 1 - K + N \in Nat \ {0}
      <4>1. state' = "downloading"
        BY <1>0, <2>1 DEF StreamRight
      <4>2. J - 1 - K = 0 => N >= 1
        BY <2>7, <3>7, <4>1
      <4> QED BY <3>5, <4>2
    <3>9. Train(rs \cup new, ds, end, nextOffset + Chunk * N, J - 1 - K + N)
      <4> DEFINE m == J - 1 - K
      <4>1. m \in Nat /\ Train(rs, ds, end, nextOffset, m)
        BY <3>5, <3>6
      <4> HIDE DEF rs, ds, m
      <4>2. Train(rs \cup new, ds, end, nextOffset + Chunk * N, m + N)
        BY <1>2, <2>7, <4>1, TrainGrows
      <4> QED BY <4>2 DEF m
    <3>10. Train(requests', delayed', downloaded', nextOffset', J - 1 - K + N)
      <4> HIDE DEF rs, ds
      <4> QED BY <1>1, <2>1, <2>7, <3>9
    <3>11. NoneAt(delayed', downloaded')
      <4> HIDE DEF ds
      <4> QED BY <1>1, <2>1, <3>6
    <3> HIDE DEF rs, ds
    <3> QED BY <3>8, <3>10, <3>11 DEF Unbroken, Train, NoneAt
  <2>15. OneByOne'
    <3> SUFFICES ASSUME stream, ~kind.known, ~torn \/ resumed = 0
                 PROVE  /\ end % Chunk = 0 /\ delayed' = {} /\ requests' # {}
                        /\ \A a \in requests' : a.offset = end /\ nextOffset' = end + Chunk
      BY <1>1, <2>1 DEF OneByOne, NextPart
    <3>1. end % Chunk = 0
      BY <1>6, <1>14 DEF Download!FullParts
    <3>2. delayed = {} /\ nextOffset = end
      BY <1>12, <3>1
    <3>3. N = 1
      <4>1. state' = "downloading"
        BY <1>0, <2>1 DEF StreamRight
      <4> QED BY <2>7, <4>1
    <3>4. requests' = new
      BY <2>5, <2>7
    <3>5. new # {} /\ \A a \in new : a.offset = end
      BY <1>2, <2>7, <3>2, <3>3, OnlyOne
    <3>6. nextOffset' = end + Chunk
      BY <1>7, <2>7, <3>2, <3>3
    <3> QED BY <2>1, <3>1, <3>2, <3>4, <3>5, <3>6
  <2>16. Download!FinalIsWhole'
    <3>1. Download!Whole' = Download!Whole
      BY DEF Download!Whole
    <3> QED BY <1>0, <1>1, <2>1, <3>1 DEF Download!FinalIsWhole
  <2>17. NothingAfter'
    BY <1>0, <1>1, <2>1 DEF NothingAfter
  <2> QED BY <2>8, <2>9, <2>10, <2>11, <2>12, <2>13, <2>14, <2>15, <2>16, <2>17 DEF FileInv
<1> QED BY <1>13, <1>14

\* Every step of a download keeps it.
LEMMA DownloadStepKeeps ==
  FileInv /\ [Download!Next]_(Download!vars) => FileInv'
<1> SUFFICES ASSUME FileInv, [Download!Next]_(Download!vars) PROVE FileInv'
  OBVIOUS
<1>1. CASE Download!Start
  BY <1>1, StartKeeps
<1>2. CASE Download!Answer
  <2>1. PICK r \in requests : \/ Download!PartDelayed(r) \/ Download!PartWritten(r)
                              \/ Download!PartBeyond(r) \/ Download!Migrated(r)
    BY <1>2 DEF Download!Answer
  <2> QED BY <2>1, PartDelayedKeeps, PartWrittenKeeps, PartBeyondKeeps, MigratedKeeps
<1>3. CASE Download!Failure
  <2>1. PICK r \in requests : Download!PartFails(r) \/ Download!WriteThrows(r)
    BY <1>3 DEF Download!Failure
  <2> QED BY <2>1, PartFailsKeeps, WriteThrowsKeeps
<1>4. CASE Download!Cancel
  BY <1>4, CancelKeeps
<1>5. CASE Download!Crash
  BY <1>5, CrashKeeps
<1>6. CASE UNCHANGED Download!vars
  BY <1>6, DownloadStays
<1> QED BY <1>1, <1>2, <1>3, <1>4, <1>5, <1>6 DEF Download!Next

\* An operation that waits for nothing has lost its first part: parts that follow
\* one another begin with one that is in flight.
LEMMA FileInvIsSafe == FileInv => DownloadSafe
<1> SUFFICES ASSUME FileInv PROVE DownloadSafe
  OBVIOUS
<1>0. /\ Download!TypeOK /\ StreamRight /\ DiskRight /\ InStep /\ OneByOne /\ Download!FinalIsWhole
  BY DEF FileInv
<1>1. Download!Resumable
  <2>1. \A i \in 1..Len(temp) : ~torn => temp[i]
    BY <1>0 DEF DiskRight
  <2>2. ~torn /\ kind.secret /\ temp # <<>> => ivFile = Len(temp)
    BY <1>0 DEF DiskRight
  <2> QED BY <2>1, <2>2 DEF Download!Resumable
<1>2. Download!StuckIsKnown
  <2> SUFFICES ASSUME Download!Stuck, ~kind.moved
               PROVE  torn /\ resumed > 0 /\ (kind.secret \/ ~kind.known)
    BY DEF Download!StuckIsKnown
  <2>1. state = "downloading" /\ requests = {} /\ failures = 0 /\ stream
    <3>1. state = "downloading" /\ requests = {} /\ finishes + failures = 0
      BY DEF Download!Stuck
    <3>2. finishes \in Nat /\ failures \in Nat
      BY <1>0, TypesOfFile
    <3> QED BY <1>0, <3>1, <3>2 DEF StreamRight
  <2>2. CASE kind.known
    <3>1. ~Unbroken
      <4> SUFFICES ASSUME Unbroken PROVE FALSE
        OBVIOUS
      <4>1. PICK J \in Nat \ {0} : Train(requests, delayed, downloaded, nextOffset, J)
        BY DEF Unbroken
      <4>2. 0 \in 0..(J - 1) /\ downloaded + Chunk * 0 = downloaded
        <5>1. downloaded \in Nat /\ Chunk * 0 = 0
          BY <1>0, TypesOfFile, Sizes, Times
        <5> QED BY <5>1
      <4>3. PICK a \in requests \cup delayed : a.offset = downloaded
        BY <4>1, <4>2 DEF Train
      <4> QED BY <2>1, <4>3 DEF Unbroken, NoneAt
    <3> QED BY <1>0, <2>1, <2>2, <3>1 DEF InStep, Severed
  <2>3. CASE ~kind.known
    <3>1. torn /\ resumed # 0
      BY <1>0, <2>1, <2>3 DEF OneByOne
    <3> QED BY <1>0, <2>3, <3>1, TypesOfFile
  <2> QED BY <2>2, <2>3
<1> QED BY <1>0, <1>1, <1>2 DEF DownloadSafe, Download!DownloadSafe

\* What a download keeps in every state, for files of every size and parts of
\* every size, whatever the order of the answers, the failures and the crashes:
\* types, the file whole under its name, what can be resumed, and why an operation
\* waits for nothing.
THEOREM DownloadIsSafe == Download!Spec => []DownloadSafe
<1>1. Download!Init => FileInv
  BY DownloadStarts
<1>2. FileInv /\ [Download!Next]_(Download!vars) => FileInv'
  BY DownloadStepKeeps
<1>3. FileInv => DownloadSafe
  BY FileInvIsSafe
<1> QED BY <1>1, <1>2, <1>3, PTL DEF Download!Spec

\* An operation that was reported finished is not reported failed, unless the file
\* moved: nothing is in flight that could fail, and it is not cancelled any more.
THEOREM FinishedStaysFinished == Download!Spec => Download!FinishIsLast
<1>1. ASSUME FileInv, [Download!Next]_(Download!vars)
      PROVE  [(finishes > 0 /\ failures = 0 /\ ~kind.moved) => failures' = 0]_(Download!vars)
  <2> SUFFICES ASSUME finishes > 0, failures = 0, ~kind.moved, Download!Next PROVE failures' = 0
    BY <1>1
  <2>1. requests = {}
    BY <1>1 DEF FileInv, NothingAfter
  <2>2. state # "downloading"
    BY <1>1 DEF FileInv, StreamRight
  <2>3. Download!Start \/ Download!Crash
    BY <2>1, <2>2 DEF Download!Next, Download!Answer, Download!Failure, Download!Cancel
  <2> QED BY <2>3 DEF Download!Start, Download!Crash
<1>2. Download!Init => FileInv
  BY DownloadStarts
<1>3. FileInv /\ [Download!Next]_(Download!vars) => FileInv'
  BY DownloadStepKeeps
<1> QED BY <1>1, <1>2, <1>3, PTL DEF Download!Spec, Download!FinishIsLast
=============================================================================
