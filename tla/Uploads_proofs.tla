--------------------------- MODULE Uploads_proofs ---------------------------
(***************************************************************************)
(* The uploads keep what they promise: the lane its slot and its names     *)
(* (UploadLaneSafe), and one upload its parts (UploadSafe).                *)
(*                                                                         *)
(* First the lane.  Its counter counts the slots that are taken, less the  *)
(* ends it counted too many; a slot is taken by every operation that runs; *)
(* and of a file that was not disturbed there is one operation, the one    *)
(* its name stands for, which ends once.                                   *)
(***************************************************************************)
EXTENDS MCUploads, SequenceLemmas, FiniteSetTheorems

Calls == [what : {"upload", "cancel", "done"}, file : Files, op : Nat]

\* Operations that hold the lane's slot.
Slots == { o \in Ids : ops[o].slot }

Counted == count = Cardinality(Slots) - extras /\ count <= 1

\* One that waits has done nothing, one that was started and has not ended has a
\* slot.
OpsRight ==
  \A o \in Ids :
    /\ ops[o].state = 0 => ~ops[o].slot /\ ~ops[o].flying /\ ops[o].reports = 0
    /\ ops[o].state # 0 /\ ops[o].reports = 0 => ops[o].slot /\ ops[o].state = 1

\* The end of an operation waits to be counted.
IsEnd(c) == c.what = "done"
EndWaits(cs, o) == \E i \in DOMAIN cs : IsEnd(cs[i]) /\ cs[i].op = o

EndsRight(cs) ==
  \A i \in DOMAIN cs : IsEnd(cs[i]) =>
    /\ cs[i].op \in Ids
    /\ cs[i].file = ops[cs[i].op].file
    /\ ops[cs[i].op].reports > 0

\* Of a file that is not disturbed every operation ends once.
ReportsOnce == \A o \in Ids : ops[o].file \notin disturbed => ops[o].reports <= 1

EndsOnce(cs) ==
  \A i \in DOMAIN cs : IsEnd(cs[i]) /\ cs[i].file \notin disturbed =>
    /\ ops[cs[i].op].slot
    /\ \A j \in DOMAIN cs : IsEnd(cs[j]) /\ cs[j].op = cs[i].op => j = i

ExtrasOnlyDisturbed == disturbed = {} => extras = 0

\* Of such a file the operation on its way is the one its name stands for.
Named ==
  \A o \in Ids : ops[o].file \notin disturbed /\ OnItsWay(o) => paths[ops[o].file] = o

PathsRight == \A f \in Files : paths[f] # None => ops[paths[f]].file = f
-----------------------------------------------------------------------------
(* The types. *)

CallsTyped(cs) == cs \in Seq(Calls) /\ \A i \in DOMAIN cs : cs[i].op <= Len(ops)

\* TypeOK without sequences of sets that change.
Typed ==
  /\ ops \in Seq(Operations) /\ paths \in [Files -> Nat]
  /\ \A f \in Files : paths[f] <= Len(ops)
  /\ queue \in Seq(Nat)
  /\ \A i \in DOMAIN queue : queue[i] \in Ids /\ ops[queue[i]].state = 0
  /\ Distinct(queue)
  /\ CallsTyped(calls)
  /\ count \in Int
  /\ asked \subseteq Files /\ lost \subseteq Files /\ disturbed \subseteq Files
  /\ extras \in Nat /\ uploads \in 0..MaxUploads /\ cancels \in 0..MaxCancels

\* Calls with the ends that wait.
HasTheEnds(cs) ==
  /\ CallsTyped(cs) /\ EndsRight(cs) /\ EndsOnce(cs)
  /\ \A o : EndWaits(cs, o) <=> EndWaits(calls, o)

Inv ==
  /\ Typed /\ Counted /\ OpsRight /\ EndsRight(calls) /\ ReportsOnce /\ EndsOnce(calls)
  /\ ExtrasOnlyDisturbed /\ Named /\ PathsRight /\ NamesAreLive

\* The types, stated element by element, are those of FileUploader.
LEMMA TypedIsTypeOK == Typed <=> TypeOK
<1>1. ASSUME TypeOK PROVE Typed
  <2>1. ops \in Seq(Operations) /\ Len(ops) \in Nat /\ Ids = 1..Len(ops)
    BY <1>1 DEF TypeOK, Ids
  <2>2. paths \in [Files -> Nat] /\ \A f \in Files : paths[f] <= Len(ops)
    BY <1>1, <2>1 DEF TypeOK
  <2>3. \A i \in DOMAIN queue : queue[i] \in { o \in Ids : ops[o].state = 0 }
    BY <1>1 DEF TypeOK
  <2>4. queue \in Seq({ o \in Ids : ops[o].state = 0 })
    BY <1>1 DEF TypeOK
  <2>5. \A i \in DOMAIN queue : queue[i] \in Nat /\ queue[i] \in Ids /\ ops[queue[i]].state = 0
    BY <2>1, <2>3
  <2>6. queue \in Seq(Nat)
    BY <2>4, <2>5, SeqOfSubset
  <2>7. Distinct(queue)
    BY <1>1 DEF TypeOK, IsInjective, Distinct
  <2> DEFINE C == [what : {"upload", "cancel", "done"}, file : Files, op : 0..Len(ops)]
  <2>8. calls \in Seq(C)
    BY <1>1 DEF TypeOK
  <2> HIDE DEF C
  <2>9. \A i \in DOMAIN calls : calls[i] \in C
    BY <2>8
  <2>10. \A i \in DOMAIN calls : calls[i] \in Calls /\ calls[i].op <= Len(ops)
    BY <2>1, <2>9 DEF Calls, C
  <2>11. calls \in Seq(Calls)
    BY <2>8, <2>10, SeqOfSubset
  <2> QED BY <1>1, <2>1, <2>2, <2>5, <2>6, <2>7, <2>10, <2>11 DEF TypeOK, Typed, CallsTyped
<1>2. ASSUME Typed PROVE TypeOK
  <2>1. ops \in Seq(Operations) /\ Len(ops) \in Nat /\ Ids = 1..Len(ops)
    BY <1>2 DEF Typed, Ids
  <2>2. paths \in [Files -> 0..Len(ops)]
    <3>1. \A f \in Files : paths[f] \in 0..Len(ops)
      BY <1>2, <2>1 DEF Typed
    <3>2. paths \in [Files -> Nat]
      BY <1>2 DEF Typed
    <3> QED BY <3>1, <3>2
  <2>3. queue \in Seq({ o \in Ids : ops[o].state = 0 })
    <3>1. queue \in Seq(Nat)
      BY <1>2 DEF Typed
    <3>2. \A i \in DOMAIN queue : queue[i] \in { o \in Ids : ops[o].state = 0 }
      BY <1>2 DEF Typed
    <3> QED BY <3>1, <3>2, SeqOfSubset
  <2>4. IsInjective(queue)
    BY <1>2 DEF Typed, IsInjective, Distinct
  <2> DEFINE C == [what : {"upload", "cancel", "done"}, file : Files, op : 0..Len(ops)]
  <2>5. calls \in Seq(Calls)
    BY <1>2 DEF Typed, CallsTyped
  <2>6. \A i \in DOMAIN calls : calls[i] \in Calls
    BY <2>5
  <2>7. \A i \in DOMAIN calls : calls[i] \in C
    BY <1>2, <2>1, <2>6 DEF Typed, CallsTyped, Calls
  <2>8. calls \in Seq(C)
    BY <2>5, <2>7, SeqOfSubset
  <2> QED BY <1>2, <2>1, <2>2, <2>3, <2>4, <2>8 DEF TypeOK, Typed
<1> QED BY <1>1, <1>2

-----------------------------------------------------------------------------
(* Each step keeps Inv. *)

\* The slots that are taken can be counted.
LEMMA SlotsFinite ==
  ASSUME ops \in Seq(Operations)
  PROVE  IsFiniteSet(Slots) /\ Cardinality(Slots) \in Nat
<1>1. Len(ops) \in Nat /\ Slots \subseteq 1..Len(ops)
  BY DEF Slots, Ids
<1>2. IsFiniteSet(1..Len(ops))
  BY <1>1, FS_Interval
<1> QED BY <1>1, <1>2, FS_Subset, FS_CardinalityType

\* An empty lane keeps the invariant.
LEMMA InitInv == Init => Inv
<1> SUFFICES ASSUME Init PROVE Inv
  OBVIOUS
<1>1. Ids = {} /\ Len(ops) = 0 /\ ops \in Seq(Operations) /\ DOMAIN calls = {} /\ DOMAIN queue = {}
  BY DEF Init, Ids
<1>2. Slots = {}
  BY <1>1 DEF Slots
<1>3. Counted
  BY <1>2, FS_EmptySet DEF Init, Counted
<1>4. Typed
  BY <1>1, BoundsAssumption DEF Init, Typed, CallsTyped, None, Distinct
<1>5. OpsRight /\ EndsRight(calls) /\ ReportsOnce /\ EndsOnce(calls) /\ ExtrasOnlyDisturbed /\ Named
  BY <1>1 DEF OpsRight, EndsRight, ReportsOnce, EndsOnce, ExtrasOnlyDisturbed, Named, Init
<1>6. PathsRight /\ NamesAreLive
  BY DEF Init, PathsRight, NamesAreLive
<1> QED BY <1>3, <1>4, <1>5, <1>6 DEF Inv

\* A call that is no end, at the end of the calls or taken from them, leaves the ends.
LEMMA OtherAppended ==
  ASSUME Inv, NEW c \in Calls, ~IsEnd(c), c.op = None
  PROVE  HasTheEnds(Append(calls, c))
<1> DEFINE n == Len(calls)
           cs == Append(calls, c)
<1>1. /\ cs \in Seq(Calls) /\ n \in Nat
      /\ DOMAIN calls = 1..n /\ DOMAIN cs = 1..(n + 1)
      /\ \A i \in 1..n : cs[i] = calls[i]
      /\ cs[n + 1] = c
  BY Appended DEF Inv, Typed, CallsTyped
<1> HIDE DEF n, cs
<1>2. CallsTyped(cs)
  <2>1. Len(ops) \in Nat
    BY DEF Inv, Typed
  <2> QED BY <1>1, <2>1, SMTT(30) DEF Inv, Typed, CallsTyped, None
<1>3. EndsRight(cs) /\ EndsOnce(cs)
  BY <1>1 DEF Inv, EndsRight, EndsOnce
<1>4. \A o : EndWaits(cs, o) <=> EndWaits(calls, o)
  BY <1>1 DEF EndWaits
<1> QED BY <1>2, <1>3, <1>4 DEF HasTheEnds, cs

\* A call that is not an end is taken, and the ends that wait stay.
LEMMA OtherTaken ==
  ASSUME Inv, calls # <<>>, ~IsEnd(Head(calls))
  PROVE  HasTheEnds(Tail(calls))
<1> DEFINE n == Len(calls)
           cs == Tail(calls)
<1>1. /\ cs \in Seq(Calls) /\ n \in Nat \ {0}
      /\ DOMAIN calls = 1..n /\ DOMAIN cs = 1..(n - 1)
      /\ \A i \in 1..(n - 1) : cs[i] = calls[i + 1] /\ i + 1 \in 1..n
      /\ Head(calls) = calls[1]
  <2>1. calls \in Seq(Calls)
    BY DEF Inv, Typed, CallsTyped
  <2> QED BY <2>1, HeadTaken
<1> HIDE DEF n, cs
<1>2. CallsTyped(cs)
  BY <1>1 DEF Inv, Typed, CallsTyped
<1>3. EndsRight(cs)
  BY <1>1 DEF Inv, EndsRight
<1>4. EndsOnce(cs)
  <2> SUFFICES ASSUME NEW i \in 1..(n - 1), IsEnd(cs[i]), cs[i].file \notin disturbed
               PROVE  /\ ops[cs[i].op].slot
                      /\ \A j \in 1..(n - 1) : IsEnd(cs[j]) /\ cs[j].op = cs[i].op => j = i
    BY <1>1 DEF EndsOnce
  <2>1. /\ ops[calls[i + 1].op].slot
        /\ \A j \in 1..n : IsEnd(calls[j]) /\ calls[j].op = calls[i + 1].op => j = i + 1
    BY <1>1 DEF Inv, EndsOnce
  <2>2. ASSUME NEW j \in 1..(n - 1), IsEnd(cs[j]), cs[j].op = cs[i].op PROVE j = i
    <3>1. j + 1 = i + 1
      BY <1>1, <2>1, <2>2
    <3> QED BY <1>1, <3>1
  <2> QED BY <1>1, <2>1, <2>2
<1>5. \A o : EndWaits(cs, o) <=> EndWaits(calls, o)
  <2>1. ASSUME NEW i \in 1..n, IsEnd(calls[i]) PROVE i - 1 \in 1..(n - 1) /\ cs[i - 1] = calls[i]
    <3>1. i # 1
      BY <1>1, <2>1
    <3>2. i - 1 \in 1..(n - 1) /\ (i - 1) + 1 = i
      BY <1>1, <3>1
    <3> QED BY <1>1, <3>2
  <2> SUFFICES ASSUME NEW o PROVE EndWaits(cs, o) <=> EndWaits(calls, o)
    OBVIOUS
  <2>2. EndWaits(cs, o) => EndWaits(calls, o)
    BY <1>1 DEF EndWaits
  <2>3. EndWaits(calls, o) => EndWaits(cs, o)
    <3> SUFFICES ASSUME NEW i \in 1..n, IsEnd(calls[i]), calls[i].op = o
                 PROVE  EndWaits(cs, o)
      BY <1>1 DEF EndWaits
    <3>1. i - 1 \in DOMAIN cs /\ cs[i - 1] = calls[i]
      BY <1>1, <2>1
    <3> QED BY <3>1 DEF EndWaits
  <2> QED BY <2>2, <2>3
<1> QED BY <1>2, <1>3, <1>4, <1>5 DEF HasTheEnds, cs

\* A step that leaves the operations and the ends.
LEMMA QuietKeepsInv ==
  ASSUME Inv, HasTheEnds(calls'), UNCHANGED <<paths, count, ops, extras, disturbed>>,
         queue' \in Seq(Nat), Distinct(queue'),
         \A x : Contains(queue', x) => Contains(queue, x),
         asked' \subseteq Files, lost \subseteq lost', lost' \subseteq Files,
         uploads' \in 0..MaxUploads, cancels' \in 0..MaxCancels,
         \A f \in Files \ lost' : Contains(queue, paths[f]) => Contains(queue', paths[f])
  PROVE  Inv'
<1>1. Ids' = Ids
  BY DEF Ids
<1>2. Typed'
  <2>1. \A i \in DOMAIN queue' : queue'[i] \in Ids /\ ops[queue'[i]].state = 0
    <3>1. DOMAIN queue' = 1..Len(queue') /\ DOMAIN queue = 1..Len(queue)
      BY DEF Inv, Typed
    <3> SUFFICES ASSUME NEW i \in DOMAIN queue'
                 PROVE  queue'[i] \in Ids /\ ops[queue'[i]].state = 0
      OBVIOUS
    <3>2. Contains(queue', queue'[i])
      BY <3>1 DEF Contains
    <3>3. PICK j \in DOMAIN queue : queue[j] = queue'[i]
      BY <3>1, <3>2 DEF Contains
    <3> QED BY <3>3 DEF Inv, Typed
  <2> QED BY <1>1, <2>1 DEF Inv, Typed, HasTheEnds, CallsTyped
<1>3. EndsRight(calls)' /\ EndsOnce(calls)'
  BY <1>1 DEF HasTheEnds, EndsRight, EndsOnce
<1>4. Counted' /\ OpsRight' /\ ExtrasOnlyDisturbed' /\ PathsRight' /\ ReportsOnce'
  BY <1>1 DEF Inv, Counted, Slots, OpsRight, ExtrasOnlyDisturbed, PathsRight, ReportsOnce
<1>5. \A o : EndWaits(calls', o) <=> EndWaits(calls, o)
  BY DEF HasTheEnds
<1>6. Named'
  BY <1>1, <1>5 DEF Inv, Named, OnItsWay, EndWaits, IsEnd
<1>7. NamesAreLive'
  BY <1>1, <1>5 DEF Inv, NamesAreLive, OnItsWay, EndWaits, IsEnd
<1> QED BY <1>2, <1>3, <1>4, <1>6, <1>7 DEF Inv

\* The user's calls.
LEMMA CallsKeepInv ==
  ASSUME Inv, NEW f \in Files, CallUpload(f) \/ CallCancel(f)
  PROVE  Inv'
<1> PICK what \in {"upload", "cancel"} : calls' = Append(calls, Call(what, f))
  BY DEF CallUpload, CallCancel
<1>1. UNCHANGED <<paths, queue, count, ops, lost, disturbed, extras>> /\ Typed
  BY DEF Inv, CallUpload, CallCancel
<1>2. Call(what, f) \in Calls /\ Call(what, f).op = None /\ ~IsEnd(Call(what, f))
  BY DEF Call, Calls, None, IsEnd
<1>3. HasTheEnds(calls')
  BY <1>2, OtherAppended
<1>4. asked' \subseteq Files /\ uploads' \in 0..MaxUploads /\ cancels' \in 0..MaxCancels
  BY <1>1, BoundsAssumption, SMTT(30) DEF CallUpload, CallCancel, Typed
<1> QED BY <1>1, <1>3, <1>4, QuietKeepsInv DEF Typed

\* An operation that was started reports its end behind the other calls.
LEMMA ReportKeepsInv ==
  ASSUME Inv, NEW rest, HasTheEnds(rest), NEW o \in Ids, NEW r \in Operations,
         ops[o].state # 0, ops' = [ops EXCEPT ![o] = r], r.file = ops[o].file,
         r.slot = ops[o].slot, r.state # 0, r.reports = ops[o].reports + 1,
         Report(o, rest),
         UNCHANGED <<paths, count, asked, extras, uploads, cancels>>,
         queue' \in Seq(Nat), Distinct(queue'),
         \A x : Contains(queue', x) <=> Contains(queue, x) /\ x # o,
         lost \subseteq lost', lost' \subseteq Files
  PROVE  Inv'
<1> DEFINE c == [what |-> "done", file |-> ops[o].file, op |-> o]
           n == Len(rest)
<1>1. /\ ops \in Seq(Operations) /\ Len(ops) \in Nat /\ Ids = 1..Len(ops)
      /\ ops[o] \in Operations /\ ops[o].reports \in Nat
  <2>1. ops \in Seq(Operations)
    BY DEF Inv, Typed
  <2>2. Len(ops) \in Nat /\ Ids = 1..Len(ops)
    BY <2>1 DEF Ids
  <2>3. ops[o] \in Operations
    BY <2>1, <2>2
  <2> QED BY <2>1, <2>2, <2>3 DEF Operations
<1>2. /\ ops' \in Seq(Operations) /\ Len(ops') = Len(ops) /\ Ids' = Ids
      /\ ops'[o] = r /\ \A p \in Ids \ {o} : ops'[p] = ops[p]
  BY <1>1 DEF Ids
<1>3. c \in Calls /\ c.op = o /\ IsEnd(c) /\ c.file = ops[o].file
  BY <1>1 DEF Calls, IsEnd, Operations
<1>4. /\ calls' = Append(rest, c)
      /\ disturbed \subseteq disturbed' /\ disturbed' \subseteq disturbed \cup {ops[o].file}
      /\ ops[o].reports > 0 => ops[o].file \in disturbed'
  BY DEF Report
<1> HIDE DEF c
<1>5. /\ calls' \in Seq(Calls) /\ n \in Nat
      /\ DOMAIN rest = 1..n /\ DOMAIN calls' = 1..(n + 1)
      /\ \A i \in 1..n : calls'[i] = rest[i]
      /\ calls'[n + 1] = c
  BY <1>3, <1>4, Appended DEF HasTheEnds, CallsTyped
<1> HIDE DEF n
<1>6. ops[o].file \in Files
  BY <1>1 DEF Operations
<1>7. ~Contains(queue, o) /\ \A x : Contains(queue', x) <=> Contains(queue, x)
  <2>1. ~Contains(queue, o)
    <3>1. DOMAIN queue = 1..Len(queue) /\ \A i \in DOMAIN queue : ops[queue[i]].state = 0
      BY DEF Inv, Typed
    <3> QED BY <3>1 DEF Contains
  <2> QED BY <2>1
<1>8. Typed'
  <2>1. CallsTyped(calls)'
    BY <1>1, <1>2, <1>3, <1>5 DEF CallsTyped, HasTheEnds
  <2>2. \A i \in DOMAIN queue' : queue'[i] \in Ids /\ ops'[queue'[i]].state = 0
    <3> SUFFICES ASSUME NEW i \in DOMAIN queue'
                 PROVE  queue'[i] \in Ids /\ ops'[queue'[i]].state = 0
      OBVIOUS
    <3>1. Contains(queue, queue'[i])
      <4>1. DOMAIN queue' = 1..Len(queue')
        OBVIOUS
      <4>2. Contains(queue', queue'[i])
        BY <4>1 DEF Contains
      <4> QED BY <1>7, <4>2
    <3>2. PICK j \in DOMAIN queue : queue[j] = queue'[i]
      BY <3>1 DEF Contains, Inv, Typed
    <3>3. queue[j] \in Ids /\ ops[queue[j]].state = 0
      BY <3>2 DEF Inv, Typed
    <3> QED BY <1>2, <3>2, <3>3
  <2> QED BY <1>2, <1>4, <1>6, <2>1, <2>2 DEF Inv, Typed
<1>9. EndsRight(calls)'
  BY <1>1, <1>2, <1>3, <1>5 DEF HasTheEnds, EndsRight
<1>10. ReportsOnce'
  BY <1>1, <1>2, <1>4 DEF Inv, ReportsOnce
<1>11. \A i \in 1..n : IsEnd(rest[i]) /\ rest[i].op = o => rest[i].file \in disturbed'
  BY <1>4, <1>5 DEF HasTheEnds, EndsRight
<1>12. EndsOnce(calls)'
  <2> SUFFICES ASSUME NEW i \in 1..(n + 1), IsEnd(calls'[i]), calls'[i].file \notin disturbed'
               PROVE  /\ ops'[calls'[i].op].slot
                      /\ \A j \in 1..(n + 1) : IsEnd(calls'[j]) /\ calls'[j].op = calls'[i].op => j = i
    BY <1>5 DEF EndsOnce, IsEnd
  <2>1. CASE i \in 1..n
    <3>1. calls'[i] = rest[i] /\ rest[i].op \in Ids /\ rest[i].op # o
      BY <1>5, <1>11, <2>1 DEF HasTheEnds, EndsRight
    <3>2. /\ ops[rest[i].op].slot
          /\ \A j \in 1..n : IsEnd(rest[j]) /\ rest[j].op = rest[i].op => j = i
      BY <1>4, <1>5, <2>1, <3>1 DEF HasTheEnds, EndsOnce
    <3> QED BY <1>2, <1>3, <1>5, <3>1, <3>2
  <2>2. CASE i = n + 1
    <3>1. calls'[i] = c /\ ops[o].reports = 0
      BY <1>1, <1>3, <1>4, <1>5, <2>2
    <3>2. ops[o].slot
      BY <3>1 DEF Inv, OpsRight
    <3>3. ASSUME NEW j \in 1..n, IsEnd(rest[j]) PROVE rest[j].op # o
      <4>1. ops[rest[j].op].reports > 0
        BY <1>5, <3>3 DEF HasTheEnds, EndsRight
      <4> QED BY <3>1, <4>1
    <3>4. ops'[calls'[i].op].slot
      BY <1>2, <1>3, <3>1, <3>2
    <3>5. \A j \in 1..(n + 1) : j # n + 1 => j \in 1..n /\ calls'[j] = rest[j]
      BY <1>5
    <3>6. \A j \in 1..(n + 1) : IsEnd(calls'[j]) /\ calls'[j].op = o => j = i
      BY <2>2, <3>3, <3>5
    <3> QED BY <1>3, <3>1, <3>4, <3>6
  <2> QED BY <1>5, <2>1, <2>2
<1>13. \A p \in Ids \ {o} : EndWaits(calls', p) <=> EndWaits(calls, p)
  <2> SUFFICES ASSUME NEW p \in Ids \ {o} PROVE EndWaits(calls', p) <=> EndWaits(rest, p)
    BY DEF HasTheEnds
  <2>1. \A i \in 1..(n + 1) : (i \in 1..n /\ calls'[i] = rest[i]) \/ calls'[i] = c
    BY <1>5
  <2>2. EndWaits(calls', p) => EndWaits(rest, p)
    BY <1>3, <1>5, <2>1 DEF EndWaits
  <2>3. EndWaits(rest, p) => EndWaits(calls', p)
    <3>1. \A i \in 1..n : i \in 1..(n + 1)
      BY <1>5
    <3> QED BY <1>5, <3>1 DEF EndWaits
  <2> QED BY <2>2, <2>3
<1>14. EndWaits(calls', o)
  BY <1>3, <1>5, SMTT(30) DEF EndWaits
<1>15. \A p \in Ids \ {o} : OnItsWay(p)' <=> OnItsWay(p)
  BY <1>2, <1>7, <1>13 DEF OnItsWay, EndWaits, IsEnd
<1>16. OnItsWay(o)'
  BY <1>14 DEF OnItsWay, EndWaits, IsEnd
<1>17. Named'
  <2> SUFFICES ASSUME NEW p \in Ids, ops'[p].file \notin disturbed', OnItsWay(p)'
               PROVE  paths[ops'[p].file] = p
    BY <1>2 DEF Named, OnItsWay
  <2>1. CASE p = o
    <3>1. ops[o].reports = 0 /\ ops[o].file \notin disturbed /\ ops'[o].file = ops[o].file
      BY <1>1, <1>2, <1>4, <2>1
    <3>2. OnItsWay(o)
      BY <3>1 DEF OnItsWay, Inv, OpsRight
    <3> QED BY <2>1, <3>1, <3>2 DEF Inv, Named
  <2>2. CASE p # o
    BY <1>2, <1>4, <1>15, <2>2 DEF Inv, Named
  <2> QED BY <2>1, <2>2
<1>18. NamesAreLive'
  <2> SUFFICES ASSUME NEW f \in Files \ lost', paths[f] # None
               PROVE  OnItsWay(paths[f])'
    BY DEF NamesAreLive, OnItsWay
  <2>1. OnItsWay(paths[f])
    BY DEF Inv, NamesAreLive
  <2>2. paths[f] \in Ids
    BY <1>1 DEF Inv, Typed, None
  <2> QED BY <1>15, <1>16, <2>1, <2>2
<1>19. Counted'
  <2>1. Slots' = Slots
    BY <1>2 DEF Slots
  <2> QED BY <2>1 DEF Inv, Counted
<1>20. OpsRight'
  BY <1>1, <1>2 DEF Inv, OpsRight
<1>21. ExtrasOnlyDisturbed' /\ PathsRight'
  <2>1. PathsRight'
    BY <1>1, <1>2 DEF Inv, PathsRight, Typed, None
  <2> QED BY <1>4, <2>1 DEF Inv, ExtrasOnlyDisturbed
<1> QED BY <1>8, <1>9, <1>10, <1>12, <1>17, <1>18, <1>19, <1>20, <1>21 DEF Inv

\* An operation that reports: all else of it stays.
LEMMA Reported ==
  ASSUME NEW x \in Operations, NEW s \in 1..3, NEW b \in BOOLEAN
  PROVE  LET r == [x EXCEPT !.state = s, !.reports = @ + 1, !.flying = b]
         IN  /\ r \in Operations /\ r.file = x.file /\ r.slot = x.slot
             /\ r.state # 0 /\ r.reports = x.reports + 1
<1> DEFINE k == x.reports + 1
<1>1. k \in Nat
  BY DEF Operations
<1> HIDE DEF k
<1> DEFINE r == [x EXCEPT !.state = s, !.reports = k, !.flying = b]
<1>2. /\ r.file = x.file /\ r.slot = x.slot /\ r.state = s /\ r.reports = k /\ r.flying = b
      /\ s \in 0..3 /\ s # 0
  BY DEF Operations
<1>3. r \in Operations
  BY <1>1, <1>2 DEF Operations
<1> QED BY <1>2, <1>3 DEF k

\* A cancellation takes what waits from the queue, and tells what runs to end.
LEMMA CancelKeepsInv ==
  ASSUME Inv, Cancel
  PROVE  Inv'
<1> DEFINE f == Head(calls).file
           o == paths[f]
           rest == Tail(calls)
<1>1. /\ calls # <<>> /\ ~IsEnd(Head(calls))
      /\ UNCHANGED <<paths, count, asked, extras, uploads, cancels>>
  BY DEF Cancel, IsEnd
<1>2. HasTheEnds(rest) /\ f \in Files
  <2>1. calls \in Seq(Calls)
    BY DEF Inv, Typed, CallsTyped
  <2>2. Head(calls) \in Calls
    BY <1>1, <2>1, HeadTaken
  <2> QED BY <1>1, <2>2, OtherTaken DEF Calls
<1>3. Typed
  BY DEF Inv
<1>4. /\ asked' \subseteq Files /\ uploads' \in 0..MaxUploads /\ cancels' \in 0..MaxCancels
      /\ queue \in Seq(Nat) /\ Distinct(queue) /\ lost \subseteq Files
  BY <1>1, <1>3 DEF Typed
<1>5. CASE o = None
  <2>1. calls' = rest /\ UNCHANGED <<queue, ops, lost, disturbed>>
    BY <1>5 DEF Cancel
  <2> QED BY <1>1, <1>2, <1>4, <2>1, QuietKeepsInv
<1>6. CASE o # None
  <2>1. /\ queue' = RemoveFirst(queue, o)
        /\ lost' = IF ops[o].state = 0 THEN lost \cup {f} ELSE lost
    BY <1>6 DEF Cancel
  <2>2. /\ queue' \in Seq(Nat) /\ Distinct(queue')
        /\ \A x : Contains(queue', x) <=> Contains(queue, x) /\ x # o
    BY <1>4, <2>1, Removed
  <2>3. lost \subseteq lost' /\ lost' \subseteq Files
    BY <1>2, <1>4, <2>1
  <2>4. /\ ops \in Seq(Operations) /\ o \in Ids /\ ops[o].file = f
    <3>1. ops \in Seq(Operations) /\ o \in Nat /\ o <= Len(ops)
      BY <1>2, <1>3 DEF Typed
    <3>2. ops[o].file = f
      BY <1>2, <1>6 DEF Inv, PathsRight
    <3> QED BY <1>6, <3>1, <3>2 DEF None, Ids
  <2> HIDE DEF rest, f, o
  <2>5. CASE ops[o].state = 1
    <3>1. PICK behind \in BOOLEAN :
            ops' = [ops EXCEPT ![o].state = 2, ![o].reports = @ + 1, ![o].flying = @ /\ behind]
      BY <1>6, <2>5 DEF Cancel, f, o
    <3>2. Report(o, rest)
      BY <1>6, <2>5 DEF Cancel, f, o, rest
    <3> DEFINE r == [ops[o] EXCEPT !.state = 2, !.reports = @ + 1, !.flying = @ /\ behind]
    <3>3. ops[o] \in Operations
      BY <2>4 DEF Ids
    <3>4. ops' = [ops EXCEPT ![o] = r]
      BY <2>4, <3>1, <3>3 DEF Operations, Ids
    <3>5. /\ r \in Operations /\ r.file = ops[o].file /\ r.slot = ops[o].slot
          /\ r.state # 0 /\ r.reports = ops[o].reports + 1
      <4>1. (ops[o].flying /\ behind) \in BOOLEAN /\ 2 \in 1..3
        OBVIOUS
      <4> QED BY <3>3, <4>1, Reported
    <3> HIDE DEF r
    <3>6. HasTheEnds(rest) /\ o \in Ids /\ ops[o].state # 0 /\ r \in Operations
      BY <1>2, <2>4, <2>5, <3>5
    <3>7. UNCHANGED <<paths, count, asked, extras, uploads, cancels>>
      BY <1>1
    <3> QED BY <2>2, <2>3, <3>2, <3>4, <3>5, <3>6, <3>7, ReportKeepsInv
  <2>6. CASE ops[o].state # 1
    <3>1. calls' = rest /\ UNCHANGED <<ops, disturbed>>
      BY <1>6, <2>6 DEF Cancel, f, o, rest
    <3>2. ASSUME NEW g \in Files \ lost', Contains(queue, paths[g])
          PROVE  Contains(queue', paths[g])
      <4>1. CASE paths[g] # o
        BY <2>2, <3>2, <4>1
      <4>2. CASE paths[g] = o
        <5>1. g = f
          <6>1. PathsRight
            BY DEF Inv
          <6>2. ops[paths[g]].file = g
            BY <1>6, <4>2, <6>1 DEF PathsRight
          <6> QED BY <2>4, <4>2, <6>2
        <5>2. ops[o].state = 0
          <6>1. PICK j \in DOMAIN queue : queue[j] = o
            BY <1>4, <3>2, <4>2 DEF Contains
          <6> QED BY <1>3, <6>1 DEF Typed
        <5> QED BY <2>1, <3>2, <5>1, <5>2
      <4> QED BY <4>1, <4>2
    <3> QED BY <1>1, <1>2, <1>4, <2>2, <2>3, <3>1, <3>2, QuietKeepsInv
  <2> QED BY <2>5, <2>6
<1> QED BY <1>5, <1>6

\* An end of an operation, and an answer to a cancelled one that is not the last.
LEMMA EndsKeepInv ==
  ASSUME Inv, NEW o \in Ids, Ends(o)
  PROVE  Inv'
<1>1. /\ Typed /\ ops \in Seq(Operations) /\ ops[o] \in Operations
      /\ UNCHANGED <<paths, queue, count, asked, lost, extras, uploads, cancels>>
      /\ ops[o].flying
  <2>1. ops \in Seq(Operations)
    BY DEF Inv, Typed
  <2> QED BY <2>1 DEF Inv, Ids, Ends, Finish, Fail, Ignored
<1>2. ops[o].state # 0
  BY <1>1 DEF Inv, OpsRight
<1>3. HasTheEnds(calls)
  BY DEF Inv, Typed, HasTheEnds
<1>4. /\ queue' \in Seq(Nat) /\ Distinct(queue') /\ lost \subseteq lost' /\ lost' \subseteq Files
  BY <1>1 DEF Typed
<1>5. ~Contains(queue, o)
  BY <1>1, <1>2 DEF Typed, Contains
<1>6. \A x : Contains(queue', x) <=> Contains(queue, x) /\ x # o
  <2>1. queue' = queue
    BY <1>1
  <2> QED BY <1>5, <2>1
<1>7. CASE Finish(o) \/ Fail(o)
  <2>1. Report(o, calls)
    BY <1>7 DEF Finish, Fail
  <2>2. PICK s \in {ops[o].state, 3} :
          ops' = [ops EXCEPT ![o] = [ops[o] EXCEPT !.state = s, !.reports = @ + 1, !.flying = FALSE]]
    <3>1. CASE Finish(o)
      BY <1>1, <3>1 DEF Finish, Operations, Ids
    <3>2. CASE Fail(o)
      BY <1>1, <3>2 DEF Fail, Operations, Ids
    <3> QED BY <1>7, <3>1, <3>2
  <2> DEFINE r == [ops[o] EXCEPT !.state = s, !.reports = @ + 1, !.flying = FALSE]
  <2>3. /\ r \in Operations /\ r.file = ops[o].file /\ r.slot = ops[o].slot
        /\ r.state # 0 /\ r.reports = ops[o].reports + 1
    <3>1. s \in 1..3
      BY <1>1, <1>2 DEF Operations
    <3> QED BY <1>1, <3>1, Reported
  <2>4. ops' = [ops EXCEPT ![o] = r]
    BY <2>2
  <2> HIDE DEF r
  <2> QED BY <1>1, <1>2, <1>3, <1>4, <1>6, <2>1, <2>3, <2>4, ReportKeepsInv
<1>8. CASE Ignored(o)
  <2>1. /\ ops' \in Seq(Operations) /\ Len(ops') = Len(ops) /\ Ids' = Ids
        /\ \A p \in Ids : /\ ops'[p].file = ops[p].file /\ ops'[p].state = ops[p].state
                          /\ ops'[p].slot = ops[p].slot /\ ops'[p].reports = ops[p].reports
                          /\ ops'[p].flying => ops[p].flying
    <3> DEFINE r == [ops[o] EXCEPT !.flying = FALSE]
    <3>1. ops' = [ops EXCEPT ![o] = r]
      BY <1>1, <1>8 DEF Ignored, Operations, Ids
    <3>2. r \in Operations /\ r.file = ops[o].file /\ r.slot = ops[o].slot
          /\ r.state = ops[o].state /\ r.reports = ops[o].reports /\ ~r.flying
      BY <1>1 DEF Operations
    <3> HIDE DEF r
    <3> QED BY <1>1, <3>1, <3>2 DEF Ids
  <2>2. UNCHANGED <<calls, disturbed>>
    BY <1>8 DEF Ignored
  <2>3. Typed'
    BY <1>1, <2>1, <2>2 DEF Typed, CallsTyped
  <2>4. Slots' = Slots
    BY <2>1 DEF Slots
  <2>5. OpsRight' /\ ReportsOnce' /\ Counted' /\ ExtrasOnlyDisturbed'
    BY <1>1, <2>1, <2>2, <2>4 DEF Inv, OpsRight, ReportsOnce, Counted, ExtrasOnlyDisturbed
  <2>6. EndsRight(calls)' /\ EndsOnce(calls)'
    BY <2>1, <2>2 DEF Inv, EndsRight, EndsOnce
  <2>7. paths' = paths /\ \A f \in Files : paths[f] # None => paths[f] \in Ids
    BY <1>1 DEF Typed, None, Ids
  <2>8. \A p \in Ids : OnItsWay(p)' <=> OnItsWay(p)
    BY <1>1, <2>1, <2>2 DEF OnItsWay
  <2>9. Named' /\ PathsRight' /\ NamesAreLive'
    BY <1>1, <2>1, <2>2, <2>7, <2>8 DEF Inv, Named, PathsRight, NamesAreLive
  <2> QED BY <2>3, <2>5, <2>6, <2>9 DEF Inv
<1> QED BY <1>7, <1>8 DEF Ends

\* An operation that starts.
LEMMA StartedOne ==
  ASSUME NEW x \in Operations
  PROVE  LET v == [x EXCEPT !.state = 1, !.slot = TRUE, !.flying = TRUE]
         IN  /\ v \in Operations /\ v.file = x.file /\ v.reports = x.reports
             /\ v.state = 1 /\ v.slot = TRUE /\ v.flying = TRUE
<1>1. ASSUME NEW s \in 0..3, NEW b \in BOOLEAN
      PROVE  LET v == [x EXCEPT !.state = s, !.slot = b, !.flying = b]
             IN  /\ v \in Operations /\ v.file = x.file /\ v.reports = x.reports
                 /\ v.state = s /\ v.slot = b /\ v.flying = b
  BY DEF Operations
<1>2. 1 \in 0..3 /\ TRUE \in BOOLEAN
  OBVIOUS
<1> QED BY <1>1, <1>2, Zenon

\* A sequence with one more element, with the last place given another value or not.
LEMMA LastChanged ==
  ASSUME NEW S, NEW s \in Seq(S), NEW v \in S, NEW w \in S, NEW t,
         t = Append(s, v) \/ t = [Append(s, w) EXCEPT ![Len(s) + 1] = v]
  PROVE  /\ t \in Seq(S) /\ Len(t) = Len(s) + 1 /\ t[Len(s) + 1] = v
         /\ \A i \in 1..Len(s) : t[i] = s[i]
<1>1. CASE t = Append(s, v)
  BY <1>1
<1>2. CASE t = [Append(s, w) EXCEPT ![Len(s) + 1] = v]
  <2> DEFINE u == Append(s, w)
  <2>1. /\ Len(s) \in Nat /\ u \in Seq(S) /\ Len(u) = Len(s) + 1
        /\ DOMAIN u = 1..(Len(s) + 1) /\ \A i \in 1..Len(s) : u[i] = s[i]
    OBVIOUS
  <2>2. t = [u EXCEPT ![Len(s) + 1] = v]
    BY <1>2
  <2> HIDE DEF u
  <2>3. t \in Seq(S) /\ Len(t) = Len(u)
    BY <2>1, <2>2
  <2> QED BY <2>1, <2>2, <2>3
<1> QED BY <1>1, <1>2

\* A new operation takes the name, and starts or waits.
LEMMA UploadKeepsInv ==
  ASSUME Inv, Upload
  PROVE  Inv'
<1> DEFINE f == Head(calls).file
           o == Len(ops) + 1
<1>1. /\ Typed /\ calls # <<>> /\ ~IsEnd(Head(calls)) /\ calls' = Tail(calls)
      /\ UNCHANGED <<asked, lost, disturbed, extras, uploads, cancels>>
  BY DEF Inv, Upload, IsEnd
<1>2. HasTheEnds(calls') /\ f \in Files
  <2>1. calls \in Seq(Calls)
    BY <1>1 DEF Typed, CallsTyped
  <2>2. Head(calls) \in Calls
    BY <1>1, <2>1, HeadTaken
  <2> QED BY <1>1, <2>2, OtherTaken DEF Calls
<1>3. CASE paths[f] # None
  <2>1. UNCHANGED <<paths, queue, count, ops>>
    BY <1>3 DEF Upload
  <2> QED BY <1>1, <1>2, <2>1, QuietKeepsInv DEF Typed
<1>4. CASE paths[f] = None
  <2>1. /\ ops \in Seq(Operations) /\ Len(ops) \in Nat /\ Ids = 1..Len(ops)
        /\ o \in Nat /\ o \notin Ids /\ o # None
    <3>1. ops \in Seq(Operations)
      BY <1>1 DEF Typed
    <3> QED BY <3>1 DEF Ids, None
  <2>2. PICK r \in Operations :
          /\ ops' \in Seq(Operations) /\ Len(ops') = o
          /\ ops'[o] = r /\ \A p \in 1..Len(ops) : ops'[p] = ops[p]
          /\ r.file = f /\ r.reports = 0
          /\ \/ /\ r.state = 1 /\ r.slot /\ count < 1
                /\ count' = count + 1 /\ queue' = queue
             \/ /\ r.state = 0 /\ ~r.slot /\ ~r.flying
                /\ count' = count /\ queue' = Append(queue, o)
    <3> DEFINE w == [file |-> f, state |-> 0, slot |-> FALSE, flying |-> FALSE, reports |-> 0]
               v == [w EXCEPT !.state = 1, !.slot = TRUE, !.flying = TRUE]
    <3>1. w \in Operations /\ w.file = f /\ w.reports = 0 /\ w.state = 0 /\ ~w.slot /\ ~w.flying
      BY <1>2 DEF Operations
    <3>2. /\ count < 1 => /\ ops' = Started(Append(ops, w), o)
                         /\ count' = count + 1 /\ queue' = queue
          /\ ~(count < 1) => /\ ops' = Append(ops, w)
                            /\ count' = count /\ queue' = Append(queue, o)
      BY <1>4 DEF Upload
    <3> HIDE DEF w
    <3>3. v \in Operations /\ v.file = f /\ v.reports = 0 /\ v.state = 1 /\ v.slot
      <4>1. /\ v \in Operations /\ v.file = w.file /\ v.reports = w.reports /\ v.state = 1
            /\ v.slot = TRUE /\ v.flying = TRUE
        BY <3>1, StartedOne
      <4> QED BY <3>1, <4>1
    <3>4. CASE count < 1
      <4>1. Append(ops, w)[o] = w /\ o \in DOMAIN Append(ops, w)
        BY <2>1, <3>1
      <4>2. ops' = [Append(ops, w) EXCEPT ![o] = v]
        BY <3>2, <3>4, <4>1 DEF Started
      <4> HIDE DEF v
      <4>3. /\ ops' \in Seq(Operations) /\ Len(ops') = o
            /\ ops'[o] = v /\ \A p \in 1..Len(ops) : ops'[p] = ops[p]
        BY <2>1, <3>1, <3>3, <4>2, LastChanged
      <4> QED BY <3>2, <3>3, <3>4, <4>3
    <3>5. CASE ~(count < 1)
      <4>1. /\ ops' \in Seq(Operations) /\ Len(ops') = o
            /\ ops'[o] = w /\ \A p \in 1..Len(ops) : ops'[p] = ops[p]
        BY <2>1, <3>1, <3>2, <3>5, LastChanged
      <4> QED BY <3>1, <3>2, <3>5, <4>1
    <3> QED BY <3>4, <3>5
  <2>3. paths' = [paths EXCEPT ![f] = o]
    BY <1>4 DEF Upload
  <2> HIDE DEF f, o
  <2>4. /\ ops' \in Seq(Operations) /\ Len(ops') = o /\ Ids' = Ids \cup {o}
        /\ ops'[o] = r /\ \A p \in Ids : ops'[p] = ops[p]
    <3>1. DOMAIN ops' = 1..(Len(ops) + 1) /\ o = Len(ops) + 1
      BY <2>2 DEF o
    <3> QED BY <2>1, <2>2, <3>1 DEF Ids
  <2>5. /\ paths' \in [Files -> Nat] /\ paths'[f] = o
        /\ \A g \in Files \ {f} : paths'[g] = paths[g] /\ g # f
        /\ \A g \in Files : paths[g] # None => paths[g] \in Ids /\ g # f
    <3>1. paths \in [Files -> Nat] /\ \A g \in Files : paths[g] <= Len(ops)
      BY <1>1 DEF Typed
    <3> QED BY <1>2, <1>4, <2>1, <2>3, <3>1 DEF None, f
  <2>6. /\ queue \in Seq(Nat) /\ Distinct(queue)
        /\ \A i \in DOMAIN queue : queue[i] \in Ids /\ ops[queue[i]].state = 0
    BY <1>1 DEF Typed
  <2>7. ~Contains(queue, o)
    BY <2>1, <2>6 DEF Contains
  <2>8. /\ queue' \in Seq(Nat) /\ Distinct(queue')
        /\ \A x : Contains(queue', x) <=> Contains(queue, x) \/ (x = o /\ r.state = 0)
        /\ \A i \in DOMAIN queue' : queue'[i] \in Ids' /\ ops'[queue'[i]].state = 0
    <3>1. CASE queue' = queue /\ r.state = 1
      <4>1. \A i \in DOMAIN queue : queue[i] \in Ids' /\ ops'[queue[i]].state = 0
        BY <2>4, <2>6
      <4> QED BY <2>6, <3>1, <4>1
    <3>2. CASE queue' = Append(queue, o) /\ r.state = 0
      <4>1. /\ Distinct(queue')
            /\ \A x : Contains(queue', x) <=> Contains(queue, x) \/ x = o
        BY <2>1, <2>6, <2>7, <3>2, AppendedDistinct
      <4>2. /\ queue' \in Seq(Nat) /\ Len(queue) \in Nat
            /\ DOMAIN queue = 1..Len(queue) /\ DOMAIN queue' = 1..(Len(queue) + 1)
            /\ \A i \in 1..Len(queue) : queue'[i] = queue[i]
            /\ queue'[Len(queue) + 1] = o
        BY <2>1, <2>6, <3>2, Appended
      <4>3. ASSUME NEW i \in DOMAIN queue' PROVE queue'[i] \in Ids' /\ ops'[queue'[i]].state = 0
        <5>1. CASE i \in DOMAIN queue
          BY <2>4, <2>6, <4>2, <5>1
        <5>2. CASE i = Len(queue) + 1
          BY <2>4, <3>2, <4>2, <5>2
        <5> QED BY <4>2, <4>3, <5>1, <5>2
      <4> QED BY <3>2, <4>1, <4>2, <4>3
    <3> QED BY <2>2, <3>1, <3>2 DEF o
  <2>9. Typed'
    <3>1. CallsTyped(calls)'
      <4>1. CallsTyped(calls')
        BY <1>2 DEF HasTheEnds
      <4>2. calls' \in Seq(Calls) /\ \A i \in DOMAIN calls' : calls'[i] \in Calls
        BY <4>1 DEF CallsTyped
      <4>3. \A i \in DOMAIN calls' : calls'[i].op \in Nat /\ calls'[i].op <= Len(ops)
        BY <4>1, <4>2 DEF CallsTyped, Calls
      <4>4. \A i \in DOMAIN calls' : calls'[i].op <= Len(ops')
        BY <2>1, <2>4, <4>3 DEF o
      <4> QED BY <4>2, <4>4 DEF CallsTyped
    <3>2. \A g \in Files : paths'[g] <= Len(ops')
      <4>1. paths \in [Files -> Nat] /\ \A g \in Files : paths[g] <= Len(ops)
        BY <1>1 DEF Typed
      <4> QED BY <2>1, <2>4, <2>5, <4>1 DEF o
    <3>3. count' \in Int
      BY <1>1, <2>2 DEF Typed
    <3> QED BY <1>1, <2>4, <2>5, <2>8, <3>1, <3>2, <3>3 DEF Typed
  <2>10. Counted'
    <3>1. IsFiniteSet(Slots) /\ Cardinality(Slots) \in Nat /\ o \notin Slots
      BY <2>1, SlotsFinite DEF Slots
    <3>2. Slots' = IF r.slot THEN Slots \cup {o} ELSE Slots
      BY <2>1, <2>4 DEF Slots
    <3>3. Cardinality(Slots \cup {o}) = Cardinality(Slots) + 1
      BY <3>1, FS_AddElement
    <3>4. count = Cardinality(Slots) - extras /\ count <= 1 /\ count \in Int /\ extras \in Nat /\ extras' = extras
      BY <1>1 DEF Inv, Counted, Typed
    <3>5. CASE r.slot
      <4>1. count < 1 /\ count' = count + 1
        BY <2>2, <3>5
      <4>2. Slots' = Slots \cup {o}
        BY <3>2, <3>5
      <4> QED BY <3>1, <3>3, <3>4, <4>1, <4>2 DEF Counted
    <3>6. CASE ~r.slot
      <4>1. count' = count
        BY <2>2, <3>6
      <4> QED BY <3>2, <3>4, <3>6, <4>1 DEF Counted
    <3> QED BY <3>5, <3>6
  <2>11. OpsRight'
    <3>1. OpsRight
      BY DEF Inv
    <3>2. /\ r.state = 0 => ~r.slot /\ ~r.flying /\ r.reports = 0
          /\ r.state # 0 => r.slot /\ r.state = 1
      BY <2>2
    <3> QED BY <2>1, <2>4, <3>1, <3>2 DEF OpsRight
  <2>12. EndsRight(calls)' /\ EndsOnce(calls)'
    <3>1. EndsRight(calls') /\ EndsOnce(calls')
      BY <1>2 DEF HasTheEnds
    <3>2. EndsRight(calls)'
      BY <2>4, <3>1 DEF EndsRight
    <3>3. \A i \in DOMAIN calls' : IsEnd(calls'[i]) => ops'[calls'[i].op] = ops[calls'[i].op]
      BY <2>4, <3>1 DEF EndsRight
    <3> QED BY <1>1, <3>1, <3>2, <3>3 DEF EndsOnce
  <2>13. ReportsOnce' /\ ExtrasOnlyDisturbed' /\ PathsRight'
    <3>1. ReportsOnce'
      <4>1. \A p \in Ids : ops[p].file \notin disturbed => ops[p].reports <= 1
        BY DEF Inv, ReportsOnce
      <4>2. ASSUME NEW p \in Ids', ops'[p].file \notin disturbed PROVE ops'[p].reports <= 1
        <5>1. CASE p = o
          BY <2>2, <2>4, <5>1
        <5>2. CASE p \in Ids
          BY <2>4, <4>1, <4>2, <5>2
        <5> QED BY <2>4, <5>1, <5>2
      <4> QED BY <1>1, <4>2 DEF ReportsOnce
    <3>2. PathsRight'
      <4> SUFFICES ASSUME NEW g \in Files, paths'[g] # None
                   PROVE  ops'[paths'[g]].file = g
        BY DEF PathsRight
      <4>1. CASE g = f
        BY <2>2, <2>4, <2>5, <4>1
      <4>2. CASE g # f
        <5>1. paths'[g] = paths[g] /\ paths[g] \in Ids /\ paths[g] # None
          BY <2>5, <4>2
        <5>2. ops[paths[g]].file = g
          BY <5>1 DEF Inv, PathsRight
        <5> QED BY <2>4, <5>1, <5>2
      <4> QED BY <4>1, <4>2
    <3> QED BY <1>1, <3>1, <3>2 DEF Inv, ExtrasOnlyDisturbed
  <2>14. \A p \in Ids : OnItsWay(p)' <=> OnItsWay(p)
    <3>1. \A p : EndWaits(calls', p) <=> EndWaits(calls, p)
      BY <1>2 DEF HasTheEnds
    <3>2. ASSUME NEW p \in Ids PROVE Contains(queue', p) <=> Contains(queue, p)
      <4>1. p # o
        BY <2>1
      <4> QED BY <2>8, <4>1
    <3> QED BY <2>4, <3>1, <3>2 DEF OnItsWay, EndWaits, IsEnd
  <2>15. Named'
    <3> SUFFICES ASSUME NEW p \in Ids', ops'[p].file \notin disturbed, OnItsWay(p)'
                 PROVE  paths'[ops'[p].file] = p
      BY <1>1 DEF Named, OnItsWay
    <3>1. CASE p = o
      BY <2>2, <2>4, <2>5, <3>1
    <3>2. CASE p \in Ids
      <4>1. paths[ops[p].file] = p /\ ops'[p].file = ops[p].file
        BY <2>4, <2>14, <3>2 DEF Inv, Named
      <4>2. ops[p].file \in Files /\ p # None
        <5>1. ops[p] \in Operations
          BY <2>1, <3>2
        <5> QED BY <2>1, <3>2, <5>1 DEF Operations, None
      <4> QED BY <2>5, <4>1, <4>2
    <3> QED BY <2>4, <3>1, <3>2
  <2>16. NamesAreLive'
    <3> SUFFICES ASSUME NEW g \in Files \ lost, NEW p, p = paths'[g], p # None
                 PROVE  OnItsWay(p)'
      BY <1>1 DEF NamesAreLive, OnItsWay
    <3>1. CASE g = f
      <4>1. p = o
        BY <2>5, <3>1
      <4>2. CASE r.state = 0
        <5>1. Contains(queue', p)
          BY <2>8, <4>1, <4>2
        <5> QED BY <5>1 DEF OnItsWay
      <4>3. CASE r.state = 1
        <5>1. ops'[p].state = 1 /\ ops'[p].reports = 0
          BY <2>2, <2>4, <4>1, <4>3
        <5> QED BY <5>1 DEF OnItsWay
      <4> QED BY <2>2, <4>2, <4>3
    <3>2. CASE g # f
      <4>1. p = paths[g] /\ p \in Ids
        BY <2>5, <3>2
      <4>2. OnItsWay(p)
        BY <4>1 DEF Inv, NamesAreLive
      <4> QED BY <2>14, <4>1, <4>2
    <3> QED BY <3>1, <3>2
  <2> QED BY <2>9, <2>10, <2>11, <2>12, <2>13, <2>15, <2>16 DEF Inv
<1> QED BY <1>3, <1>4

\* An end that is counted: what it says of its operation.
LEMMA HeadEnd ==
  ASSUME Inv, Done
  PROVE  LET o == Head(calls).op IN
         /\ o \in Ids /\ Head(calls).file = ops[o].file /\ ops[o].file \in Files
         /\ ops[o].reports > 0 /\ ops[o].state # 0 /\ EndWaits(calls, o)
         /\ CallsTyped(calls') /\ EndsRight(calls')
         /\ ops[o].file \notin disturbed => ops[o].slot /\ ~EndWaits(calls', o)
         /\ \A p : p # o => (EndWaits(calls', p) <=> EndWaits(calls, p))
         /\ \A i \in DOMAIN calls' : /\ IsEnd(calls'[i]) /\ calls'[i].file \notin disturbed
              => /\ ops[calls'[i].op].slot
                 /\ \A j \in DOMAIN calls' : IsEnd(calls'[j]) /\ calls'[j].op = calls'[i].op => j = i
<1> DEFINE o == Head(calls).op
           n == Len(calls)
<1>1. calls # <<>> /\ IsEnd(Head(calls)) /\ calls' = Tail(calls) /\ calls \in Seq(Calls)
  BY DEF Inv, Typed, CallsTyped, Done, IsEnd
<1>2. /\ calls' \in Seq(Calls) /\ n \in Nat \ {0}
      /\ DOMAIN calls = 1..n /\ DOMAIN calls' = 1..(n - 1)
      /\ \A i \in 1..(n - 1) : calls'[i] = calls[i + 1] /\ i + 1 \in 1..n
      /\ Head(calls) = calls[1] /\ 1 \in 1..n
  BY <1>1, HeadTaken
<1>3. EndsRight(calls) /\ EndsOnce(calls) /\ OpsRight /\ Typed
  BY DEF Inv
<1>4. o \in Ids /\ Head(calls).file = ops[o].file /\ ops[o].reports > 0
  BY <1>1, <1>2, <1>3 DEF EndsRight
<1>5. ops[o].file \in Files /\ ops[o].state # 0
  <2>1. ops[o] \in Operations
    BY <1>3, <1>4 DEF Typed, Ids
  <2>2. ops[o].reports # 0
    BY <1>4, <2>1 DEF Operations
  <2> QED BY <1>3, <1>4, <2>1, <2>2 DEF Operations, OpsRight
<1> HIDE DEF n
<1>6. EndWaits(calls, o)
  BY <1>1, <1>2 DEF EndWaits
<1>7. CallsTyped(calls') /\ EndsRight(calls')
  <2>1. CallsTyped(calls')
    BY <1>2, <1>3 DEF Typed, CallsTyped
  <2> QED BY <1>2, <1>3, <2>1 DEF EndsRight
<1>8. ASSUME ops[o].file \notin disturbed PROVE ops[o].slot /\ ~EndWaits(calls', o)
  <2>1. /\ ops[calls[1].op].slot
        /\ \A j \in 1..n : IsEnd(calls[j]) /\ calls[j].op = calls[1].op => j = 1
    BY <1>1, <1>2, <1>3, <1>4, <1>8 DEF EndsOnce
  <2>2. ASSUME NEW i \in 1..(n - 1), IsEnd(calls'[i]), calls'[i].op = o PROVE FALSE
    <3>1. i + 1 = 1
      BY <1>2, <2>1, <2>2
    <3> QED BY <1>2, <3>1
  <2> QED BY <1>2, <2>1, <2>2 DEF EndWaits
<1>9. ASSUME NEW p, p # o PROVE EndWaits(calls', p) <=> EndWaits(calls, p)
  <2>1. EndWaits(calls', p) => EndWaits(calls, p)
    BY <1>2 DEF EndWaits
  <2>2. EndWaits(calls, p) => EndWaits(calls', p)
    <3> SUFFICES ASSUME NEW i \in 1..n, IsEnd(calls[i]), calls[i].op = p
                 PROVE  EndWaits(calls', p)
      BY <1>2 DEF EndWaits
    <3>1. i # 1
      BY <1>2, <1>9
    <3>2. i - 1 \in 1..(n - 1) /\ (i - 1) + 1 = i
      BY <1>2, <3>1
    <3>3. i - 1 \in DOMAIN calls' /\ calls'[i - 1] = calls[i]
      BY <1>2, <3>2
    <3> QED BY <3>3 DEF EndWaits
  <2> QED BY <2>1, <2>2
<1>10. ASSUME NEW i \in 1..(n - 1), IsEnd(calls'[i]), calls'[i].file \notin disturbed
       PROVE  /\ ops[calls'[i].op].slot
              /\ \A j \in 1..(n - 1) : IsEnd(calls'[j]) /\ calls'[j].op = calls'[i].op => j = i
  <2>1. /\ ops[calls[i + 1].op].slot
        /\ \A j \in 1..n : IsEnd(calls[j]) /\ calls[j].op = calls[i + 1].op => j = i + 1
    BY <1>2, <1>3, <1>10 DEF EndsOnce
  <2>2. ASSUME NEW j \in 1..(n - 1), IsEnd(calls'[j]), calls'[j].op = calls'[i].op PROVE j = i
    <3>1. j + 1 = i + 1
      BY <1>2, <2>1, <2>2
    <3> QED BY <1>2, <3>1
  <2> QED BY <1>2, <2>1, <2>2
<1> QED BY <1>2, <1>4, <1>5, <1>6, <1>7, <1>8, <1>9, <1>10

\* The slot an end gives back is free, or the next operation has it.
LEMMA DoneKeepsInv ==
  ASSUME Inv, Done
  PROVE  Inv'
<1> DEFINE o == Head(calls).op
           f == Head(calls).file
           m == Head(queue)
<1>1. /\ o \in Ids /\ f = ops[o].file /\ f \in Files
      /\ ops[o].reports > 0 /\ ops[o].state # 0 /\ EndWaits(calls, o)
      /\ CallsTyped(calls') /\ EndsRight(calls')
      /\ f \notin disturbed => ops[o].slot /\ ~EndWaits(calls', o)
      /\ \A p : p # o => (EndWaits(calls', p) <=> EndWaits(calls, p))
      /\ \A i \in DOMAIN calls' : /\ IsEnd(calls'[i]) /\ calls'[i].file \notin disturbed
           => /\ ops[calls'[i].op].slot
              /\ \A j \in DOMAIN calls' : IsEnd(calls'[j]) /\ calls'[j].op = calls'[i].op => j = i
  BY HeadEnd
<1>2. /\ Typed /\ UNCHANGED <<lost, disturbed, uploads, cancels>>
      /\ paths' = [paths EXCEPT ![f] = None] /\ asked' = asked \ {f}
      /\ extras' = IF ops[o].slot THEN extras ELSE extras + 1
  BY DEF Inv, Done
<1>3. PICK starts \in BOOLEAN :
        /\ starts => /\ queue # <<>> /\ count' = count /\ queue' = Tail(queue)
                     /\ ops' = Started([ops EXCEPT ![o].slot = FALSE], m)
        /\ ~starts => /\ count' = count - 1 /\ queue' = queue
                      /\ ops' = [ops EXCEPT ![o].slot = FALSE]
  BY DEF Done
<1>4. /\ ops \in Seq(Operations) /\ Len(ops) \in Nat /\ Ids = 1..Len(ops)
      /\ \A p \in Ids : ops[p] \in Operations
  BY <1>2 DEF Typed, Ids
<1>5. /\ queue \in Seq(Nat) /\ Distinct(queue)
      /\ \A i \in DOMAIN queue : queue[i] \in Ids /\ ops[queue[i]].state = 0
  BY <1>2 DEF Typed
<1> HIDE DEF o, f, m
<1>6. \A x : Contains(queue, x) => x \in Ids /\ ops[x].state = 0
  BY <1>5 DEF Contains
<1>7. starts => Contains(queue, m) /\ m \in Ids /\ m # o /\ ops[m].state = 0
  <2> SUFFICES ASSUME starts PROVE Contains(queue, m)
    BY <1>1, <1>6
  <2>1. Len(queue) \in Nat \ {0} /\ Head(queue) = queue[1]
    BY <1>3, <1>5, HeadTaken
  <2> QED BY <2>1 DEF Contains, m
<1>8. /\ queue' \in Seq(Nat) /\ Distinct(queue')
      /\ \A x : Contains(queue', x) <=> Contains(queue, x) /\ ~(starts /\ x = m)
  <2>1. CASE starts
    <3>1. queue # <<>> /\ queue' = Tail(queue)
      BY <1>3, <2>1
    <3>2. /\ Distinct(Tail(queue))
          /\ \A x : Contains(Tail(queue), x) <=> Contains(queue, x) /\ x # m
      BY <1>5, <3>1, TailDistinct DEF m
    <3>3. Tail(queue) \in Seq(Nat)
      BY <1>5, <3>1
    <3> QED BY <2>1, <3>1, <3>2, <3>3
  <2>2. CASE ~starts
    BY <1>3, <1>5, <2>2
  <2> QED BY <2>1, <2>2
<1> DEFINE Freed == [ops[o] EXCEPT !.slot = FALSE]
           Started1 == [ops[m] EXCEPT !.state = 1, !.slot = TRUE, !.flying = TRUE]
<1>9. /\ Freed \in Operations /\ Freed.file = ops[o].file /\ Freed.state = ops[o].state
      /\ ~Freed.slot /\ Freed.reports = ops[o].reports
  BY <1>1, <1>4 DEF Operations
<1>10. starts => /\ Started1 \in Operations /\ Started1.file = ops[m].file
                 /\ Started1.reports = ops[m].reports
                 /\ Started1.state = 1 /\ Started1.slot = TRUE
  BY <1>4, <1>7, StartedOne
<1>11. [ops EXCEPT ![o].slot = FALSE] = [ops EXCEPT ![o] = Freed]
  BY <1>1, <1>4 DEF Operations
<1>12. starts => ops' = [[ops EXCEPT ![o] = Freed] EXCEPT ![m] = Started1]
  <2> SUFFICES ASSUME starts PROVE ops' = [[ops EXCEPT ![o] = Freed] EXCEPT ![m] = Started1]
    OBVIOUS
  <2>1. [ops EXCEPT ![o] = Freed][m] = ops[m]
    BY <1>1, <1>4, <1>7
  <2> QED BY <1>3, <1>11, <2>1 DEF Started
<1> HIDE DEF Freed, Started1
<1>13. /\ ops' \in Seq(Operations) /\ Len(ops') = Len(ops) /\ Ids' = Ids
       /\ ops'[o] = Freed
       /\ starts => ops'[m] = Started1
       /\ \A p \in Ids : p # o /\ ~(starts /\ p = m) => ops'[p] = ops[p]
  <2>1. CASE starts
    BY <1>1, <1>4, <1>7, <1>9, <1>10, <1>12, <2>1 DEF Ids
  <2>2. CASE ~starts
    <3>1. ops' = [ops EXCEPT ![o] = Freed]
      BY <1>3, <1>11, <2>2
    <3> QED BY <1>1, <1>4, <1>9, <2>2, <3>1 DEF Ids
  <2> QED BY <2>1, <2>2
<1>14. /\ \A p \in Ids : ops'[p].file = ops[p].file /\ ops'[p].reports = ops[p].reports
       /\ \A p \in Ids \ {o} : ops[p].slot => ops'[p].slot
  <2>1. ASSUME NEW p \in Ids
        PROVE  ops'[p].file = ops[p].file /\ ops'[p].reports = ops[p].reports
    BY <1>9, <1>10, <1>13
  <2>2. ASSUME NEW p \in Ids \ {o}, ops[p].slot PROVE ops'[p].slot
    BY <1>10, <1>13, <2>2
  <2> QED BY <2>1, <2>2
<1>15. Typed'
  <2>1. CallsTyped(calls)'
    BY <1>1, <1>13 DEF CallsTyped
  <2>2. ASSUME NEW i \in DOMAIN queue' PROVE queue'[i] \in Ids' /\ ops'[queue'[i]].state = 0
    <3>1. Contains(queue', queue'[i])
      <4>1. DOMAIN queue' = 1..Len(queue')
        BY <1>8
      <4> QED BY <4>1 DEF Contains
    <3>2. Contains(queue, queue'[i]) /\ ~(starts /\ queue'[i] = m)
      BY <1>8, <3>1
    <3>3. queue'[i] \in Ids /\ ops[queue'[i]].state = 0 /\ queue'[i] # o
      BY <1>1, <1>6, <3>2
    <3> QED BY <1>13, <3>2, <3>3
  <2>3. paths' \in [Files -> Nat] /\ \A g \in Files : paths'[g] <= Len(ops')
    <3>1. paths \in [Files -> Nat] /\ \A g \in Files : paths[g] <= Len(ops)
      BY <1>2 DEF Typed
    <3>2. paths' \in [Files -> Nat]
      BY <1>2, <3>1 DEF None
    <3>3. \A g \in Files : paths'[g] = paths[g] \/ paths'[g] = 0
      BY <1>2, <3>1 DEF None
    <3>4. \A g \in Files : paths'[g] <= Len(ops)
      BY <1>4, <3>1, <3>3
    <3> QED BY <1>13, <3>2, <3>4
  <2>4. count' \in Int /\ extras' \in Nat
    BY <1>2, <1>3 DEF Typed
  <2> QED BY <1>2, <1>8, <1>13, <2>1, <2>2, <2>3, <2>4 DEF Typed
<1>16. Counted'
  <2>1. IsFiniteSet(Slots) /\ Cardinality(Slots) \in Nat
    BY <1>4, SlotsFinite
  <2>2. starts => m \notin Slots
    BY <1>7 DEF Inv, OpsRight, Slots
  <2>3. Slots' = IF starts THEN (Slots \ {o}) \cup {m} ELSE Slots \ {o}
    <3>1. ASSUME NEW p \in Ids
          PROVE  ops'[p].slot <=> (ops[p].slot /\ p # o) \/ (starts /\ p = m)
      <4>1. CASE p = o
        BY <1>7, <1>9, <1>13, <4>1
      <4>2. CASE starts /\ p = m
        BY <1>10, <1>13, <4>2
      <4>3. CASE p # o /\ ~(starts /\ p = m)
        BY <1>13, <4>3
      <4> QED BY <4>1, <4>2, <4>3
    <3> QED BY <1>7, <1>13, <3>1 DEF Slots
  <2> DEFINE rest == Slots \ {o}
  <2>4. /\ IsFiniteSet(rest) /\ Cardinality(rest) \in Int
        /\ Cardinality(rest) = IF o \in Slots THEN Cardinality(Slots) - 1 ELSE Cardinality(Slots)
    BY <2>1, FS_RemoveElement
  <2>5. starts => Cardinality(rest \cup {m}) = Cardinality(rest) + 1
    BY <2>2, <2>4, FS_AddElement
  <2>6. o \in Slots <=> ops[o].slot
    BY <1>1 DEF Slots
  <2>7. count = Cardinality(Slots) - extras /\ count <= 1 /\ count \in Int /\ extras \in Nat
    BY <1>2 DEF Inv, Counted, Typed
  <2>8. Cardinality(rest) - extras' = count - 1
    <3>1. CASE ops[o].slot
      BY <1>2, <2>1, <2>4, <2>6, <2>7, <3>1
    <3>2. CASE ~ops[o].slot
      <4>1. Cardinality(rest) = Cardinality(Slots) /\ extras' = extras + 1
        BY <1>2, <2>4, <2>6, <3>2
      <4> QED BY <2>1, <2>7, <4>1
    <3> QED BY <3>1, <3>2
  <2>9. extras' \in Nat
    BY <1>2, <2>7
  <2> HIDE DEF rest
  <2>10. CASE starts
    <3>1. Cardinality(Slots') = Cardinality(rest) + 1 /\ count' = count
      BY <1>3, <2>3, <2>5, <2>10 DEF rest
    <3> QED BY <2>4, <2>7, <2>8, <2>9, <3>1 DEF Counted
  <2>11. CASE ~starts
    <3>1. Cardinality(Slots') = Cardinality(rest) /\ count' = count - 1
      BY <1>3, <2>3, <2>11 DEF rest
    <3> QED BY <2>4, <2>7, <2>8, <2>9, <3>1 DEF Counted
  <2> QED BY <2>10, <2>11
<1>17. OpsRight'
  <2> SUFFICES ASSUME NEW p \in Ids
               PROVE  /\ ops'[p].state = 0 => ~ops'[p].slot /\ ~ops'[p].flying /\ ops'[p].reports = 0
                      /\ ops'[p].state # 0 /\ ops'[p].reports = 0 => ops'[p].slot /\ ops'[p].state = 1
    BY <1>13 DEF OpsRight
  <2>1. CASE p = o
    <3>1. ops'[p].state # 0 /\ ops'[p].reports = ops[o].reports
      BY <1>1, <1>9, <1>13, <2>1
    <3>2. ops[o].reports # 0
      BY <1>1
    <3> QED BY <3>1, <3>2
  <2>2. CASE starts /\ p = m
    BY <1>10, <1>13, <2>2
  <2>3. CASE p # o /\ ~(starts /\ p = m)
    BY <1>13, <2>3 DEF Inv, OpsRight
  <2> QED BY <2>1, <2>2, <2>3
<1>18. EndsRight(calls)' /\ EndsOnce(calls)'
  <2>1. EndsRight(calls)'
    BY <1>1, <1>13, <1>14 DEF EndsRight
  <2> SUFFICES ASSUME NEW i \in DOMAIN calls', IsEnd(calls'[i]), calls'[i].file \notin disturbed
               PROVE  /\ ops'[calls'[i].op].slot
                      /\ \A j \in DOMAIN calls' : IsEnd(calls'[j]) /\ calls'[j].op = calls'[i].op => j = i
    BY <1>2, <2>1 DEF EndsOnce
  <2>2. calls'[i].op \in Ids /\ calls'[i].file = ops[calls'[i].op].file
    BY <1>1 DEF EndsRight
  <2>3. /\ ops[calls'[i].op].slot
        /\ \A j \in DOMAIN calls' : IsEnd(calls'[j]) /\ calls'[j].op = calls'[i].op => j = i
    BY <1>1
  <2>4. calls'[i].op # o
    <3> SUFFICES ASSUME calls'[i].op = o PROVE FALSE
      OBVIOUS
    <3>1. f \notin disturbed
      BY <1>1, <2>2
    <3>2. EndWaits(calls', o)
      BY DEF EndWaits
    <3> QED BY <1>1, <3>1, <3>2
  <2> QED BY <1>14, <2>2, <2>3, <2>4
<1>19. ReportsOnce' /\ ExtrasOnlyDisturbed'
  <2>1. ReportsOnce'
    BY <1>2, <1>13, <1>14 DEF Inv, ReportsOnce
  <2>2. ExtrasOnlyDisturbed'
    BY <1>1, <1>2 DEF Inv, ExtrasOnlyDisturbed
  <2> QED BY <2>1, <2>2
<1>20. /\ paths'[f] = None
       /\ \A g \in Files \ {f} : paths'[g] = paths[g]
       /\ \A g \in Files : paths[g] # None => paths[g] \in Ids
  <2>1. paths \in [Files -> Nat] /\ \A g \in Files : paths[g] <= Len(ops)
    BY <1>2 DEF Typed
  <2> QED BY <1>1, <1>2, <1>4, <2>1 DEF None
<1>21. PathsRight'
  <2> SUFFICES ASSUME NEW g \in Files, NEW p, p = paths'[g], p # None
               PROVE  ops'[p].file = g
    BY DEF PathsRight
  <2>1. p = paths[g] /\ p \in Ids
    BY <1>20
  <2> QED BY <1>14, <2>1 DEF Inv, PathsRight
<1>22. \A p \in Ids \ {o} : OnItsWay(p)' <=> OnItsWay(p)
  <2> SUFFICES ASSUME NEW p \in Ids \ {o} PROVE OnItsWay(p)' <=> OnItsWay(p)
    OBVIOUS
  <2>1. EndWaits(calls', p) <=> EndWaits(calls, p)
    BY <1>1
  <2>2. CASE starts /\ p = m
    <3>1. Contains(queue, p)
      BY <1>7, <2>2
    <3>2. ops'[p].state = 1 /\ ops'[p].reports = 0
      <4>1. ops[m].reports = 0
        BY <1>7, <2>2 DEF Inv, OpsRight
      <4> QED BY <1>10, <1>13, <2>2, <4>1
    <3> QED BY <3>1, <3>2 DEF OnItsWay
  <2>3. CASE ~(starts /\ p = m)
    <3>1. ops'[p] = ops[p] /\ (Contains(queue', p) <=> Contains(queue, p))
      BY <1>8, <1>13, <2>3
    <3> QED BY <2>1, <3>1 DEF OnItsWay, EndWaits, IsEnd
  <2> QED BY <2>2, <2>3
<1>23. OnItsWay(o)
  BY <1>1 DEF OnItsWay, EndWaits, IsEnd
<1>24. ASSUME f \notin disturbed, NEW p, p = o, OnItsWay(p)' PROVE FALSE
  <2>1. ~EndWaits(calls', p)
    BY <1>1, <1>24
  <2>2. ~Contains(queue', p)
    BY <1>1, <1>6, <1>8, <1>24
  <2>3. ops'[p].reports = ops[o].reports
    BY <1>1, <1>14, <1>24
  <2>4. ops'[p].reports = 0
    BY <1>24, <2>1, <2>2 DEF OnItsWay, EndWaits, IsEnd
  <2> QED BY <1>1, <2>3, <2>4
<1>25. Named'
  <2> SUFFICES ASSUME NEW p \in Ids, ops[p].file \notin disturbed, OnItsWay(p)'
               PROVE  paths'[ops[p].file] = p
    BY <1>2, <1>13, <1>14 DEF Named, OnItsWay
  <2>1. p # o
    BY <1>1, <1>24
  <2>2. OnItsWay(p) /\ paths[ops[p].file] = p
    BY <1>22, <2>1 DEF Inv, Named
  <2>3. ops[p].file # f
    <3> SUFFICES ASSUME ops[p].file = f PROVE FALSE
      OBVIOUS
    <3>1. paths[f] = o
      BY <1>1, <1>23 DEF Inv, Named
    <3> QED BY <2>1, <2>2, <3>1
  <2>4. ops[p].file \in Files
    BY <1>4 DEF Operations
  <2> QED BY <1>20, <2>2, <2>3, <2>4
<1>26. NamesAreLive'
  <2> SUFFICES ASSUME NEW g \in Files \ lost, NEW p, p = paths'[g], p # None
               PROVE  OnItsWay(p)'
    BY <1>2 DEF NamesAreLive, OnItsWay
  <2>1. g # f /\ p = paths[g] /\ p \in Ids
    BY <1>20
  <2>2. ops[p].file = g
    BY <2>1 DEF Inv, PathsRight
  <2>3. p # o /\ OnItsWay(p)
    BY <1>1, <2>1, <2>2 DEF Inv, NamesAreLive
  <2> QED BY <1>22, <2>1, <2>3
<1> QED BY <1>15, <1>16, <1>17, <1>18, <1>19, <1>21, <1>25, <1>26 DEF Inv

\* Each step of the lane, of its operations and of the user keeps the invariant.
LEMMA NextKeepsInv == Inv /\ [Next]_vars => Inv'
<1> SUFFICES ASSUME Inv, [Next]_vars PROVE Inv'
  OBVIOUS
<1>1. CASE User
  BY <1>1, CallsKeepInv DEF User
<1>2. CASE Loader
  BY <1>2, UploadKeepsInv, CancelKeepsInv, DoneKeepsInv DEF Loader
<1>3. CASE \E o \in Ids : Ends(o)
  BY <1>3, EndsKeepInv
<1>4. CASE UNCHANGED vars
  <2>1. UNCHANGED <<calls, paths, queue, count, ops, asked, lost, disturbed, extras, uploads, cancels>>
    BY <1>4 DEF vars
  <2>2. HasTheEnds(calls')
    BY <2>1 DEF Inv, Typed, HasTheEnds
  <2> QED BY <2>1, <2>2, QuietKeepsInv DEF Inv, Typed
<1> QED BY <1>1, <1>2, <1>3, <1>4 DEF Next
-----------------------------------------------------------------------------
(* What Inv gives. *)

\* The invariant gives the four parts of UploadLaneSafe.
LEMMA InvIsSafe == Inv => UploadLaneSafe
<1> SUFFICES ASSUME Inv PROVE UploadLaneSafe
  OBVIOUS
<1>1. Typed /\ ops \in Seq(Operations) /\ count \in Int /\ extras \in Nat
  BY DEF Inv, Typed
<1>2. IsFiniteSet(Slots) /\ Cardinality(Slots) \in Nat /\ Running \subseteq Slots
  BY <1>1, SlotsFinite DEF Inv, OpsRight, Running, Slots
<1>3. IsFiniteSet(Running) /\ Cardinality(Running) \in Nat /\ Cardinality(Running) <= Cardinality(Slots)
  BY <1>2, FS_Subset, FS_CardinalityType
<1>4. count = Cardinality(Slots) - extras /\ count <= 1
  BY DEF Inv, Counted
<1>5. SlotsRespected
  <2>1. Cardinality(Running) <= 1 + extras
    BY <1>1, <1>2, <1>3, <1>4
  <2>2. ASSUME disturbed = {} PROVE extras = 0 /\ Cardinality(Running) <= count
    <3>1. extras = 0
      BY <2>2 DEF Inv, ExtrasOnlyDisturbed
    <3> QED BY <1>1, <1>2, <1>3, <1>4, <3>1
  <2> QED BY <2>1, <2>2 DEF SlotsRespected
<1>6. OneSender
  <2> SUFFICES ASSUME NEW f \in Files \ disturbed
               PROVE  Cardinality({ o \in Running : ops[o].file = f }) <= 1
    BY DEF OneSender
  <2> DEFINE S == { o \in Running : ops[o].file = f }
  <2>1. \A o \in S : o = paths[f]
    BY DEF Inv, Named, OnItsWay, Running
  <2>2. IsFiniteSet(S)
    BY <1>3, FS_Subset
  <2> HIDE DEF S
  <2>3. IsFiniteSet({paths[f]}) /\ Cardinality({paths[f]}) = 1
    BY FS_Singleton
  <2>4. S \subseteq {paths[f]}
    BY <2>1
  <2>5. Cardinality(S) <= 1
    BY <2>3, <2>4, FS_Subset
  <2> QED BY <2>5 DEF S
<1> QED BY <1>1, <1>5, <1>6, TypedIsTypeOK DEF Inv, UploadLaneSafe

\* One upload runs at a time, and one more for every end that was counted too
\* often; of a file none of whose operations reported twice one upload runs; and
\* a name that is taken stands for an operation that is on its way, unless the
\* file was cancelled while it waited: uploadFile, cancelUploadFile and the two
\* ends of FileLoader keep it, whatever the files, however many calls there are
\* and whenever the operations end.
THEOREM UploadLaneIsSafe == Spec => []UploadLaneSafe
<1>1. Init => Inv
  BY InitInv
<1>2. Inv /\ [Next]_vars => Inv'
  BY NextKeepsInv
<1>3. Inv => UploadLaneSafe
  BY InvIsSafe
<1> QED BY <1>1, <1>2, <1>3, PTL DEF Spec
-----------------------------------------------------------------------------
(***************************************************************************)
(* The upload of one file keeps UploadSafe.  As long as nothing odd        *)
(* happened one request is under way, and the part it sends, what is read  *)
(* of the file and what the server has are in step: Straight.  What is     *)
(* stored stands for parts of one manner: Resumed.  Why nothing odd        *)
(* happens to a file that is there: its runnable is the only one, and no   *)
(* check of a conversion waits when it is started: OneRequest.             *)
(***************************************************************************)

Manners == [chunk : 1..2, big : BOOLEAN]

SendTypes ==
  /\ Sender!TypeOK
  /\ IsFiniteSet(sending) /\ part + Cardinality(sending) <= uploaded

Holds(p) == \E i \in DOMAIN posts : posts[i] = p

\* How far the operation, its conversion and what is stored are, each against the
\* others.
Stages ==
  /\ state = 0 => /\ ~checked /\ sending = {} /\ ~opened /\ failures = 0 /\ finished = {}
                  /\ ~Holds("start")
  /\ ~opened => /\ part = 0 /\ uploaded = 0 /\ sending = {} /\ ~last /\ ~token
                /\ finished = {}
  /\ estimate = 0 => /\ length = Size /\ ~estimating /\ ~announced /\ ~ahead
                     /\ ~Holds("check") /\ ~Holds("final")
  /\ (~estimating \/ announced) => length = Size
  /\ Holds("final") => announced
  /\ (estimate # 0 /\ ~announced) => estimating
  /\ (opened /\ ~estimating) => total = Size
  /\ finished # {} => state = 3
  /\ checked => state # 3
  /\ "forked" \in odd => ahead

\* Names are of the operations so far, and only an operation that has opened its
\* file has given its own.
Names ==
  /\ estimating => info = Sender!NoInfo
  /\ info.size > 0 => info.uploaded < Size
  /\ (opened /\ info.size > 0) => info.id = id
  /\ info.id <= operations /\ id <= operations
  /\ \A s \in server : s.id <= operations
  /\ \A r \in sending : r.id = id
  /\ ~opened => info.id < operations /\ \A s \in server : s.id < operations

\* Of an operation that was started before its conversion said anything.
OneRequest ==
  ~ahead =>
    /\ checked => sending = {}
    /\ \A r, s \in sending : r = s
    /\ sending # {} => token
    /\ \A i \in DOMAIN posts : posts[i] = "start" =>
         i = 1 /\ sending = {} /\ ~checked /\ (state = 1 => failures = 0)

\* Of a file that is there.
NoConversion ==
  estimate = 0 =>
    /\ odd = {}
    /\ opened => manner = Sender!Manner(Size)
    /\ \A s \in server \cup sending : s.manner = Sender!Manner(Size)

\* A part lies where its number says.
Laid(s) == /\ s.at = s.part * s.manner.chunk
           /\ s.len = Sender!Least(s.manner.chunk, Size - s.at)

\* The parts of a name are of one manner.
Even == \A s, t \in server \cup sending : s.id = t.id => s.manner = t.manner

\* The parts before this one are on the server.
Behind(n, name) == \A k \in 0..(n - 1) : \E s \in server : s.id = name /\ s.part = k

\* The one request, and the state the operation is in with and without one.
InStep ==
  /\ opened => Behind(part, id) /\ \A s \in server \cup sending : s.id = id => s.manner = manner
  /\ \A r \in sending : r.part = part
  /\ \A r, s \in sending : r = s
  /\ checked => sending = {}
  /\ (state = 1 /\ failures > 0) => sending = {} /\ ~checked
  /\ state = 2 => failures > 0 /\ (late \/ (sending = {} /\ ~checked))
  /\ state = 3 => sending = {} /\ ~checked /\ (failures > 0 => late)
  /\ (opened /\ sending = {} /\ (checked \/ (state = 1 /\ failures = 0))) =>
       uploaded = part * manner.chunk /\ ~last
  /\ sending # {} =>
       IF last THEN part + 1 = Sender!PartsOf(Size, manner.chunk)
               ELSE uploaded = (part + 1) * manner.chunk
  /\ finished # {} => part = Sender!PartsOf(Size, manner.chunk)
  /\ \A f \in finished : f.id = id /\ f.parts = part

Straight ==
  odd = {} => /\ \A s \in server \cup sending : Laid(s)
              /\ Even
              /\ InStep

\* What is stored is on the server.
Resumed ==
  (odd = {} /\ info.size > 0 /\ info.uploaded > 0) =>
    \E m \in Manners, n \in 1..Size :
      /\ info.uploaded = n * m.chunk
      /\ \A k \in 0..(n - 1) : \E s \in server : s.id = info.id /\ s.part = k /\ s.manner = m

SendInv == SendTypes /\ Stages /\ Names /\ OneRequest /\ NoConversion /\ Straight /\ Resumed

-----------------------------------------------------------------------------

\* What is posted after one more, and after the first was taken.
LEMMA PostedOneMore ==
  ASSUME NEW ps \in Seq({"start", "check", "final"}), NEW p \in {"start", "check", "final"}
  PROVE  /\ Append(ps, p) \in Seq({"start", "check", "final"})
         /\ \A i \in DOMAIN ps : i \in DOMAIN Append(ps, p) /\ Append(ps, p)[i] = ps[i]
         /\ \A i \in DOMAIN Append(ps, p) : \/ i \in DOMAIN ps /\ Append(ps, p)[i] = ps[i]
                                            \/ i = Len(ps) + 1 /\ Append(ps, p)[i] = p
BY Appended

LEMMA PostedOneLess ==
  ASSUME NEW ps \in Seq({"start", "check", "final"}), ps # <<>>
  PROVE  /\ Tail(ps) \in Seq({"start", "check", "final"})
         /\ 1 \in DOMAIN ps /\ ps[1] = Head(ps)
         /\ \A i \in DOMAIN Tail(ps) : i + 1 \in DOMAIN ps /\ Tail(ps)[i] = ps[i + 1] /\ i + 1 # 1
<1>1. /\ Tail(ps) \in Seq({"start", "check", "final"}) /\ Len(ps) \in Nat \ {0}
      /\ DOMAIN ps = 1..Len(ps) /\ DOMAIN Tail(ps) = 1..(Len(ps) - 1)
      /\ \A i \in 1..(Len(ps) - 1) : Tail(ps)[i] = ps[i + 1]
      /\ Head(ps) = ps[1]
  BY HeadTaken
<1> QED BY <1>1

-----------------------------------------------------------------------------

\* The states the program can begin in.
LEMMA SendStarts == Sender!Init => SendInv
<1> SUFFICES ASSUME Sender!Init PROVE SendInv
  OBVIOUS
<1> USE DEF Sender!Init, Sender!NoInfo
<1>1. SendTypes
  <2>1. IsFiniteSet({}) /\ Cardinality({}) = 0
    BY FS_EmptySet
  <2>2. /\ Size \in Nat \ {0} /\ MaxErrors \in Nat /\ MaxOps \in Nat \ {0} /\ MaxCrashes \in Nat
        /\ WideFrom \in Nat /\ BigFrom \in Nat
    BY FileAssumption DEF Sender!SizesAssumption
  <2>3. Sender!Manner(0) \in Manners
    BY <2>2 DEF Sender!Manner, Manners
  <2>4. <<>> \in Seq({"start", "check", "final"}) /\ (estimate # 0) \in BOOLEAN
    OBVIOUS
  <2>5. /\ estimate \in Estimates /\ announced \in BOOLEAN /\ posts \in Seq({"start", "check", "final"})
        /\ checked \in BOOLEAN /\ estimating \in BOOLEAN /\ opened \in BOOLEAN
        /\ last \in BOOLEAN /\ token \in BOOLEAN /\ late \in BOOLEAN /\ ahead \in BOOLEAN
    BY <2>4, Zenon
  <2>6. /\ length \in 0..Size /\ info \in [size : 0..Size, id : 0..MaxOps, uploaded : 0..Size]
        /\ server \subseteq Sender!Parts /\ sending \subseteq Sender!Parts
        /\ finished \subseteq [id : 0..MaxOps, parts : Nat] /\ odd \subseteq {"forked", "changed", "revived"}
    BY <2>2
  <2>7. /\ state \in 0..3 /\ total \in Nat /\ part \in Nat /\ uploaded \in 0..Size
        /\ id \in 0..MaxOps /\ times \in 0..4 /\ failures \in Nat
        /\ errors \in 0..MaxErrors /\ operations \in 1..MaxOps /\ crashes \in 0..MaxCrashes
    BY <2>2
  <2>8. manner \in [chunk : 1..2, big : BOOLEAN]
    BY <2>3 DEF Manners
  <2>9. Sender!TypeOK
    BY <2>5, <2>6, <2>7, <2>8, Zenon DEF Sender!TypeOK
  <2> QED BY <2>1, <2>9 DEF SendTypes
<1>2. Stages
  <2>1. (estimating <=> estimate # 0) /\ odd = {} /\ posts = <<>>
    BY Zenon
  <2>2. ~Holds("start") /\ ~Holds("check") /\ ~Holds("final")
    BY <2>1 DEF Holds
  <2> QED BY <2>1, <2>2 DEF Stages
<1>3. Names
  BY DEF Names
<1>4. OneRequest
  BY DEF OneRequest
<1>5. NoConversion
  BY DEF NoConversion
<1>6. Straight
  BY DEF Straight, Even, InStep
<1>7. Resumed
  BY DEF Resumed
<1> QED BY <1>1, <1>2, <1>3, <1>4, <1>5, <1>6, <1>7 DEF SendInv

\* Grow, of which only the length of the file and what is posted matter.
LEMMA GrowKeeps == SendInv /\ Sender!Grow => SendInv'
<1> SUFFICES ASSUME SendInv, Sender!Grow PROVE SendInv'
  OBVIOUS
<1> USE DEF Sender!Grow, Sender!bounds
<1>0. SendTypes /\ Stages /\ Names /\ OneRequest /\ NoConversion /\ Straight /\ Resumed
  BY DEF SendInv
<1>a. posts \in Seq({"start", "check", "final"}) /\ Size \in Nat /\ length \in 0..Size
  BY <1>0, FileAssumption DEF SendTypes, Sender!TypeOK, Sender!SizesAssumption
<1>b. /\ posts' \in Seq({"start", "check", "final"})
      /\ \A i \in DOMAIN posts' : \/ i \in DOMAIN posts /\ posts'[i] = posts[i]
                                  \/ posts'[i] = "check"
  BY <1>a, PostedOneMore
<1>1. SendTypes'
  BY <1>0, <1>a, <1>b DEF SendTypes, Sender!TypeOK
<1>2. Stages'
  BY <1>0, <1>a, <1>b DEF Stages, Holds
<1>3. Names'
  BY <1>0 DEF Names
<1>4. OneRequest'
  BY <1>0, <1>b DEF OneRequest
<1>5. NoConversion'
  BY <1>0 DEF NoConversion
<1>6. Straight'
  BY <1>0 DEF Straight, Even, InStep, Behind, Laid
<1>7. Resumed'
  BY <1>0 DEF Resumed
<1> QED BY <1>1, <1>2, <1>3, <1>4, <1>5, <1>6, <1>7 DEF SendInv

\* Announce.
LEMMA AnnounceKeeps == SendInv /\ Sender!Announce => SendInv'
<1> SUFFICES ASSUME SendInv, Sender!Announce PROVE SendInv'
  OBVIOUS
<1> USE DEF Sender!Announce, Sender!bounds
<1>0. SendTypes /\ Stages /\ Names /\ OneRequest /\ NoConversion /\ Straight /\ Resumed
  BY DEF SendInv
<1>a. posts \in Seq({"start", "check", "final"})
  BY <1>0 DEF SendTypes, Sender!TypeOK
<1>b. /\ posts' \in Seq({"start", "check", "final"})
      /\ \A i \in DOMAIN posts' : \/ i \in DOMAIN posts /\ posts'[i] = posts[i]
                                  \/ posts'[i] = "final"
  BY <1>a, PostedOneMore
<1>1. SendTypes'
  BY <1>0, <1>a, <1>b DEF SendTypes, Sender!TypeOK
<1>2. Stages'
  BY <1>0, <1>a, <1>b DEF Stages, Holds
<1>3. Names'
  BY <1>0 DEF Names
<1>4. OneRequest'
  BY <1>0, <1>b DEF OneRequest
<1>5. NoConversion'
  BY <1>0 DEF NoConversion
<1>6. Straight'
  BY <1>0 DEF Straight, Even, InStep, Behind, Laid
<1>7. Resumed'
  BY <1>0 DEF Resumed
<1> QED BY <1>1, <1>2, <1>3, <1>4, <1>5, <1>6, <1>7 DEF SendInv

\* Start: unless something is posted already, its runnable is the first.
LEMMA StartKeeps == SendInv /\ Sender!Start => SendInv'
<1> SUFFICES ASSUME SendInv, Sender!Start PROVE SendInv'
  OBVIOUS
<1> USE DEF Sender!Start, Sender!bounds, Sender!world
<1>0. SendTypes /\ Stages /\ Names /\ OneRequest /\ NoConversion /\ Straight /\ Resumed
  BY DEF SendInv
<1>a. posts \in Seq({"start", "check", "final"}) /\ failures \in Nat
  BY <1>0 DEF SendTypes, Sender!TypeOK
<1>b. /\ posts' \in Seq({"start", "check", "final"})
      /\ \A i \in DOMAIN posts' : \/ i \in DOMAIN posts /\ posts'[i] = posts[i]
                                  \/ i = Len(posts) + 1 /\ posts'[i] = "start"
  BY <1>a, PostedOneMore
<1>c. posts # <<>> => \E i \in DOMAIN posts : posts[i] \in {"start", "check", "final"}
  BY <1>a
<1>d. estimate = 0 => posts = <<>>
  BY <1>0, <1>c DEF Stages, Holds
<1>e. ahead' <=> (ahead \/ posts # <<>>)
  BY Zenon
<1>1. SendTypes'
  BY <1>0, <1>a, <1>b DEF SendTypes, Sender!TypeOK
<1>2. Stages'
  BY <1>0, <1>a, <1>b, <1>d, <1>e DEF Stages, Holds
<1>3. Names'
  BY <1>0 DEF Names
<1>4. OneRequest'
  <2>1. posts = <<>> => \A i \in DOMAIN posts' : i = 1
    BY <1>b
  <2> QED BY <1>0, <1>e, <2>1 DEF OneRequest, Stages
<1>5. NoConversion'
  BY <1>0 DEF NoConversion
<1>6. Straight'
  BY <1>0, <1>a DEF Straight, Even, InStep, Behind, Laid, Stages
<1>7. Resumed'
  BY <1>0 DEF Resumed
<1> QED BY <1>1, <1>2, <1>3, <1>4, <1>5, <1>6, <1>7 DEF SendInv

\* Fewer requests are no more than before.
LEMMA FewerSent ==
  ASSUME NEW S, IsFiniteSet(S), NEW r
  PROVE  /\ IsFiniteSet(S \ {r}) /\ Cardinality(S \ {r}) \in Nat /\ Cardinality(S) \in Nat
         /\ Cardinality(S \ {r}) <= Cardinality(S)
         /\ r \in S => Cardinality(S \ {r}) = Cardinality(S) - 1
         /\ Cardinality(S \cup {r}) <= Cardinality(S) + 1 /\ IsFiniteSet(S \cup {r})
         /\ Cardinality(S \cup {r}) \in Nat
<1>1. IsFiniteSet(S \ {r}) /\ Cardinality(S) \in Nat
  BY FS_RemoveElement, FS_CardinalityType
<1>2. Cardinality(S \ {r}) \in Nat
  BY <1>1, FS_CardinalityType
<1>3. r \in S => Cardinality(S \ {r}) = Cardinality(S) - 1
  BY FS_RemoveElement
<1>4. r \notin S => S \ {r} = S
  OBVIOUS
<1>5. /\ IsFiniteSet(S \cup {r})
      /\ Cardinality(S \cup {r}) = IF r \in S THEN Cardinality(S) ELSE Cardinality(S) + 1
  BY FS_AddElement
<1>6. CASE r \in S
  BY <1>1, <1>2, <1>3, <1>5, <1>6
<1>7. CASE r \notin S
  <2>1. Cardinality(S \ {r}) = Cardinality(S)
    BY <1>4, <1>7
  <2>2. Cardinality(S \cup {r}) = Cardinality(S) + 1
    BY <1>5, <1>7
  <2> QED BY <1>1, <1>5, <1>7, <2>1, <2>2
<1> QED BY <1>6, <1>7

\* Cancel: what it leaves running it calls late.
LEMMA CancelKeeps == SendInv /\ Sender!Cancel => SendInv'
<1> SUFFICES ASSUME SendInv, Sender!Cancel PROVE SendInv'
  OBVIOUS
<1> USE DEF Sender!Cancel, Sender!bounds, Sender!world, Sender!Fails, Sender!Cleanup, Sender!NoInfo
<1>0. SendTypes /\ Stages /\ Names /\ OneRequest /\ NoConversion /\ Straight /\ Resumed
  BY DEF SendInv
<1>a. /\ sending' \subseteq sending /\ state = 1 /\ state' = 2 /\ failures' = failures + 1
      /\ info' = [size |-> 0, id |-> 0, uploaded |-> 0]
      /\ UNCHANGED <<estimate, length, announced, server, posts, checked, estimating, opened,
                     total, manner, part, uploaded, id, last, token, times, finished, ahead, odd,
                     errors, operations, crashes>>
  OBVIOUS
<1>b. late' \in BOOLEAN /\ (late' <=> (checked \/ sending' # {}))
  BY Zenon
<1>c. failures \in Nat /\ Size \in Nat \ {0} /\ operations \in 1..MaxOps
  BY <1>0, FileAssumption DEF SendTypes, Sender!TypeOK, Sender!SizesAssumption
<1>1. SendTypes'
  <2>1. IsFiniteSet(sending') /\ Cardinality(sending') <= Cardinality(sending)
        /\ Cardinality(sending') \in Nat /\ Cardinality(sending) \in Nat
    BY <1>0, <1>a, FS_Subset, FS_CardinalityType DEF SendTypes
  <2>2. Sender!TypeOK'
    <3> HIDE DEF Sender!Cancel
    <3>1. info' \in [size : 0..Size, id : 0..MaxOps, uploaded : 0..Size]
      BY <1>a, <1>c, FileAssumption DEF Sender!SizesAssumption
    <3>2. Sender!TypeOK
      BY <1>0 DEF SendTypes
    <3> QED BY <1>a, <1>b, <1>c, <3>1, <3>2 DEF Sender!TypeOK
  <2>3. part \in Nat /\ uploaded \in Nat
    BY <1>0 DEF SendTypes, Sender!TypeOK
  <2> QED BY <1>0, <1>a, <2>1, <2>2, <2>3 DEF SendTypes
<1> HIDE DEF Sender!Cancel
<1>2. Stages'
  BY <1>0, <1>a, <1>c DEF Stages, Holds
<1>3. Names'
  <2>1. ~(info'.size > 0) /\ info'.id = 0 /\ 0 < operations
    BY <1>a, <1>c
  <2>2. 0 <= operations
    BY <1>c
  <2>3. estimating' => info' = [size |-> 0, id |-> 0, uploaded |-> 0]
    BY <1>a
  <2> QED BY <1>0, <1>a, <2>1, <2>2, <2>3 DEF Names
<1>4. OneRequest'
  BY <1>0, <1>a DEF OneRequest
<1>5. NoConversion'
  BY <1>0, <1>a DEF NoConversion
<1>6. Straight'
  <2>1. (\A s \in server \cup sending : Laid(s)) => (\A s \in server \cup sending : Laid(s))'
    BY <1>a DEF Laid
  <2>2. Even => Even'
    BY <1>a DEF Even
  <2>3. odd = {} /\ InStep => InStep'
    BY <1>a, <1>b, <1>c DEF InStep, Behind
  <2> QED BY <1>0, <1>a, <2>1, <2>2, <2>3 DEF Straight
<1>7. Resumed'
  BY <1>a DEF Resumed
<1> QED BY <1>1, <1>2, <1>3, <1>4, <1>5, <1>6, <1>7 DEF SendInv

\* What goes on with a request tests only the state.
LEMMA Tried ==
  ASSUME Sender!TryRequest, NEW S, S = sending'
  PROVE  /\ checked' \in BOOLEAN /\ (checked' <=> state' = 1)
         /\ odd \subseteq odd' /\ odd' \subseteq odd \cup {"forked", "revived"}
         /\ "forked" \in odd' => "forked" \in odd \/ (checked' /\ S # {})
         /\ "revived" \in odd' => "revived" \in odd \/ (checked' /\ failures > 0)
         /\ odd' = {} => odd = {} /\ (checked' => S = {} /\ ~(failures > 0))
<1>1. checked' \in BOOLEAN /\ (checked' <=> state' = 1)
  BY Zenon DEF Sender!TryRequest
<1>2. CASE state' # 1
  BY <1>1, <1>2 DEF Sender!TryRequest
<1>3. CASE state' = 1
  <2>1. odd' = odd \cup (IF S # {} THEN {"forked"} ELSE {})
                   \cup (IF failures > 0 THEN {"revived"} ELSE {})
    BY <1>3 DEF Sender!TryRequest
  <2> QED BY <1>1, <1>3, <2>1
<1> QED BY <1>2, <1>3

\* The runnable of start.
LEMMA RunStartKeeps == SendInv /\ Sender!RunStart => SendInv'
<1> SUFFICES ASSUME SendInv, Sender!RunStart PROVE SendInv'
  OBVIOUS
<1>0. SendTypes /\ Stages /\ Names /\ OneRequest /\ NoConversion /\ Straight /\ Resumed
  BY DEF SendInv
<1>a. /\ ~checked /\ posts # <<>> /\ Head(posts) = "start" /\ posts' = Tail(posts)
      /\ UNCHANGED <<estimate, length, announced, info, server, state, sending, estimating, opened,
                     total, manner, part, uploaded, id, last, token, times, finished, failures,
                     late, ahead, errors, operations, crashes>>
      /\ Sender!TryRequest
  BY DEF Sender!RunStart, Sender!world, Sender!bounds
<1>b. /\ checked' \in BOOLEAN /\ (checked' <=> state = 1)
      /\ odd \subseteq odd' /\ odd' \subseteq odd \cup {"forked", "revived"}
      /\ "forked" \in odd' => "forked" \in odd \/ (checked' /\ sending # {})
      /\ "revived" \in odd' => "revived" \in odd \/ (checked' /\ failures > 0)
      /\ odd' = {} => odd = {} /\ (checked' => sending = {} /\ ~(failures > 0))
  BY <1>a, Tried
<1>c. posts \in Seq({"start", "check", "final"}) /\ failures \in Nat
  BY <1>0 DEF SendTypes, Sender!TypeOK
<1>d. /\ posts' \in Seq({"start", "check", "final"})
      /\ 1 \in DOMAIN posts /\ posts[1] = "start"
      /\ \A i \in DOMAIN posts' : i + 1 \in DOMAIN posts /\ posts'[i] = posts[i + 1] /\ i + 1 # 1
  BY <1>a, <1>c, PostedOneLess
<1>1. SendTypes'
  BY <1>0, <1>a, <1>b, <1>d DEF SendTypes, Sender!TypeOK
<1>e. ~ahead => sending = {} /\ (state = 1 => failures = 0)
  BY <1>0, <1>d DEF OneRequest
<1>2. Stages'
  <2>1. \A p : Holds(p)' => Holds(p)
    BY <1>d DEF Holds
  <2>2. "forked" \in odd' => ahead
    BY <1>0, <1>b, <1>e DEF Stages
  <2>3. state # 0
    BY <1>0, <1>d DEF Stages, Holds
  <2> QED BY <1>0, <1>a, <1>b, <2>1, <2>2, <2>3 DEF Stages
<1>3. Names'
  BY <1>0, <1>a DEF Names
<1>4. OneRequest'
  <2>1. ~ahead => \A i \in DOMAIN posts' : posts'[i] # "start"
    BY <1>0, <1>d DEF OneRequest
  <2> QED BY <1>0, <1>a, <1>b, <1>e, <2>1 DEF OneRequest
<1>5. NoConversion'
  <2>1. estimate = 0 => ~ahead /\ odd = {}
    BY <1>0 DEF Stages, NoConversion
  <2>2. estimate = 0 => odd' = {}
    BY <1>b, <1>c, <1>e, <2>1
  <2> QED BY <1>0, <1>a, <2>2 DEF NoConversion
<1>6. Straight'
  <2>1. (\A s \in server \cup sending : Laid(s)) => (\A s \in server \cup sending : Laid(s))'
    BY <1>a DEF Laid
  <2>2. Even => Even'
    BY <1>a DEF Even
  <2>3. odd' = {} /\ InStep => InStep'
    BY <1>a, <1>b, <1>c DEF InStep, Behind
  <2> QED BY <1>0, <1>b, <2>1, <2>2, <2>3 DEF Straight
<1>7. Resumed'
  BY <1>0, <1>a, <1>b DEF Resumed
<1> QED BY <1>1, <1>2, <1>3, <1>4, <1>5, <1>6, <1>7 DEF SendInv

\* The runnable of checkNewDataAvailable: the end of a conversion gives the upload
\* its size, and one that waits for the file tries again.
LEMMA RunCheckKeeps == SendInv /\ Sender!RunCheck => SendInv'
<1> SUFFICES ASSUME SendInv, Sender!RunCheck PROVE SendInv'
  OBVIOUS
<1>0. SendTypes /\ Stages /\ Names /\ OneRequest /\ NoConversion /\ Straight /\ Resumed
  BY DEF SendInv
<1> DEFINE ends == Head(posts) = "final" /\ estimating
<1>a. /\ ~checked /\ posts # <<>> /\ Head(posts) \in {"check", "final"} /\ posts' = Tail(posts)
      /\ UNCHANGED <<estimate, length, announced, server, state, sending, opened,
                     manner, part, uploaded, id, last, token, times, finished, failures,
                     late, ahead, errors, operations, crashes>>
      /\ token => UNCHANGED <<checked, odd>>
      /\ ~token => Sender!TryRequest
      /\ ends => /\ estimating' = FALSE /\ total' = Size
                 /\ info' = IF opened THEN [size |-> Size, id |-> id, uploaded |-> 0] ELSE info
      /\ ~ends => UNCHANGED <<estimating, total, info>>
  BY DEF Sender!RunCheck, Sender!world, Sender!bounds
<1>b. /\ checked' \in BOOLEAN /\ (checked' => state = 1 /\ ~token)
      /\ odd \subseteq odd' /\ odd' \subseteq odd \cup {"forked", "revived"}
      /\ "forked" \in odd' => "forked" \in odd \/ (checked' /\ sending # {})
      /\ odd' = {} => odd = {} /\ (checked' => sending = {} /\ ~(failures > 0))
  <2>1. CASE token
    <3>1. checked' = checked /\ odd' = odd
      BY <1>a, <2>1
    <3>2. checked \in BOOLEAN /\ ~checked
      BY <1>0, <1>a DEF SendTypes, Sender!TypeOK
    <3> QED BY <3>1, <3>2
  <2>2. CASE ~token
    <3>1. Sender!TryRequest
      BY <1>a, <2>2
    <3> QED BY <1>a, <2>2, <3>1, Tried
  <2> QED BY <2>1, <2>2
<1>c. /\ posts \in Seq({"start", "check", "final"}) /\ failures \in Nat /\ Size \in Nat \ {0}
      /\ id \in 0..MaxOps /\ operations \in 1..MaxOps
      /\ info \in [size : 0..Size, id : 0..MaxOps, uploaded : 0..Size]
  BY <1>0, FileAssumption DEF SendTypes, Sender!TypeOK, Sender!SizesAssumption
<1>d. /\ posts' \in Seq({"start", "check", "final"})
      /\ 1 \in DOMAIN posts /\ posts[1] = Head(posts)
      /\ \A i \in DOMAIN posts' : i + 1 \in DOMAIN posts /\ posts'[i] = posts[i + 1] /\ i + 1 # 1
  BY <1>a, <1>c, PostedOneLess
<1>e. ~ahead => (sending # {} => token) /\ \A i \in DOMAIN posts' : posts'[i] # "start"
  BY <1>0, <1>d DEF OneRequest
<1>f. estimate # 0 /\ (ends => announced /\ length = Size)
  BY <1>0, <1>a, <1>d DEF Stages, Holds
<1>g. ends /\ opened => info' = [size |-> Size, id |-> id, uploaded |-> 0]
  BY <1>a
<1>h. ~(ends /\ opened) => info' = info
  BY <1>a
<1>i. (ends => ~estimating' /\ total' = Size) /\ (~ends => estimating' = estimating /\ total' = total)
  BY <1>a
<1>j. posts[1] = "final" => Holds("final")
  BY <1>d DEF Holds
<1>1. SendTypes'
  <2>1. info' \in [size : 0..Size, id : 0..MaxOps, uploaded : 0..Size]
    BY <1>c, <1>g, <1>h
  <2>2. total' \in Nat /\ estimating' \in BOOLEAN
    BY <1>0, <1>a, <1>c DEF SendTypes, Sender!TypeOK
  <2> HIDE DEF ends
  <2>3. Sender!TypeOK'
    BY <1>0, <1>a, <1>b, <1>d, <2>1, <2>2 DEF SendTypes, Sender!TypeOK
  <2> QED BY <1>0, <1>a, <2>3 DEF SendTypes
<1> HIDE DEF ends
<1>2. Stages'
  <2>1. \A p : Holds(p)' => Holds(p)
    BY <1>d DEF Holds
  <2>2. "forked" \in odd' => ahead
    BY <1>0, <1>b, <1>e DEF Stages
  <2> QED BY <1>0, <1>a, <1>b, <1>f, <1>i, <2>1, <2>2 DEF Stages
<1>3. Names'
  <2>1. estimating' => info' = Sender!NoInfo
    BY <1>0, <1>i, <1>h DEF Names
  <2>2. (info.size > 0 => info.uploaded < Size) => (info'.size > 0 => info'.uploaded < Size)
    BY <1>c, <1>g, <1>h
  <2>3. ((opened /\ info.size > 0) => info.id = id) => ((opened /\ info'.size > 0) => info'.id = id)
    BY <1>g, <1>h
  <2>4. (info.id <= operations /\ id <= operations) => info'.id <= operations
    BY <1>g, <1>h
  <2>5. ~opened => info' = info
    BY <1>h
  <2> QED BY <1>0, <1>a, <2>1, <2>2, <2>3, <2>4, <2>5 DEF Names
<1>4. OneRequest'
  BY <1>0, <1>a, <1>b, <1>e DEF OneRequest
<1>5. NoConversion'
  BY <1>a, <1>f DEF NoConversion
<1>6. Straight'
  <2>1. (\A s \in server \cup sending : Laid(s)) => (\A s \in server \cup sending : Laid(s))'
    BY <1>a DEF Laid
  <2>2. Even => Even'
    BY <1>a DEF Even
  <2>3. odd' = {} /\ InStep => InStep'
    BY <1>a, <1>b, <1>c DEF InStep, Behind
  <2> QED BY <1>0, <1>b, <2>1, <2>2, <2>3 DEF Straight
<1>7. Resumed'
  <2>1. CASE ends /\ opened
    <3>1. ~(info'.uploaded > 0)
      BY <1>g, <2>1
    <3> QED BY <3>1 DEF Resumed
  <2>2. CASE ~(ends /\ opened)
    <3>1. info' = info /\ server' = server /\ (odd' = {} => odd = {})
      BY <1>a, <1>b, <1>h, <2>2
    <3> QED BY <1>0, <3>1 DEF Resumed
  <2> QED BY <2>1, <2>2
<1> QED BY <1>1, <1>2, <1>3, <1>4, <1>5, <1>6, <1>7 DEF SendInv

\* A part refused: nothing is under way, unless it was sent oddly.
LEMMA RejectKeeps == ASSUME SendInv, NEW r \in sending, Sender!Reject(r) PROVE SendInv'
<1>0. SendTypes /\ Stages /\ Names /\ OneRequest /\ NoConversion /\ Straight /\ Resumed
  BY DEF SendInv
<1>a. /\ ~checked /\ errors < MaxErrors /\ errors' = errors + 1
      /\ sending' = sending \ {r} /\ token' = FALSE /\ failures' = failures + 1
      /\ info' = [size |-> 0, id |-> 0, uploaded |-> 0]
      /\ UNCHANGED <<estimate, length, announced, server, state, posts, checked, estimating, opened,
                     total, manner, part, uploaded, id, last, times, finished, late, ahead, odd,
                     operations, crashes>>
  BY DEF Sender!Reject, Sender!Fails, Sender!Cleanup, Sender!NoInfo, Sender!world
<1>c. failures \in Nat /\ Size \in Nat \ {0} /\ operations \in 1..MaxOps /\ MaxErrors \in Nat
  BY <1>0, FileAssumption DEF SendTypes, Sender!TypeOK, Sender!SizesAssumption
<1>d. sending' \subseteq sending /\ sending # {}
  BY <1>a
<1>e. (\A t, s \in sending : t = s) => sending' = {}
  BY <1>a
<1>1. SendTypes'
  <2>1. IsFiniteSet(sending') /\ Cardinality(sending') <= Cardinality(sending)
        /\ Cardinality(sending') \in Nat /\ Cardinality(sending) \in Nat
    BY <1>0, <1>a, FewerSent DEF SendTypes
  <2>2. info' \in [size : 0..Size, id : 0..MaxOps, uploaded : 0..Size]
    BY <1>a, <1>c, FileAssumption DEF Sender!SizesAssumption
  <2>3. Sender!TypeOK
    BY <1>0 DEF SendTypes
  <2>4. sending' \subseteq Sender!Parts /\ failures' \in Nat /\ errors' \in 0..MaxErrors
    BY <1>a, <1>c, <1>d, <2>3 DEF Sender!TypeOK
  <2>6. Sender!TypeOK'
    BY <1>a, <2>2, <2>3, <2>4 DEF Sender!TypeOK
  <2>5. part \in Nat /\ uploaded \in Nat
    BY <2>3 DEF Sender!TypeOK
  <2> QED BY <1>0, <1>a, <2>1, <2>5, <2>6 DEF SendTypes
<1>2. Stages'
  BY <1>0, <1>a, <1>d DEF Stages, Holds
<1>3. Names'
  <2>1. ~(info'.size > 0) /\ info'.id = 0 /\ 0 < operations /\ 0 <= operations
    BY <1>a, <1>c
  <2>2. estimating' => info' = Sender!NoInfo
    BY <1>a DEF Sender!NoInfo
  <2> QED BY <1>0, <1>a, <1>d, <2>1, <2>2 DEF Names
<1>4. OneRequest'
  BY <1>0, <1>a, <1>d, <1>e DEF OneRequest
<1>5. NoConversion'
  BY <1>0, <1>a, <1>d DEF NoConversion
<1>6. Straight'
  <2>1. (\A s \in server \cup sending : Laid(s)) => (\A s \in server \cup sending : Laid(s))'
    BY <1>a, <1>d DEF Laid
  <2>2. Even => Even'
    BY <1>a, <1>d DEF Even
  <2>3. odd = {} /\ InStep => InStep'
    BY <1>a, <1>c, <1>d, <1>e DEF InStep, Behind
  <2> QED BY <1>0, <1>a, <2>1, <2>2, <2>3 DEF Straight
<1>7. Resumed'
  BY <1>a DEF Resumed
<1> QED BY <1>1, <1>2, <1>3, <1>4, <1>5, <1>6, <1>7 DEF SendInv

\* A part on the server.  What an odd upload finished with is not told of.
LEMMA AnswerKeeps == ASSUME SendInv, NEW r \in sending, Sender!Answer(r) PROVE SendInv'
<1>0. SendTypes /\ Stages /\ Names /\ OneRequest /\ NoConversion /\ Straight /\ Resumed
  BY DEF SendInv
<1>a. /\ ~checked /\ sending' = sending \ {r} /\ server' = server \cup {r}
      /\ token' = FALSE /\ part' = part + 1
      /\ last => /\ state' = 3 /\ checked' = FALSE /\ odd' = odd
                 /\ finished' = finished \cup {[id |-> id, parts |-> part + 1]}
                 /\ info' = [size |-> 0, id |-> 0, uploaded |-> 0]
      /\ ~last => UNCHANGED <<state, finished, info>> /\ Sender!TryRequest
      /\ UNCHANGED <<estimate, length, announced, posts, estimating, opened, total, manner,
                     uploaded, id, last, times, failures, late, ahead,
                     errors, operations, crashes>>
  BY DEF Sender!Answer, Sender!Cleanup, Sender!NoInfo, Sender!world, Sender!bounds
<1>b. /\ checked' \in BOOLEAN /\ (checked' <=> (~last /\ state = 1))
      /\ odd \subseteq odd' /\ odd' \subseteq odd \cup {"forked", "revived"}
      /\ "forked" \in odd' => "forked" \in odd \/ (checked' /\ sending' # {})
      /\ "revived" \in odd' => "revived" \in odd \/ (checked' /\ failures > 0)
      /\ odd' = {} => odd = {} /\ (checked' => sending' = {} /\ ~(failures > 0))
  <2>1. CASE last
    <3>1. checked' = FALSE /\ odd' = odd
      BY <1>a, <2>1
    <3> QED BY <2>1, <3>1
  <2>2. CASE ~last
    <3>1. Sender!TryRequest /\ state' = state
      BY <1>a, <2>2
    <3> QED BY <2>2, <3>1, Tried
  <2> QED BY <2>1, <2>2
<1>c. /\ failures \in Nat /\ Size \in Nat \ {0} /\ operations \in 1..MaxOps /\ MaxOps \in Nat
      /\ id \in 0..MaxOps /\ part \in Nat /\ uploaded \in 0..Size /\ state \in 0..3
      /\ manner \in [chunk : 1..2, big : BOOLEAN] /\ last \in BOOLEAN
      /\ info \in [size : 0..Size, id : 0..MaxOps, uploaded : 0..Size]
      /\ sending \subseteq Sender!Parts
  BY <1>0, FileAssumption DEF SendTypes, Sender!TypeOK, Sender!SizesAssumption
<1>d. /\ sending' \subseteq sending /\ sending # {} /\ opened /\ state # 0
      /\ finished' # {} => state' = 3
  BY <1>0, <1>a DEF Stages
<1>e. (\A t, s \in sending : t = s) => sending' = {}
  BY <1>a
<1>f. server' \cup sending' = server \cup sending
  BY <1>a
<1>g. last => /\ info' = [size |-> 0, id |-> 0, uploaded |-> 0] /\ state' = 3 /\ odd' = odd
              /\ finished' = finished \cup {[id |-> id, parts |-> part + 1]}
  BY <1>a
<1>h. ~last => info' = info /\ state' = state /\ finished' = finished
  BY <1>a
<1>1. SendTypes'
  <2>1. IsFiniteSet(sending') /\ Cardinality(sending') = Cardinality(sending) - 1
        /\ Cardinality(sending') \in Nat /\ Cardinality(sending) \in Nat
    BY <1>0, <1>a, FewerSent DEF SendTypes
  <2>2. info' \in [size : 0..Size, id : 0..MaxOps, uploaded : 0..Size]
    BY <1>c, <1>g, <1>h
  <2>3. Sender!TypeOK
    BY <1>0 DEF SendTypes
  <2>4. [id |-> id, parts |-> part + 1] \in [id : 0..MaxOps, parts : Nat]
    BY <1>c
  <2>5. finished' \subseteq [id : 0..MaxOps, parts : Nat] /\ state' \in 0..3
    BY <1>c, <1>g, <1>h, <2>3, <2>4 DEF Sender!TypeOK
  <2>6. server' \subseteq Sender!Parts /\ sending' \subseteq Sender!Parts
    BY <1>c, <1>f, <2>3 DEF Sender!TypeOK
  <2>8. odd' \subseteq {"forked", "changed", "revived"}
    <3>1. odd \subseteq {"forked", "changed", "revived"}
      BY <2>3 DEF Sender!TypeOK
    <3> QED BY <1>b, <3>1
  <2>9. part' \in Nat
    BY <1>a, <1>c
  <2>10. token' \in BOOLEAN
    BY <1>a, Zenon
  <2>7. Sender!TypeOK'
    BY <1>a, <1>b, <2>2, <2>3, <2>5, <2>6, <2>8, <2>9, <2>10 DEF Sender!TypeOK
  <2> QED BY <1>0, <1>a, <1>c, <2>1, <2>7 DEF SendTypes
<1>2. Stages'
  <2>1. "forked" \in odd' => ahead
    BY <1>0, <1>a, <1>b, <1>e DEF Stages, OneRequest
  <2>2. \A p : Holds(p)' <=> Holds(p)
    BY <1>a DEF Holds
  <2>3. state' # 0 /\ (checked' => state' # 3)
    BY <1>b, <1>d, <1>g, <1>h
  <2> QED BY <1>0, <1>a, <1>d, <2>1, <2>2, <2>3 DEF Stages
<1>3. Names'
  <2>1. (info' = info \/ (~(info'.size > 0) /\ info'.id = 0)) /\ 0 < operations /\ 0 <= operations
    BY <1>c, <1>g, <1>h
  <2>2. estimating' => info' = Sender!NoInfo
    BY <1>0, <1>a, <1>g, <1>h DEF Sender!NoInfo, Names
  <2>3. \A s \in server' : s.id <= operations
    BY <1>0, <1>a DEF Names
  <2> QED BY <1>0, <1>a, <1>d, <2>1, <2>2, <2>3 DEF Names
<1>4. OneRequest'
  BY <1>0, <1>a, <1>d, <1>e DEF OneRequest
<1>5. NoConversion'
  <2>1. estimate = 0 => ~ahead /\ odd = {}
    BY <1>0 DEF Stages, NoConversion
  <2>2. ~ahead => sending' = {}
    BY <1>0, <1>e DEF OneRequest
  <2>3. odd = {} /\ state = 1 => ~(failures > 0)
    BY <1>0, <1>d DEF Straight, InStep
  <2>4. estimate = 0 => odd' = {}
    BY <1>b, <2>1, <2>2, <2>3
  <2> QED BY <1>0, <1>a, <1>f, <2>4 DEF NoConversion
<1>6. Straight'
  <2> SUFFICES ASSUME odd' = {} PROVE (/\ \A s \in server \cup sending : Laid(s)
                                       /\ Even
                                       /\ InStep)'
    BY DEF Straight
  <2>0. /\ odd = {} /\ (checked' => ~(failures > 0))
        /\ (\A s \in server \cup sending : Laid(s)) /\ Even /\ InStep
    BY <1>0, <1>b DEF Straight
  <2>1. (\A s \in server \cup sending : Laid(s))'
    BY <1>f, <2>0 DEF Laid
  <2>2. Even'
    BY <1>f, <2>0 DEF Even
  <2>3. /\ sending' = {} /\ r.part = part /\ r.id = id /\ state # 3
        /\ (state = 1 => failures = 0) /\ (state = 2 => late /\ failures > 0)
        /\ IF last THEN part + 1 = Sender!PartsOf(Size, manner.chunk)
                   ELSE uploaded = (part + 1) * manner.chunk
    BY <1>0, <1>c, <1>d, <1>e, <2>0 DEF InStep, Names
  <2>4. finished = {}
    BY <1>0, <2>3 DEF Stages
  <2>5. Behind(part, id)'
    <3>1. \A k \in 0..(part - 1) : \E s \in server : s.id = id /\ s.part = k
      BY <1>d, <2>0 DEF InStep, Behind
    <3>2. r \in server'
      BY <1>a
    <3>3. \A k \in 0..((part + 1) - 1) : k \in 0..(part - 1) \/ k = part
      BY <1>c
    <3>4. \A k \in 0..((part + 1) - 1) : \E s \in server' : s.id = id /\ s.part = k
      BY <1>a, <2>3, <3>1, <3>2, <3>3
    <3> QED BY <1>a, <3>4 DEF Behind
  <2>6. (\A s \in server \cup sending : s.id = id => s.manner = manner)'
    BY <1>a, <1>d, <1>f, <2>0 DEF InStep
  <2>7. \A f \in finished' : f.id = id /\ f.parts = part + 1
    BY <1>g, <1>h, <2>4
  <2>8. finished' # {} => part + 1 = Sender!PartsOf(Size, manner.chunk)
    BY <1>h, <2>3, <2>4
  <2>9. /\ state' = 2 => failures > 0 /\ late
        /\ state' = 1 => ~last /\ failures = 0
        /\ state' = 3 => ~checked' /\ (failures > 0 => late)
        /\ checked' => ~last
    BY <1>b, <1>c, <1>d, <1>g, <1>h, <2>3
  <2>10. ~last => uploaded = (part + 1) * manner.chunk
    BY <2>3
  <2> QED BY <1>a, <2>0, <2>1, <2>2, <2>3, <2>5, <2>6, <2>7, <2>8, <2>9, <2>10 DEF InStep
<1>7. Resumed'
  <2>1. CASE last
    <3>1. ~(info'.size > 0)
      BY <1>g, <2>1
    <3> QED BY <3>1 DEF Resumed
  <2>2. CASE ~last
    BY <1>0, <1>a, <1>b, <1>h, <2>2 DEF Resumed
  <2> QED BY <2>1, <2>2
<1> QED BY <1>1, <1>2, <1>3, <1>4, <1>5, <1>6, <1>7 DEF SendInv

\* The next operation begins with nothing but what is stored and on the server.
LEMMA FreshOperation ==
  ASSUME SendInv, Sender!NewOperation, operations < MaxOps,
         UNCHANGED <<estimate, announced, info, server, ahead, odd, errors>>,
         estimating' \in BOOLEAN, length' \in 0..Size, crashes' \in 0..MaxCrashes,
         estimating' => (estimate # 0 /\ ~announced), ~estimating' => length' = Size,
         (estimate # 0 /\ ~announced) => estimating'
  PROVE  SendInv'
<1>0. SendTypes /\ Stages /\ Names /\ OneRequest /\ NoConversion /\ Straight /\ Resumed
  BY DEF SendInv
<1>a. /\ state' = 0 /\ posts' = <<>> /\ checked' = FALSE /\ opened' = FALSE
      /\ total' = 0 /\ manner' = Sender!Manner(0) /\ part' = 0 /\ uploaded' = 0 /\ id' = 0
      /\ last' = FALSE /\ token' = FALSE /\ times' = 0 /\ sending' = {}
      /\ finished' = {} /\ failures' = 0 /\ late' = FALSE
      /\ operations' = operations + 1
  BY DEF Sender!NewOperation
<1>b. /\ Size \in Nat \ {0} /\ operations \in 1..MaxOps /\ MaxOps \in Nat
      /\ WideFrom \in Nat /\ BigFrom \in Nat /\ id \in 0..MaxOps
      /\ info \in [size : 0..Size, id : 0..MaxOps, uploaded : 0..Size]
      /\ server \subseteq Sender!Parts
  BY <1>0, FileAssumption DEF SendTypes, Sender!TypeOK, Sender!SizesAssumption
<1>c. IsFiniteSet({}) /\ Cardinality({}) = 0
  BY FS_EmptySet
<1>d. \A n \in 0..MaxOps : n <= operations => n < operations + 1 /\ n <= operations + 1
  BY <1>b
<1>e. \A s \in server : s.id \in 0..MaxOps
  BY <1>b DEF Sender!Parts
<1>1. SendTypes'
  <2>1. Sender!Manner(0) \in [chunk : 1..2, big : BOOLEAN]
    BY <1>b DEF Sender!Manner
  <2>2. <<>> \in Seq({"start", "check", "final"}) /\ operations' \in 1..MaxOps
    BY <1>a, <1>b
  <2>3. Sender!TypeOK
    BY <1>0 DEF SendTypes
  <2>4. /\ estimate' \in Estimates /\ announced' \in BOOLEAN /\ posts' \in Seq({"start", "check", "final"})
        /\ checked' \in BOOLEAN /\ opened' \in BOOLEAN
        /\ last' \in BOOLEAN /\ token' \in BOOLEAN /\ late' \in BOOLEAN /\ ahead' \in BOOLEAN
    BY <1>a, <2>2, <2>3 DEF Sender!TypeOK
  <2>5. /\ info' \in [size : 0..Size, id : 0..MaxOps, uploaded : 0..Size]
        /\ server' \subseteq Sender!Parts /\ sending' \subseteq Sender!Parts
        /\ finished' \subseteq [id : 0..MaxOps, parts : Nat] /\ odd' \subseteq {"forked", "changed", "revived"}
    BY <1>a, <1>b, <2>3 DEF Sender!TypeOK
  <2>6. /\ state' \in 0..3 /\ total' \in Nat /\ part' \in Nat /\ uploaded' \in 0..Size
        /\ id' \in 0..MaxOps /\ times' \in 0..4 /\ failures' \in Nat
        /\ errors' \in 0..MaxErrors /\ manner' \in [chunk : 1..2, big : BOOLEAN]
    BY <1>a, <1>b, <2>1, <2>3 DEF Sender!TypeOK
  <2>7. Sender!TypeOK'
    BY <2>2, <2>4, <2>5, <2>6 DEF Sender!TypeOK
  <2> QED BY <1>a, <1>c, <2>7 DEF SendTypes
<1>2. Stages'
  <2>1. ~Holds("start")' /\ ~Holds("check")' /\ ~Holds("final")'
    BY <1>a DEF Holds
  <2> QED BY <1>0, <1>a, <2>1 DEF Stages
<1>3. Names'
  <2>1. estimating' => info' = Sender!NoInfo
    BY <1>0 DEF Stages, Names
  <2>2. \A s \in server' : s.id < operations' /\ s.id <= operations'
    BY <1>0, <1>a, <1>d, <1>e DEF Names
  <2>3. info.id \in 0..MaxOps
    BY <1>b
  <2>4. info'.id < operations' /\ info'.id <= operations'
    BY <1>0, <1>a, <1>d, <2>3 DEF Names
  <2>5. id' <= operations'
    BY <1>a, <1>b
  <2> QED BY <1>0, <1>a, <2>1, <2>2, <2>4, <2>5 DEF Names
<1>4. OneRequest'
  BY <1>a DEF OneRequest
<1>5. NoConversion'
  BY <1>0, <1>a DEF NoConversion
<1>6. Straight'
  <2>1. odd = {} => (\A s \in server' \cup sending' : Laid(s))
    BY <1>0, <1>a DEF Straight
  <2>2. odd = {} => \A s, t \in server' \cup sending' : s.id = t.id => s.manner = t.manner
    BY <1>0, <1>a DEF Straight, Even
  <2>3. InStep'
    BY <1>a DEF InStep
  <2>4. odd' = odd
    OBVIOUS
  <2> QED BY <2>1, <2>2, <2>3, <2>4 DEF Straight, Even, Laid
<1>7. Resumed'
  BY <1>0 DEF Resumed
<1> QED BY <1>1, <1>2, <1>3, <1>4, <1>5, <1>6, <1>7 DEF SendInv

\* The file sent again.
LEMMA AgainKeeps == SendInv /\ Sender!Again => SendInv'
<1> SUFFICES ASSUME SendInv, Sender!Again PROVE SendInv'
  OBVIOUS
<1>1. /\ operations < MaxOps /\ (estimate = 0 \/ announced) /\ Sender!NewOperation /\ estimating' = FALSE
      /\ UNCHANGED <<estimate, length, announced, info, server, ahead, odd, errors, crashes>>
  BY DEF Sender!Again, Sender!world
<1>2. length \in 0..Size /\ crashes \in 0..MaxCrashes /\ (estimate = 0 \/ announced => length = Size)
  BY DEF SendInv, SendTypes, Sender!TypeOK, Stages
<1> QED BY <1>1, <1>2, FreshOperation

\* The process ends.
LEMMA CrashKeeps == SendInv /\ Sender!Crash => SendInv'
<1> SUFFICES ASSUME SendInv, Sender!Crash PROVE SendInv'
  OBVIOUS
<1>1. /\ crashes < MaxCrashes /\ crashes' = crashes + 1 /\ operations < MaxOps /\ Sender!NewOperation
      /\ length' = IF estimating' THEN 0 ELSE length
      /\ UNCHANGED <<estimate, announced, info, server, ahead, odd, errors>>
  BY DEF Sender!Crash
<1>2. estimating' \in BOOLEAN /\ (estimating' <=> (estimate # 0 /\ ~announced))
  BY Zenon DEF Sender!Crash
<1>3. length \in 0..Size /\ crashes \in 0..MaxCrashes /\ (estimate = 0 \/ announced => length = Size)
  BY DEF SendInv, SendTypes, Sender!TypeOK, Stages
<1>4. Size \in Nat /\ MaxCrashes \in Nat
  BY FileAssumption DEF Sender!SizesAssumption
<1>5. length' \in 0..Size /\ crashes' \in 0..MaxCrashes
  BY <1>1, <1>3, <1>4
<1>6. ~estimating' => length' = Size
  BY <1>1, <1>2, <1>3
<1> QED BY <1>1, <1>2, <1>5, <1>6, FreshOperation

-----------------------------------------------------------------------------
(* startUploadRequest: what it goes by, when it opens the file and later. *)

Plan(c) ==
  /\ c.total \in Nat /\ c.manner \in Manners /\ c.at \in 0..Size /\ c.part \in Nat
  /\ c.id \in 0..MaxOps /\ c.times \in 0..4
  /\ c.info \in [size : 0..Size, id : 0..MaxOps, uploaded : 0..Size]
  /\ c.part + Cardinality(sending) <= c.at
  /\ c.id <= operations /\ c.info.id <= operations
  /\ c.info.size > 0 => c.info.id = c.id
  /\ c.info.size > 0 => (c.info.uploaded < Size \/ c.info.uploaded = c.at)
  /\ estimating => c.info = Sender!NoInfo
  /\ ~estimating => c.total = Size
  /\ estimate = 0 => c.manner = Sender!Manner(Size)
  /\ opened => c.id = id

\* What its name has on the server is of the manner it goes on with.
Agrees(c) == \A s \in server : s.id = c.id => s.manner = c.manner

Backs(i) ==
  \E m \in Manners, n \in 1..Size :
    /\ i.uploaded = n * m.chunk
    /\ \A k \in 0..(n - 1) : \E s \in server : s.id = i.id /\ s.part = k /\ s.manner = m

StraightPlan(c) ==
  (odd = {} /\ Agrees(c)) =>
    /\ ~last /\ c.at = c.part * c.manner.chunk /\ Behind(c.part, c.id)
    /\ (c.info.size > 0 /\ c.info.uploaded > 0) => Backs(c.info)

\* Multiples of the size of a part.
LEMMA WholeParts ==
  ASSUME NEW chunk \in 1..2, NEW n \in Nat
  PROVE  /\ n * chunk \in Nat /\ (n * chunk) \div chunk = n
         /\ (n * chunk) \div chunk <= n * chunk /\ n <= n * chunk
         /\ n \div chunk \in Nat /\ n \div chunk <= n
         /\ (n + 1) * chunk = n * chunk + chunk /\ 0 * chunk = 0 /\ 0 \div chunk = 0
<1>1. CASE chunk = 1
  BY <1>1
<1>2. CASE chunk = 2
  BY <1>2
<1> QED BY <1>1, <1>2

\* A later request goes by what the operation has.
LEMMA SavedPlan ==
  ASSUME SendInv, checked, opened
  PROVE  Plan(Sender!Saved) /\ StraightPlan(Sender!Saved)
<1>0. SendTypes /\ Stages /\ Names /\ OneRequest /\ NoConversion /\ Straight /\ Resumed
  BY DEF SendInv
<1>a. /\ Size \in Nat \ {0} /\ total \in Nat /\ manner \in Manners /\ uploaded \in 0..Size /\ part \in Nat
      /\ id \in 0..MaxOps /\ times \in 0..4
      /\ info \in [size : 0..Size, id : 0..MaxOps, uploaded : 0..Size]
  BY <1>0, FileAssumption DEF SendTypes, Sender!TypeOK, Sender!SizesAssumption, Manners
<1> DEFINE c == Sender!Saved
<1>b. /\ c.total = total /\ c.manner = manner /\ c.at = uploaded /\ c.part = part /\ c.id = id
      /\ c.times \in 0..4
      /\ c.info = info \/ (~estimating /\ c.info = [info EXCEPT !.uploaded = uploaded])
  BY <1>a DEF Sender!Saved, Sender!Stored
<1> HIDE DEF c
<1>c. /\ c.info \in [size : 0..Size, id : 0..MaxOps, uploaded : 0..Size]
      /\ c.info.size = info.size /\ c.info.id = info.id
      /\ c.info.uploaded = info.uploaded \/ c.info.uploaded = uploaded
      /\ estimating => c.info = info
  BY <1>a, <1>b
<1>1. Plan(c)
  BY <1>0, <1>a, <1>b, <1>c DEF Plan, SendTypes, Stages, Names, NoConversion
<1>2. StraightPlan(c)
  <2> SUFFICES ASSUME odd = {}, Agrees(c)
               PROVE  /\ ~last /\ c.at = c.part * c.manner.chunk /\ Behind(c.part, c.id)
                      /\ (c.info.size > 0 /\ c.info.uploaded > 0) => Backs(c.info)
    BY DEF StraightPlan
  <2>1. InStep
    BY <1>0 DEF Straight
  <2>2. ~last /\ uploaded = part * manner.chunk /\ Behind(part, id)
    BY <2>1 DEF InStep
  <2>3. ASSUME c.info.size > 0, c.info.uploaded > 0 PROVE Backs(c.info)
    <3>1. CASE c.info.uploaded = info.uploaded
      <4>1. \E m \in Manners, n \in 1..Size :
              /\ info.uploaded = n * m.chunk
              /\ \A k \in 0..(n - 1) : \E s \in server : s.id = info.id /\ s.part = k /\ s.manner = m
        BY <1>0, <1>c, <2>3, <3>1 DEF Resumed
      <4> QED BY <1>c, <3>1, <4>1 DEF Backs
    <3>2. CASE c.info.uploaded = uploaded
      <4>1. info.id = id
        BY <1>0, <1>c, <2>3 DEF Names
      <4>2. manner.chunk \in 1..2 /\ Size \in Nat
        BY <1>a DEF Manners
      <4>3. part <= uploaded /\ (part = 0 => part * manner.chunk = 0)
        BY <1>a, <2>2, <4>2, WholeParts
      <4>4. part \in 1..Size
        BY <1>a, <2>2, <2>3, <3>2, <4>3
      <4>5. \A k \in 0..(part - 1) : \E s \in server : s.id = id /\ s.part = k
        BY <2>2 DEF Behind
      <4>6. \A k \in 0..(part - 1) : \E s \in server : s.id = id /\ s.part = k /\ s.manner = manner
        BY <1>b, <4>5 DEF Agrees
      <4> QED BY <1>a, <1>c, <2>2, <3>2, <4>1, <4>4, <4>6 DEF Backs
    <3> QED BY <1>c, <3>1, <3>2
  <2> QED BY <1>b, <2>2, <2>3
<1> QED BY <1>1, <1>2 DEF c

\* The first one goes on from what is stored, or begins anew.
LEMMA OpenedPlan ==
  ASSUME SendInv, checked, ~opened, NEW expired \in BOOLEAN
  PROVE  Plan(Sender!Opened(expired)) /\ StraightPlan(Sender!Opened(expired))
<1>0. SendTypes /\ Stages /\ Names /\ OneRequest /\ NoConversion /\ Straight /\ Resumed
  BY DEF SendInv
<1>a. /\ Size \in Nat \ {0} /\ WideFrom \in Nat /\ BigFrom \in Nat /\ estimate \in Nat
      /\ length \in 0..Size /\ times \in 0..4 /\ operations \in 1..MaxOps /\ MaxOps \in Nat
      /\ info \in [size : 0..Size, id : 0..MaxOps, uploaded : 0..Size]
  BY <1>0, FileAssumption DEF SendTypes, Sender!TypeOK, Sender!SizesAssumption
<1>b. sending = {} /\ ~last /\ Cardinality(sending) = 0 /\ (~estimating => length = Size)
  BY <1>0, FS_EmptySet DEF Stages
<1> DEFINE c == Sender!Opened(expired)
           size == IF estimating THEN estimate ELSE length
           same == ~estimating /\ info.size = size /\ (expired \/ info.uploaded > 0)
<1>c. /\ c.total = size /\ c.manner = Sender!Manner(size) /\ c.times = times
      /\ c.at = (IF same /\ ~expired THEN info.uploaded ELSE 0)
      /\ c.part = c.at \div c.manner.chunk
      /\ c.id = (IF same THEN info.id ELSE operations)
      /\ c.info = IF same \/ estimating THEN info ELSE [size |-> size, id |-> operations, uploaded |-> 0]
  BY DEF Sender!Opened
<1>d. size \in Nat /\ (~estimating => size = Size /\ size > 0) /\ (same => ~estimating /\ info.size = size)
  BY <1>a, <1>b
<1>e. /\ c.total \in Nat /\ c.manner \in Manners /\ c.times \in 0..4
      /\ (~estimating => c.total = Size /\ c.manner = Sender!Manner(Size))
  BY <1>a, <1>c, <1>d DEF Sender!Manner, Manners
<1>f. /\ same /\ ~expired => c.at = info.uploaded /\ info.uploaded > 0
      /\ ~(same /\ ~expired) => c.at = 0
      /\ same => c.id = info.id /\ c.info = info
      /\ ~same => c.id = operations
      /\ ~same /\ ~estimating => c.info = [size |-> Size, id |-> operations, uploaded |-> 0]
      /\ estimating => c.info = info /\ ~same
  BY <1>c, <1>d
<1>i. c.part = c.at \div c.manner.chunk
  BY <1>c
<1> HIDE DEF c, size, same
<1>g. /\ c.at \in 0..Size /\ c.id \in 0..MaxOps
      /\ c.info \in [size : 0..Size, id : 0..MaxOps, uploaded : 0..Size]
  BY <1>a, <1>f
<1>h. c.manner.chunk \in 1..2 /\ c.at \in Nat
  BY <1>a, <1>e, <1>g DEF Manners
<1>1. Plan(c)
  <2>1. c.part \in Nat /\ c.part <= c.at
    BY <1>h, <1>i, WholeParts
  <2>2. c.part + Cardinality(sending) <= c.at
    BY <1>b, <1>h, <2>1
  <2>3. estimating => c.info = Sender!NoInfo /\ ~(c.info.size > 0)
    BY <1>0, <1>f DEF Names, Sender!NoInfo
  <2>4. c.id <= operations /\ c.info.id <= operations
    <3>1. info.id <= operations /\ operations <= operations
      BY <1>0, <1>a DEF Names
    <3> QED BY <1>f, <3>1
  <2>5. c.info.size > 0 => c.info.id = c.id
    BY <1>f, <2>3
  <2>6. c.info.size > 0 => c.info.uploaded < Size
    BY <1>0, <1>a, <1>f DEF Names
  <2>7. estimate = 0 => c.manner = Sender!Manner(Size)
    BY <1>0, <1>e DEF Stages
  <2> QED BY <1>e, <1>g, <2>1, <2>2, <2>3, <2>4, <2>5, <2>6, <2>7 DEF Plan
<1>2. StraightPlan(c)
  <2> SUFFICES ASSUME odd = {}, Agrees(c)
               PROVE  /\ ~last /\ c.at = c.part * c.manner.chunk /\ Behind(c.part, c.id)
                      /\ (c.info.size > 0 /\ c.info.uploaded > 0) => Backs(c.info)
    BY DEF StraightPlan
  <2>1. (info.size > 0 /\ info.uploaded > 0) => Backs(info)
    BY <1>0 DEF Resumed, Backs
  <2>2. (c.info.size > 0 /\ c.info.uploaded > 0) => Backs(c.info)
    BY <1>f, <2>1
  <2>3. CASE ~(same /\ ~expired)
    <3>1. c.at = 0 /\ c.part = 0 /\ 0 * c.manner.chunk = 0
      BY <1>f, <1>h, <1>i, <2>3, WholeParts
    <3>2. Behind(c.part, c.id)
      BY <3>1 DEF Behind
    <3> QED BY <1>b, <2>2, <3>1, <3>2
  <2>4. CASE same /\ ~expired
    <3>1. info.size > 0 /\ info.uploaded > 0 /\ c.at = info.uploaded /\ c.id = info.id
      BY <1>d, <1>f, <2>4
    <3>2. PICK m \in Manners, n \in 1..Size :
            /\ info.uploaded = n * m.chunk
            /\ \A k \in 0..(n - 1) : \E s \in server : s.id = info.id /\ s.part = k /\ s.manner = m
      BY <2>1, <3>1 DEF Backs
    <3>3. 0 \in 0..(n - 1) /\ n \in Nat
      BY <1>a
    <3>4. m = c.manner
      BY <3>1, <3>2, <3>3 DEF Agrees
    <3>5. c.part = n
      BY <1>h, <1>i, <3>1, <3>2, <3>3, <3>4, WholeParts
    <3>6. Behind(c.part, c.id)
      BY <3>1, <3>2, <3>5 DEF Behind
    <3> QED BY <1>b, <2>2, <3>1, <3>2, <3>4, <3>5, <3>6
  <2> QED BY <2>3, <2>4
<1> QED BY <1>1, <1>2 DEF c

\* The request that goes by a plan: how much there is to read, and what is sent.
There(c) == Sender!Least(c.manner.chunk, length - c.at)

Sent(c) == [id |-> c.id, part |-> c.part, at |-> c.at, len |-> There(c), manner |-> c.manner]

Lasting(c) == Sender!IsLast(c, There(c))

Waits(c) == Sender!FallsShort(c.at, c.manner.chunk)

\* What every request leaves as it was, and what it takes from its plan.
Goes(c) ==
  /\ checked /\ checked' = FALSE
  /\ opened' = TRUE /\ total' = c.total /\ manner' = c.manner
  /\ part' = c.part /\ id' = c.id /\ times' = c.times
  /\ odd' = Sender!Odd(c)
  /\ UNCHANGED <<estimate, length, announced, server, state, posts, estimating, finished, late,
                 ahead, errors, operations, crashes>>

\* Waits for more of the file; finds nothing more; sends a part.
Wait(c) == /\ Goes(c) /\ Waits(c)
           /\ info' = c.info /\ uploaded' = c.at
           /\ UNCHANGED <<sending, token, last, failures>>
FindsNone(c) == /\ Goes(c) /\ ~Waits(c) /\ There(c) <= 0
                /\ failures' = failures + 1 /\ info' = Sender!NoInfo
                /\ uploaded' = c.at /\ last' = TRUE
                /\ UNCHANGED <<sending, token>>
Sends(c) == /\ Goes(c) /\ ~Waits(c) /\ There(c) > 0
            /\ info' = c.info /\ uploaded' = c.at + There(c)
            /\ last' = (last \/ Lasting(c))
            /\ sending' = sending \cup {Sent(c)} /\ token' = TRUE
            /\ UNCHANGED failures

LEMMA RequestGoes ==
  ASSUME SendInv, Sender!Request
  PROVE  \E c : Plan(c) /\ StraightPlan(c) /\ (Wait(c) \/ FindsNone(c) \/ Sends(c))
<1>1. PICK c \in IF opened THEN {Sender!Saved}
                           ELSE { Sender!Opened(expired) : expired \in BOOLEAN } :
        /\ opened' = TRUE /\ total' = c.total /\ manner' = c.manner
        /\ part' = c.part /\ id' = c.id /\ times' = c.times
        /\ odd' = Sender!Odd(c)
        /\ IF Waits(c)
           THEN /\ info' = c.info /\ uploaded' = c.at
                /\ UNCHANGED <<sending, token, last, failures>>
           ELSE IF There(c) <= 0
           THEN /\ Sender!Fails /\ uploaded' = c.at /\ last' = TRUE
                /\ UNCHANGED <<sending, token>>
           ELSE /\ info' = c.info /\ uploaded' = c.at + There(c)
                /\ last' = (last \/ Lasting(c))
                /\ sending' = sending \cup {Sent(c)} /\ token' = TRUE
                /\ UNCHANGED failures
  BY Zenon DEF Sender!Request, There, Waits, Lasting, Sent
<1>2. /\ checked /\ checked' = FALSE
      /\ UNCHANGED <<estimate, length, announced, server, state, posts, estimating, finished, late,
                     ahead, errors, operations, crashes>>
  BY DEF Sender!Request, Sender!world, Sender!bounds
<1>3. Plan(c) /\ StraightPlan(c)
  <2>1. CASE opened
    <3>1. c = Sender!Saved
      BY <1>1, <2>1
    <3> QED BY <1>2, <2>1, <3>1, SavedPlan
  <2>2. CASE ~opened
    <3>1. PICK expired \in BOOLEAN : c = Sender!Opened(expired)
      BY <1>1, <2>2
    <3> QED BY <1>2, <2>2, <3>1, OpenedPlan
  <2> QED BY <2>1, <2>2
<1>4. Goes(c)
  BY <1>1, <1>2, Zenon DEF Goes
<1>5. CASE Waits(c)
  <2>1. Wait(c)
    BY <1>1, <1>4, <1>5, Zenon DEF Wait
  <2> QED BY <1>3, <2>1
<1>6. CASE ~Waits(c) /\ There(c) <= 0
  <2>1. FindsNone(c)
    BY <1>1, <1>4, <1>6, Zenon DEF FindsNone, Sender!Fails, Sender!Cleanup
  <2> QED BY <1>3, <2>1
<1>7. CASE ~Waits(c) /\ ~(There(c) <= 0)
  <2>1. There(c) > 0
    <3>1. /\ length \in 0..Size /\ Size \in Nat
      BY FileAssumption DEF SendInv, SendTypes, Sender!TypeOK, Sender!SizesAssumption
    <3>2. c.at \in 0..Size /\ c.manner.chunk \in 1..2
      BY <1>3 DEF Plan, Manners
    <3>3. There(c) \in Int
      BY <3>1, <3>2 DEF There, Sender!Least
    <3> QED BY <1>7, <3>3
  <2>2. Sends(c)
    BY <1>1, <1>4, <1>7, <2>1, Zenon DEF Sends
  <2> QED BY <1>3, <2>2
<1> QED BY <1>5, <1>6, <1>7

\* What Goes keeps, whatever came of the request.
LEMMA GoesOn ==
  ASSUME SendInv, NEW c, Plan(c), Goes(c)
  PROVE  /\ state # 0 /\ state # 3 /\ finished = {} /\ opened' /\ ~checked'
         /\ odd \subseteq odd' /\ odd' \subseteq odd \cup {"changed"}
         /\ (odd' = {} => odd = {} /\ Agrees(c))
         /\ (~ahead => sending = {} /\ \A i \in DOMAIN posts : posts[i] # "start")
         /\ (odd = {} => sending = {} /\ ~(state = 1 /\ failures > 0)
                         /\ (state = 2 => failures > 0 /\ late))
         /\ (\A r \in sending : r.id = c.id)
         /\ (estimate = 0 => odd = {} /\ odd' = {} /\ sending = {} /\ c.manner = Sender!Manner(Size)
                             /\ \A s \in server : s.manner = Sender!Manner(Size))
<1>0. SendTypes /\ Stages /\ Names /\ OneRequest /\ NoConversion /\ Straight
  BY DEF SendInv
<1>a. checked /\ checked' = FALSE /\ opened' = TRUE /\ odd' = Sender!Odd(c)
  BY DEF Goes
<1>1. state # 0 /\ state # 3 /\ finished = {}
  BY <1>0, <1>a DEF Stages
<1>2. /\ odd \subseteq odd' /\ odd' \subseteq odd \cup {"changed"}
      /\ (odd' = {} => odd = {} /\ Agrees(c))
      /\ Agrees(c) => odd' = odd
  BY <1>a DEF Sender!Odd, Agrees
<1>3. ~ahead => sending = {} /\ \A i \in DOMAIN posts : posts[i] # "start"
  BY <1>0, <1>a DEF OneRequest
<1>4. odd = {} => sending = {} /\ ~(state = 1 /\ failures > 0) /\ (state = 2 => failures > 0 /\ late)
  BY <1>0, <1>a DEF Straight, InStep
<1>5. \A r \in sending : r.id = c.id
  BY <1>0 DEF Stages, Names, Plan
<1>6. estimate = 0 => odd = {} /\ sending = {} /\ c.manner = Sender!Manner(Size)
                      /\ \A s \in server : s.manner = Sender!Manner(Size)
  BY <1>0, <1>4 DEF NoConversion, Plan
<1>7. estimate = 0 => odd' = {}
  BY <1>2, <1>6 DEF Agrees
<1> QED BY <1>a, <1>1, <1>2, <1>3, <1>4, <1>5, <1>6, <1>7

\* The types after a request, from those of the variables its outcomes differ in.
LEMMA GoesTyped ==
  ASSUME SendInv, NEW c, Plan(c), Goes(c),
         info' \in [size : 0..Size, id : 0..MaxOps, uploaded : 0..Size],
         uploaded' \in 0..Size, last' \in BOOLEAN, sending' \subseteq Sender!Parts,
         token' \in BOOLEAN, failures' \in Nat
  PROVE  Sender!TypeOK'
<1>1. Sender!TypeOK
  BY DEF SendInv, SendTypes
<1>2. /\ c.total \in Nat /\ c.manner \in [chunk : 1..2, big : BOOLEAN] /\ c.part \in Nat
      /\ c.id \in 0..MaxOps /\ c.times \in 0..4
  BY DEF Plan, Manners
<1>3. odd' \subseteq {"forked", "changed", "revived"}
  <2>1. odd \subseteq {"forked", "changed", "revived"}
    BY <1>1 DEF Sender!TypeOK
  <2> QED BY <2>1, GoesOn
<1>4. checked' \in BOOLEAN /\ opened' \in BOOLEAN
  BY Zenon DEF Goes
<1>5. /\ UNCHANGED <<estimate, length, announced, server, state, posts, estimating, finished, late,
                     ahead, errors, operations, crashes>>
      /\ total' = c.total /\ manner' = c.manner /\ part' = c.part /\ id' = c.id /\ times' = c.times
  BY DEF Goes
<1> QED BY <1>1, <1>2, <1>3, <1>4, <1>5 DEF Sender!TypeOK

\* The stages after it.
LEMMA GoesStages ==
  ASSUME SendInv, NEW c, Plan(c), Goes(c)
  PROVE  Stages'
<1>0. Stages
  BY DEF SendInv
<1>1. \A p : Holds(p)' <=> Holds(p)
  BY DEF Holds, Goes
<1>2. /\ state # 0 /\ state # 3 /\ finished = {} /\ opened' /\ ~checked'
      /\ odd' \subseteq odd \cup {"changed"}
  BY GoesOn
<1>3. ~estimating => c.total = Size
  BY DEF Plan
<1> QED BY <1>0, <1>1, <1>2, <1>3 DEF Stages, Goes

\* A request that waits for more of the file.
LEMMA WaitKeeps == ASSUME SendInv, NEW c, Plan(c), StraightPlan(c), Wait(c) PROVE SendInv'
<1>0. SendTypes /\ Stages /\ Names /\ OneRequest /\ NoConversion /\ Straight /\ Resumed
  BY DEF SendInv
<1>a. Goes(c) /\ info' = c.info /\ uploaded' = c.at /\ UNCHANGED <<sending, token, last, failures>>
  BY DEF Wait
<1>b. /\ estimating' = estimating /\ server' = server /\ state' = state /\ posts' = posts
      /\ operations' = operations /\ estimate' = estimate /\ ahead' = ahead /\ finished' = finished
      /\ late' = late /\ manner' = c.manner /\ part' = c.part /\ id' = c.id /\ opened' = TRUE
      /\ checked' = FALSE
  BY <1>a DEF Goes
<1>c. estimating
  BY DEF Wait, Waits, Sender!FallsShort
<1>1. SendTypes'
  <2>1. Sender!TypeOK
    BY <1>0 DEF SendTypes
  <2>2. /\ info' \in [size : 0..Size, id : 0..MaxOps, uploaded : 0..Size]
        /\ uploaded' \in 0..Size
    BY <1>a DEF Plan
  <2>3. last' \in BOOLEAN /\ sending' \subseteq Sender!Parts /\ token' \in BOOLEAN /\ failures' \in Nat
    BY <1>a, <2>1 DEF Sender!TypeOK
  <2>4. Sender!TypeOK'
    BY <1>a, <2>2, <2>3, GoesTyped
  <2>5. part' + Cardinality(sending') <= uploaded'
    BY <1>a, <1>b DEF Plan
  <2> QED BY <1>0, <1>a, <2>4, <2>5 DEF SendTypes
<1>2. Stages'
  BY <1>a, GoesStages
<1>3. Names'
  <2>1. info' = Sender!NoInfo /\ ~(info'.size > 0)
    BY <1>a, <1>c DEF Plan, Sender!NoInfo
  <2>2. info'.id <= operations /\ id' <= operations
    BY <1>a, <1>b DEF Plan
  <2>3. \A r \in sending : r.id = c.id
    BY <1>a, GoesOn
  <2> QED BY <1>0, <1>a, <1>b, <2>1, <2>2, <2>3 DEF Names
<1>4. OneRequest'
  BY <1>0, <1>a, <1>b, GoesOn DEF OneRequest
<1>5. NoConversion'
  BY <1>0, <1>a, <1>b, GoesOn DEF NoConversion
<1>6. Straight'
  <2> SUFFICES ASSUME odd' = {} PROVE (/\ \A s \in server \cup sending : Laid(s)
                                       /\ Even
                                       /\ InStep)'
    BY DEF Straight
  <2>0. odd = {} /\ Agrees(c) /\ sending = {} /\ (state = 2 => failures > 0 /\ late) /\ state # 3
        /\ finished = {}
    BY <1>a, GoesOn
  <2>1. (\A s \in server \cup sending : Laid(s)) /\ Even /\ InStep
    BY <1>0, <2>0 DEF Straight
  <2>2. (\A s \in server \cup sending : Laid(s))'
    BY <1>a, <1>b, <2>1 DEF Laid
  <2>3. Even'
    BY <1>a, <1>b, <2>1 DEF Even
  <2>4. ~last /\ c.at = c.part * c.manner.chunk /\ Behind(c.part, c.id)
    BY <2>0 DEF StraightPlan
  <2>5. InStep'
    BY <1>a, <1>b, <2>0, <2>4 DEF InStep, Behind, Agrees
  <2> QED BY <2>2, <2>3, <2>5
<1>7. Resumed'
  <2>1. ~(info'.size > 0)
    BY <1>a, <1>c DEF Plan, Sender!NoInfo
  <2> QED BY <2>1 DEF Resumed
<1> QED BY <1>1, <1>2, <1>3, <1>4, <1>5, <1>6, <1>7 DEF SendInv

\* A request that finds nothing more: the upload fails.
LEMMA FindsNoneKeeps == ASSUME SendInv, NEW c, Plan(c), StraightPlan(c), FindsNone(c) PROVE SendInv'
<1>0. SendTypes /\ Stages /\ Names /\ OneRequest /\ NoConversion /\ Straight /\ Resumed
  BY DEF SendInv
<1>a. /\ Goes(c) /\ info' = [size |-> 0, id |-> 0, uploaded |-> 0] /\ uploaded' = c.at
      /\ last' = TRUE /\ failures' = failures + 1 /\ UNCHANGED <<sending, token>>
  BY DEF FindsNone, Sender!NoInfo
<1>b. /\ estimating' = estimating /\ server' = server /\ state' = state /\ posts' = posts
      /\ operations' = operations /\ estimate' = estimate /\ ahead' = ahead /\ finished' = finished
      /\ late' = late /\ manner' = c.manner /\ part' = c.part /\ id' = c.id /\ opened' = TRUE
      /\ checked' = FALSE
  BY <1>a DEF Goes
<1>c. failures \in Nat /\ Size \in Nat /\ MaxOps \in Nat /\ operations \in 1..MaxOps
  BY <1>0, FileAssumption DEF SendTypes, Sender!TypeOK, Sender!SizesAssumption
<1>1. SendTypes'
  <2>1. Sender!TypeOK
    BY <1>0 DEF SendTypes
  <2>2. info' \in [size : 0..Size, id : 0..MaxOps, uploaded : 0..Size]
    BY <1>a, <1>c
  <2>3. uploaded' \in 0..Size /\ part' + Cardinality(sending') <= uploaded'
    BY <1>a, <1>b DEF Plan
  <2>4. last' \in BOOLEAN
    BY <1>a, Zenon
  <2>5. sending' \subseteq Sender!Parts /\ token' \in BOOLEAN
    BY <1>a, <2>1 DEF Sender!TypeOK
  <2>6. failures' \in Nat
    BY <1>a, <1>c
  <2>7. Sender!TypeOK'
    BY <1>a, <2>2, <2>3, <2>4, <2>5, <2>6, GoesTyped
  <2> QED BY <1>0, <1>a, <2>3, <2>7 DEF SendTypes
<1>2. Stages'
  BY <1>a, GoesStages
<1>3. Names'
  <2>1. info' = Sender!NoInfo /\ ~(info'.size > 0) /\ info'.id <= operations
    BY <1>a, <1>c DEF Sender!NoInfo
  <2>2. id' <= operations
    BY <1>a, <1>b DEF Plan
  <2>3. \A r \in sending : r.id = c.id
    BY <1>a, GoesOn
  <2> QED BY <1>0, <1>a, <1>b, <2>1, <2>2, <2>3 DEF Names
<1>4. OneRequest'
  BY <1>0, <1>a, <1>b, GoesOn DEF OneRequest
<1>5. NoConversion'
  BY <1>0, <1>a, <1>b, GoesOn DEF NoConversion
<1>6. Straight'
  <2> SUFFICES ASSUME odd' = {} PROVE (/\ \A s \in server \cup sending : Laid(s)
                                       /\ Even
                                       /\ InStep)'
    BY DEF Straight
  <2>0. odd = {} /\ Agrees(c) /\ sending = {} /\ (state = 2 => failures > 0 /\ late) /\ state # 3
        /\ finished = {}
    BY <1>a, GoesOn
  <2>1. (\A s \in server \cup sending : Laid(s)) /\ Even /\ InStep
    BY <1>0, <2>0 DEF Straight
  <2>2. (\A s \in server \cup sending : Laid(s))'
    BY <1>a, <1>b, <2>1 DEF Laid
  <2>3. Even'
    BY <1>a, <1>b, <2>1 DEF Even
  <2>4. Behind(c.part, c.id)
    BY <2>0 DEF StraightPlan
  <2>5. failures' > 0 /\ failures' # 0
    BY <1>a, <1>c
  <2>6. InStep'
    BY <1>a, <1>b, <2>0, <2>4, <2>5 DEF InStep, Behind, Agrees
  <2> QED BY <2>2, <2>3, <2>6
<1>7. Resumed'
  BY <1>a DEF Resumed
<1> QED BY <1>1, <1>2, <1>3, <1>4, <1>5, <1>6, <1>7 DEF SendInv

\* What is read for a part: all of it, unless the file ends before.
LEMMA PartRead ==
  ASSUME SendInv, NEW c, Plan(c), ~Waits(c), There(c) > 0
  PROVE  /\ There(c) \in 1..2 /\ c.at + There(c) \in 0..Size /\ c.at < Size
         /\ Sent(c) \in Sender!Parts
         /\ There(c) = Sender!Least(c.manner.chunk, Size - c.at)
         /\ There(c) # c.manner.chunk => There(c) = Size - c.at /\ There(c) < c.manner.chunk
<1>1. /\ Size \in Nat \ {0} /\ length \in 0..Size /\ (~estimating => length = Size) /\ MaxOps \in Nat
  BY FileAssumption DEF SendInv, SendTypes, Sender!TypeOK, Stages, Sender!SizesAssumption
<1>2. /\ c.manner \in Manners /\ c.manner.chunk \in 1..2 /\ c.at \in 0..Size /\ c.part \in Nat
      /\ c.id \in 0..MaxOps
  BY DEF Plan, Manners
<1>3. c.part <= c.at
  <2>1. Cardinality(sending) \in Nat
    BY FS_CardinalityType DEF SendInv, SendTypes
  <2>2. c.part + Cardinality(sending) <= c.at
    BY DEF Plan
  <2> QED BY <1>2, <2>1, <2>2
<1>4. estimating => c.at + c.manner.chunk <= length
  BY <1>1, <1>2 DEF Waits, Sender!FallsShort
<1>5. There(c) = IF c.manner.chunk < length - c.at THEN c.manner.chunk ELSE length - c.at
  BY DEF There, Sender!Least
<1>6. There(c) \in 1..2 /\ c.at + There(c) \in 0..Size /\ c.at < Size
  BY <1>1, <1>2, <1>5
<1>7. There(c) \in 1..Size /\ c.part \in 0..Size
  BY <1>1, <1>2, <1>3, <1>6
<1>8. Sent(c) \in Sender!Parts
  BY <1>2, <1>7 DEF Sent, Sender!Parts, Manners
<1>9. There(c) = Sender!Least(c.manner.chunk, Size - c.at)
  BY <1>1, <1>2, <1>4, <1>5 DEF Sender!Least
<1>10. There(c) # c.manner.chunk => There(c) = Size - c.at /\ There(c) < c.manner.chunk
  BY <1>1, <1>2, <1>9 DEF Sender!Least
<1> QED BY <1>6, <1>8, <1>9, <1>10

\* The part that ends before its size, or the last by its number, is the last.
LEMMA LastPart ==
  ASSUME SendInv, NEW c, Plan(c), ~Waits(c), There(c) > 0, c.at = c.part * c.manner.chunk
  PROVE  /\ Lasting(c) => c.part + 1 = Sender!PartsOf(Size, c.manner.chunk)
         /\ ~Lasting(c) => c.at + There(c) = (c.part + 1) * c.manner.chunk
<1>1. /\ Size \in Nat \ {0} /\ c.manner.chunk \in 1..2 /\ c.part \in Nat /\ c.at \in 0..Size
      /\ ~estimating => c.total = Size
  BY FileAssumption DEF Plan, Manners, Sender!SizesAssumption
<1>2. /\ There(c) \in 1..2
      /\ There(c) # c.manner.chunk => There(c) = Size - c.at /\ There(c) < c.manner.chunk
  BY PartRead
<1>3. (c.part + 1) * c.manner.chunk = c.at + c.manner.chunk
  BY <1>1, WholeParts
<1>4. ~Lasting(c) => There(c) = c.manner.chunk
  BY DEF Lasting, Sender!IsLast
<1>5. Lasting(c) => \/ There(c) # c.manner.chunk
                    \/ c.part + 1 = Sender!PartsOf(Size, c.manner.chunk)
  BY <1>1 DEF Lasting, Sender!IsLast
<1>6. There(c) # c.manner.chunk => c.part + 1 = Sender!PartsOf(Size, c.manner.chunk)
  <2> SUFFICES ASSUME There(c) # c.manner.chunk
               PROVE  c.part + 1 = Sender!PartsOf(Size, c.manner.chunk)
    OBVIOUS
  <2>1. c.manner.chunk = 2 /\ There(c) = 1 /\ Size = c.at + 1
    BY <1>1, <1>2
  <2>2. c.at = c.part * 2
    BY <2>1
  <2>3. (Size + 2 - 1) \div 2 = c.part + 1
    BY <1>1, <2>1, <2>2
  <2> QED BY <2>1, <2>3 DEF Sender!PartsOf
<1> QED BY <1>3, <1>4, <1>5, <1>6

\* A request that sends a part.
LEMMA SendsKeeps == ASSUME SendInv, NEW c, Plan(c), StraightPlan(c), Sends(c) PROVE SendInv'
<1>0. SendTypes /\ Stages /\ Names /\ OneRequest /\ NoConversion /\ Straight /\ Resumed
  BY DEF SendInv
<1> DEFINE r == Sent(c)
<1>a. /\ Goes(c) /\ ~Waits(c) /\ There(c) > 0 /\ info' = c.info /\ uploaded' = c.at + There(c)
      /\ sending' = sending \cup {r} /\ token' = TRUE /\ failures' = failures
  BY DEF Sends
<1>z. last' \in BOOLEAN /\ (last' <=> (last \/ Lasting(c)))
  BY Zenon DEF Sends
<1>b. /\ estimating' = estimating /\ server' = server /\ state' = state /\ posts' = posts
      /\ operations' = operations /\ estimate' = estimate /\ ahead' = ahead /\ finished' = finished
      /\ late' = late /\ manner' = c.manner /\ part' = c.part /\ id' = c.id /\ opened' = TRUE
      /\ checked' = FALSE
  BY <1>a DEF Goes
<1>c. /\ failures \in Nat /\ Size \in Nat /\ MaxOps \in Nat /\ operations \in 1..MaxOps
      /\ c.at \in 0..Size /\ c.part \in Nat
  BY <1>0, FileAssumption DEF SendTypes, Sender!TypeOK, Sender!SizesAssumption, Plan
<1>d. r.id = c.id /\ r.part = c.part /\ r.at = c.at /\ r.len = There(c) /\ r.manner = c.manner
  BY DEF Sent
<1>e. /\ There(c) \in 1..2 /\ c.at + There(c) \in 0..Size /\ c.at < Size
      /\ r \in Sender!Parts
      /\ There(c) = Sender!Least(c.manner.chunk, Size - c.at)
  BY <1>a, PartRead
<1> HIDE DEF r
<1>1. SendTypes'
  <2>1. Sender!TypeOK
    BY <1>0 DEF SendTypes
  <2>2. info' \in [size : 0..Size, id : 0..MaxOps, uploaded : 0..Size]
    BY <1>a DEF Plan
  <2>3. uploaded' \in 0..Size
    BY <1>a, <1>e
  <2>4. token' \in BOOLEAN
    BY <1>a, Zenon
  <2>5. sending' \subseteq Sender!Parts /\ failures' \in Nat
    BY <1>a, <1>e, <2>1 DEF Sender!TypeOK
  <2>6. Sender!TypeOK'
    BY <1>a, <1>z, <2>2, <2>3, <2>4, <2>5, GoesTyped
  <2>7. /\ IsFiniteSet(sending') /\ Cardinality(sending') <= Cardinality(sending) + 1
        /\ Cardinality(sending') \in Nat /\ Cardinality(sending) \in Nat
    BY <1>0, <1>a, FewerSent DEF SendTypes
  <2>8. c.part + Cardinality(sending) <= c.at
    BY DEF Plan
  <2>9. part' + Cardinality(sending') <= uploaded'
    BY <1>a, <1>b, <1>c, <1>e, <2>7, <2>8
  <2> QED BY <2>6, <2>7, <2>9 DEF SendTypes
<1>2. Stages'
  BY <1>a, GoesStages
<1>3. Names'
  <2>1. estimating => c.info = Sender!NoInfo
    BY DEF Plan
  <2>2. c.info.size > 0 => c.info.uploaded < Size /\ c.info.id = c.id
    BY <1>e DEF Plan
  <2>3. c.info.id <= operations /\ c.id <= operations
    BY DEF Plan
  <2>4. \A s \in sending' : s.id = c.id
    BY <1>a, <1>d, GoesOn
  <2> QED BY <1>0, <1>a, <1>b, <2>1, <2>2, <2>3, <2>4 DEF Names
<1>4. OneRequest'
  <2>1. ~ahead => sending = {} /\ \A i \in DOMAIN posts : posts[i] # "start"
    BY <1>a, GoesOn
  <2> QED BY <1>a, <1>b, <2>1 DEF OneRequest
<1>5. NoConversion'
  <2>1. estimate = 0 => odd' = {} /\ sending = {} /\ c.manner = Sender!Manner(Size)
                        /\ \A s \in server : s.manner = Sender!Manner(Size)
    BY <1>a, GoesOn
  <2> QED BY <1>a, <1>b, <1>d, <2>1 DEF NoConversion
<1>6. Straight'
  <2> SUFFICES ASSUME odd' = {} PROVE (/\ \A s \in server \cup sending : Laid(s)
                                       /\ Even
                                       /\ InStep)'
    BY DEF Straight
  <2>0. odd = {} /\ Agrees(c) /\ sending = {} /\ (state = 2 => failures > 0 /\ late) /\ state # 3
        /\ finished = {} /\ ~(state = 1 /\ failures > 0)
    BY <1>a, GoesOn
  <2>1. (\A s \in server \cup sending : Laid(s)) /\ Even /\ InStep
    BY <1>0, <2>0 DEF Straight
  <2>4. ~last /\ c.at = c.part * c.manner.chunk /\ Behind(c.part, c.id)
    BY <2>0 DEF StraightPlan
  <2>5. Laid(r)
    BY <1>d, <1>e, <2>4 DEF Laid
  <2>6. sending' = {r}
    BY <1>a, <2>0
  <2>2. (\A s \in server \cup sending : Laid(s))'
    BY <1>b, <2>1, <2>5, <2>6 DEF Laid
  <2>3. Even'
    BY <1>b, <1>d, <2>0, <2>1, <2>6 DEF Even, Agrees
  <2>7. IF last' THEN c.part + 1 = Sender!PartsOf(Size, c.manner.chunk)
                 ELSE c.at + There(c) = (c.part + 1) * c.manner.chunk
    BY <1>a, <1>z, <2>4, LastPart
  <2>8. \A s \in server' \cup sending' : s.id = c.id => s.manner = c.manner
    BY <1>b, <1>d, <2>0, <2>6 DEF Agrees
  <2>9. sending' # {}
    BY <2>6
  <2>10. InStep'
    BY <1>a, <1>b, <1>d, <2>0, <2>4, <2>6, <2>7, <2>8, <2>9 DEF InStep, Behind
  <2> QED BY <2>2, <2>3, <2>10
<1>7. Resumed'
  <2>1. odd' = {} => odd = {} /\ Agrees(c)
    BY <1>a, GoesOn
  <2>2. (odd' = {} /\ c.info.size > 0 /\ c.info.uploaded > 0) => Backs(c.info)
    BY <2>1 DEF StraightPlan
  <2>3. info' = c.info /\ server' = server
    BY <1>a, <1>b
  <2>4. (odd' = {} /\ c.info.size > 0 /\ c.info.uploaded > 0) =>
          \E m \in Manners, n \in 1..Size :
            /\ c.info.uploaded = n * m.chunk
            /\ \A k \in 0..(n - 1) :
                 \E s \in server : s.id = c.info.id /\ s.part = k /\ s.manner = m
    BY <2>2 DEF Backs
  <2> QED BY <2>3, <2>4 DEF Resumed
<1> QED BY <1>1, <1>2, <1>3, <1>4, <1>5, <1>6, <1>7 DEF SendInv

LEMMA RequestKeeps == SendInv /\ Sender!Request => SendInv'
BY RequestGoes, WaitKeeps, FindsNoneKeeps, SendsKeeps

-----------------------------------------------------------------------------

\* Every step keeps it.
LEMMA SendStepKeeps == SendInv /\ [Sender!Next]_(Sender!vars) => SendInv'
<1> SUFFICES ASSUME SendInv, [Sender!Next]_(Sender!vars) PROVE SendInv'
  OBVIOUS
<1>1. CASE Sender!Converter
  BY <1>1, GrowKeeps, AnnounceKeeps DEF Sender!Converter
<1>2. CASE Sender!Loader
  BY <1>2, StartKeeps, CancelKeeps DEF Sender!Loader
<1>3. CASE Sender!Stage
  BY <1>3, RunStartKeeps, RunCheckKeeps, RequestKeeps, AnswerKeeps DEF Sender!Stage
<1>4. CASE \E r \in sending : Sender!Reject(r)
  BY <1>4, RejectKeeps
<1>5. CASE Sender!Again
  BY <1>5, AgainKeeps
<1>6. CASE Sender!Crash
  BY <1>6, CrashKeeps
<1>7. CASE UNCHANGED Sender!vars
  <2> USE <1>7 DEF Sender!vars, Sender!world, Sender!bounds
  <2>0. SendTypes /\ Stages /\ Names /\ OneRequest /\ NoConversion /\ Straight /\ Resumed
    BY DEF SendInv
  <2>1. SendTypes'
    BY <2>0 DEF SendTypes, Sender!TypeOK
  <2>2. Stages' /\ Names'
    BY <2>0 DEF Stages, Holds, Names
  <2>3. OneRequest' /\ NoConversion'
    BY <2>0 DEF OneRequest, NoConversion
  <2>4. Straight'
    BY <2>0 DEF Straight, Laid, Even, InStep, Behind
  <2>5. Resumed'
    BY <2>0 DEF Resumed
  <2> QED BY <2>1, <2>2, <2>3, <2>4, <2>5 DEF SendInv
<1> QED BY <1>1, <1>2, <1>3, <1>4, <1>5, <1>6, <1>7 DEF Sender!Next

\* The invariant gives what an upload promises.
LEMMA SendInvIsSafe == SendInv => UploadSafe
<1> SUFFICES ASSUME SendInv PROVE UploadSafe
  OBVIOUS
<1>0. SendTypes /\ Stages /\ Names /\ OneRequest /\ NoConversion /\ Straight /\ Resumed
  BY DEF SendInv
<1>a. /\ Size \in Nat \ {0} /\ part \in Nat /\ manner \in Manners /\ failures \in Nat
      /\ finished \subseteq [id : 0..MaxOps, parts : Nat]
  BY <1>0, FileAssumption DEF SendTypes, Sender!TypeOK, Sender!SizesAssumption, Manners
<1>1. Sender!TypeOK
  BY <1>0 DEF SendTypes
<1>2. Sender!FinishedIsWhole
  <2> SUFFICES ASSUME odd = {}, NEW f \in finished PROVE Sender!Backed(f.id, f.parts, Size)
    BY DEF Sender!FinishedIsWhole
  <2>1. (\A s \in server : Laid(s)) /\ Even /\ InStep
    BY <1>0 DEF Straight
  <2>2. opened
    BY <1>0 DEF Stages
  <2>3. /\ f.id = id /\ f.parts = part /\ part = Sender!PartsOf(Size, manner.chunk)
        /\ Behind(part, id) /\ \A s \in server : s.id = id => s.manner = manner
    BY <2>1, <2>2 DEF InStep
  <2>4. \A k \in 0..(part - 1) : \E s \in server : s.id = id /\ s.part = k
    BY <2>3 DEF Behind
  <2>5. \A k \in 0..(part - 1) : \A s \in server : (s.id = id /\ s.part = k) =>
          s.at = k * manner.chunk /\ s.len = Sender!Least(manner.chunk, Size - s.at) /\ s.manner = manner
    BY <2>1, <2>3 DEF Laid
  <2> QED BY <1>a, <2>3, <2>4, <2>5 DEF Sender!Backed, Manners
<1>3. Sender!ResumeIsBacked
  <2> SUFFICES ASSUME info.size > 0, info.uploaded > 0, odd = {}
               PROVE  \E n \in 0..Size : Sender!Backed(info.id, n, info.uploaded)
    BY DEF Sender!ResumeIsBacked
  <2>1. (\A s \in server : Laid(s)) /\ Even
    BY <1>0 DEF Straight
  <2>2. PICK m \in Manners, n \in 1..Size :
          /\ info.uploaded = n * m.chunk
          /\ \A k \in 0..(n - 1) : \E s \in server : s.id = info.id /\ s.part = k /\ s.manner = m
    BY <1>0 DEF Resumed
  <2>3. m.chunk \in 1..2 /\ n \in 0..Size /\ n \in Nat
    BY <1>a DEF Manners
  <2>4. n = Sender!PartsOf(info.uploaded, m.chunk)
    <3>1. CASE m.chunk = 1
      BY <2>2, <2>3, <3>1 DEF Sender!PartsOf
    <3>2. CASE m.chunk = 2
      BY <2>2, <2>3, <3>2 DEF Sender!PartsOf
    <3> QED BY <2>3, <3>1, <3>2
  <2>5. PICK t \in server : t.id = info.id /\ t.manner = m
    <3>1. 0 \in 0..(n - 1)
      BY <2>2, <2>3
    <3> QED BY <2>2, <3>1
  <2>6. \A s \in server : s.id = info.id => s.manner = m
    BY <2>1, <2>5 DEF Even
  <2>7. \A k \in 0..(n - 1) : \E s \in server : s.id = info.id /\ s.part = k
    BY <2>2
  <2>8. \A k \in 0..(n - 1) : \A s \in server : (s.id = info.id /\ s.part = k) =>
          s.at = k * m.chunk /\ s.len = Sender!Least(m.chunk, Size - s.at) /\ s.manner = m
    BY <2>1, <2>6 DEF Laid
  <2>9. Sender!Backed(info.id, n, info.uploaded)
    BY <2>2, <2>4, <2>7, <2>8 DEF Sender!Backed, Manners
  <2> QED BY <2>3, <2>9
<1>4. Sender!OneOutcome
  BY <1>0 DEF Sender!OneOutcome, Stages, Straight, InStep
<1>5. Sender!OneAtATime
  BY <1>0 DEF Sender!OneAtATime, Stages, NoConversion
<1> QED BY <1>1, <1>2, <1>3, <1>4, <1>5 DEF UploadSafe, Sender!UploadSafe

\* What an upload keeps in every state, for files of every size, whatever is
\* resumed and however the file grows: types, the file whole on the server when it
\* is reported finished, what can be resumed, its one outcome and its one request.
THEOREM UploadIsSafe == Sender!Spec => []UploadSafe
<1>1. Sender!Init => SendInv
  BY SendStarts
<1>2. SendInv /\ [Sender!Next]_(Sender!vars) => SendInv'
  BY SendStepKeeps
<1>3. SendInv => UploadSafe
  BY SendInvIsSafe
<1> QED BY <1>1, <1>2, <1>3, PTL DEF Sender!Spec
=============================================================================
