------------------------- MODULE UpdatesSync_proofs -------------------------
(***************************************************************************)
(* Theorems about two of MessagesController's duties.  The parameters of   *)
(* UpdatesSync never count an update that is lost: the inductive invariant *)
(* Inv, and what follows from it.  The timers of DeleteTasks, which the    *)
(* first getDifference sets going, forget no message, and delete none      *)
(* early: the inductive invariant TimersInv, in the second half.           *)
(***************************************************************************)
EXTENDS UpdatesSync, DeletionTimers, SequenceLemmas

(* The queue of the storage thread.                                        *)

\* What was put before a place of the queue.
LEMMA InPutBefore ==
  ASSUME NEW ws, NEW i, NEW n
  PROVE  n \in PutBefore(ws, i) <=>
           \E j \in 1..Len(ws) : j < i /\ ws[j].op = "put" /\ n \in ws[j].ns
  BY DEF PutBefore

\* A longer queue, and a later place in it, have more put before.
LEMMA PutBeforeGrows ==
  ASSUME NEW ws, NEW xs, NEW i \in Int, NEW k \in Int, i <= k,
         Len(ws) \in Nat, Len(xs) \in Nat, Len(ws) <= Len(xs),
         \A j \in 1..Len(ws) : xs[j] = ws[j]
  PROVE  PutBefore(ws, i) \subseteq PutBefore(xs, k)
<1> SUFFICES ASSUME NEW n \in PutBefore(ws, i) PROVE n \in PutBefore(xs, k)
  OBVIOUS
<1>1. PICK j \in 1..Len(ws) : j < i /\ ws[j].op = "put" /\ n \in ws[j].ns
  BY InPutBefore
<1>2. j \in 1..Len(xs) /\ j < k /\ xs[j].op = "put" /\ n \in xs[j].ns
  BY <1>1
<1> QED BY <1>2, InPutBefore

\* Posting updates covers them.
LEMMA PutCovers ==
  ASSUME NEW ws \in Seq(Writes), NEW stored, NEW got, NEW known,
         Covers(ws, stored, got, known), NEW ns \in SUBSET Nat
  PROVE  /\ Put(ws, ns) \in Seq(Writes)
         /\ Covers(Put(ws, ns), stored, got \cup ns, known)
<1>1. CASE ns = {}
  BY <1>1 DEF Put, Covers
<1>2. CASE ns # {}
  <2> DEFINE w == [op |-> "put", ns |-> ns]
             xs == Append(ws, w)
  <2>1. w \in Writes
    BY DEF Writes
  <2>2. /\ xs \in Seq(Writes) /\ Len(xs) = Len(ws) + 1 /\ Len(ws) \in Nat
        /\ xs[Len(ws) + 1] = w
        /\ \A j \in 1..Len(ws) : xs[j] = ws[j]
    BY <2>1
  <2> HIDE DEF xs
  <2>3. \A i \in 1..Len(ws) : PutBefore(ws, i) \subseteq PutBefore(xs, i)
    BY <2>2, PutBeforeGrows
  <2>4. ns \subseteq PutBefore(xs, Len(xs) + 1)
    <3> SUFFICES ASSUME NEW n \in ns PROVE n \in PutBefore(xs, Len(xs) + 1)
      OBVIOUS
    <3>1. /\ Len(xs) \in 1..Len(xs) /\ Len(xs) < Len(xs) + 1
          /\ xs[Len(xs)].op = "put" /\ n \in xs[Len(xs)].ns
      BY <2>2
    <3> QED BY <3>1, InPutBefore
  <2>5. PutBefore(ws, Len(ws) + 1) \subseteq PutBefore(xs, Len(xs) + 1)
    BY <2>2, PutBeforeGrows
  <2>6. \A i \in 1..Len(xs) : xs[i].op = "save" =>
          /\ i \in 1..Len(ws) /\ ws[i].op = "save"
          /\ xs[i] = ws[i]
    <3> SUFFICES ASSUME NEW i \in 1..Len(xs), xs[i].op = "save"
                 PROVE  i \in 1..Len(ws)
      BY <2>2
    <3>1. xs[Len(xs)].op # "save"
      BY <2>2
    <3> QED BY <2>2, <3>1
  <2>7. Covers(xs, stored, got \cup ns, known)
    BY <2>3, <2>4, <2>5, <2>6 DEF Covers
  <2>8. Put(ws, ns) = xs
    BY <1>2 DEF Put, xs
  <2> QED BY <2>2, <2>7, <2>8
<1> QED BY <1>1, <1>2

\* Saving parameters that are accounted for keeps the queue covered.
LEMMA SaveCovers ==
  ASSUME NEW ws \in Seq(Writes), NEW stored, NEW got, NEW known,
         Covers(ws, stored, got, known),
         NEW s \in Nat, NEW p \in Nat, NEW d \in BOOLEAN,
         1..s \subseteq got \cup known, 1..p \subseteq got \cup known
  PROVE  LET xs == Append(ws, Parameters(s, p, d)) IN
           xs \in Seq(Writes) /\ Covers(xs, stored, got, known)
<1> DEFINE w == Parameters(s, p, d)
           xs == Append(ws, w)
<1>1. w \in Writes /\ w.op = "save" /\ w.seq = s /\ w.pts = p
  BY DEF Writes, Parameters
<1>2. /\ xs \in Seq(Writes) /\ Len(xs) = Len(ws) + 1 /\ Len(ws) \in Nat
      /\ xs[Len(ws) + 1] = w
      /\ \A j \in 1..Len(ws) : xs[j] = ws[j]
  BY <1>1
<1> HIDE DEF xs, w
<1>3. \A i \in 1..Len(ws) : PutBefore(ws, i) \subseteq PutBefore(xs, i)
  BY <1>2, PutBeforeGrows
<1>4. PutBefore(ws, Len(ws) + 1) \subseteq PutBefore(xs, Len(xs))
  BY <1>2, PutBeforeGrows
<1>5. PutBefore(ws, Len(ws) + 1) \subseteq PutBefore(xs, Len(xs) + 1)
  BY <1>2, PutBeforeGrows
<1>6. ASSUME NEW i \in 1..Len(xs), xs[i].op = "save",
             NEW n \in 1..xs[i].seq \cup 1..xs[i].pts
      PROVE  n \in stored \cup PutBefore(xs, i) \cup known
  <2>1. CASE i \in 1..Len(ws)
    <3>1. xs[i] = ws[i]
      BY <1>2, <2>1
    <3>2. n \in stored \cup PutBefore(ws, i) \cup known
      BY <1>6, <2>1, <3>1 DEF Covers
    <3> QED BY <1>3, <2>1, <3>2
  <2>2. CASE i = Len(xs)
    <3>1. xs[i] = w
      BY <1>2, <2>2
    <3>2. n \in got \cup known
      BY <1>1, <1>6, <3>1
    <3>3. got \subseteq stored \cup PutBefore(ws, Len(ws) + 1)
      BY DEF Covers
    <3> QED BY <1>4, <2>2, <3>2, <3>3
  <2> QED BY <1>2, <2>1, <2>2
<1>7. got \subseteq stored \cup PutBefore(xs, Len(xs) + 1)
  BY <1>5 DEF Covers
<1> QED BY <1>2, <1>6, <1>7 DEF Covers, xs, w

\* Less handed out, and more exempt, is covered all the same.
LEMMA CoversMore ==
  ASSUME NEW ws, NEW stored, NEW got, NEW known, Covers(ws, stored, got, known),
         NEW less, NEW more, less \subseteq got, known \subseteq more
  PROVE  Covers(ws, stored, less, more)
  BY DEF Covers

-----------------------------------------------------------------------------
(* What every step of the client shares.                                   *)

\* A step that leaves the disk alone keeps Inv, provided it keeps the parts
\* that are not about the storage, and posts what it hands out before it saves
\* what it counts.
Posts(ns) ==
  \/ writes' = Put(writes, ns)
  \/ PutThenSave(ns)
Rest == StageTypes /\ ServerTypes /\ NothingLost /\ DifferenceCovers /\ OwnCounted /\ QueueWatched

\* Nothing already excused is counted again.
LEMMA ExemptGrows ==
  ASSUME TypeOK, ServerTypes', own \subseteq own', skipped \subseteq skipped', base <= base'
  PROVE  Exempt \subseteq Exempt'
  BY DEF Exempt, TypeOK, ServerTypes

\* The storage's part of a step that posts nothing.
LEMMA QuietStep ==
  ASSUME Inv, Rest', UNCHANGED storage, have' \subseteq have, Exempt \subseteq Exempt'
  PROVE  Inv'
<1>1. StorageTypes'
  BY DEF Inv, TypeOK, StorageTypes, storage
<1>2. DiskNothingLost'
  BY DEF Inv, DiskNothingLost, Known, storage
<1>3. Covers(writes, disk.stored, have', Exempt')
  BY CoversMore DEF Inv, WritesCover
<1>4. WritesCover'
  BY <1>3 DEF WritesCover, storage
<1> QED BY <1>1, <1>2, <1>4 DEF Inv, Rest, TypeOK

\* The storage's part of a step that posts updates, and then may save.
LEMMA PostingStep ==
  ASSUME Inv, Rest', NEW ns \in SUBSET Nat, Posts(ns), disk' = disk,
         have' \subseteq have \cup ns, Exempt \subseteq Exempt'
  PROVE  Inv'
<1> DEFINE ws == Put(writes, ns)
           new == Append(ws, Parameters(seq', pts', dated'))
<1>1. Covers(writes, disk.stored, have, Exempt) /\ writes \in Seq(Writes)
  BY DEF Inv, WritesCover, TypeOK, StorageTypes
<1>2. ws \in Seq(Writes) /\ Covers(ws, disk.stored, have \cup ns, Exempt)
  BY <1>1, PutCovers
<1>3. Covers(ws, disk.stored, have', Exempt')
  BY <1>2, CoversMore
<1>4. seq' \in Nat /\ pts' \in Nat /\ dated' \in BOOLEAN
  BY DEF Rest, StageTypes
<1>5. 1..seq' \subseteq have' \cup Exempt' /\ 1..pts' \subseteq have' \cup Exempt'
  BY DEF Rest, NothingLost, Known
<1>6. new \in Seq(Writes) /\ Covers(new, disk.stored, have', Exempt')
  BY <1>2, <1>3, <1>4, <1>5, SaveCovers
<1>7. writes' \in {ws, new}
  BY DEF Posts, PutThenSave, Save
<1>8. writes' \in Seq(Writes) /\ Covers(writes', disk.stored, have', Exempt')
  BY <1>2, <1>3, <1>6, <1>7
<1>9. StorageTypes' /\ WritesCover'
  BY <1>8 DEF Inv, TypeOK, StorageTypes, WritesCover
<1>10. DiskNothingLost'
  BY DEF Inv, DiskNothingLost, Known
<1> QED BY <1>9, <1>10 DEF Inv, Rest, TypeOK

-----------------------------------------------------------------------------
(* The parts of the handlers.                                              *)

Excused == <<own, skipped, base>>
RpcTypes ==
  /\ getting \in BOOLEAN /\ updating \in BOOLEAN
  /\ diff \in [st : {"idle", "asked", "slice", "final", "empty"},
               from : Nat, upto : Nat]
  /\ state \in [st : {"idle", "asked", "answered"}, from : Nat, upto : Nat]

\* The numbers of an update are naturals.
LEMMA NumbersAreNat == ASSUME NEW u \in Updates PROVE Numbers(u) \in SUBSET Nat
  BY DEF Updates, Numbers

\* Asking for a difference asks from a point that is covered.
LEMMA AskingKeeps ==
  ASSUME Inv, NEW ns \in SUBSET Nat, GetDifference(ns), UNCHANGED <<params, have, Excused>>
  PROVE  /\ RpcTypes'
         /\ stranded' \subseteq Nat
         /\ DifferenceCovers'
<1> USE DEF Inv, TypeOK, StageTypes, ServerTypes
<1>1. ~dated => /\ getting' = getting /\ updating' = TRUE /\ diff' = diff
                /\ state' = state \/ state' = Ask(0)
  BY DEF GetDifference
<1>2. dated => /\ getting' = TRUE /\ updating' = updating /\ state' = state
               /\ diff' = diff \/ diff' = Ask(pts)
  BY DEF GetDifference
<1>3. stranded' \subseteq stranded \cup ns
  BY DEF GetDifference
<1>4. diff' = diff \/ diff' = Ask(pts)
  BY <1>1, <1>2
<1>5. DifferenceCovers'
  BY <1>4 DEF DifferenceCovers, Ask, NothingLost, Known, Exempt, Excused, params
<1>6. diff' \in [st : {"idle", "asked", "slice", "final", "empty"},
                 from : Nat, upto : Nat]
  BY <1>4 DEF Ask
<1>7. state' = state \/ state' = Ask(0)
  BY <1>1, <1>2
<1>8. state' \in [st : {"idle", "asked", "answered"}, from : Nat, upto : Nat]
  BY <1>7 DEF Ask
<1>9. getting' \in BOOLEAN /\ updating' \in BOOLEAN
  BY <1>1, <1>2
<1>10. stranded' \subseteq Nat
  BY <1>3
<1> QED BY <1>5, <1>6, <1>8, <1>9, <1>10 DEF RpcTypes

\* A difference under way stays covered when nothing is taken back.
LEMMA NotAskingKeeps ==
  ASSUME Inv, AskNothing, have \subseteq have', Exempt \subseteq Exempt'
  PROVE  /\ RpcTypes'
         /\ DifferenceCovers'
  BY DEF Inv, TypeOK, StageTypes, ServerTypes, AskNothing, DifferenceCovers, Known, RpcTypes

\* What stays as it was is covered as it was.
LEMMA StillNothingLost ==
  ASSUME Inv, UNCHANGED <<params, have, Excused>>
  PROVE  NothingLost'
  BY DEF Inv, NothingLost, Known, Exempt, params, Excused

\* An update that fits is handed out before it is counted.
LEMMA ProcessKeeps ==
  ASSUME Inv, NEW u \in queue \cup inflight, Fits(u), Process(u), UNCHANGED Excused
  PROVE  /\ seq' \in Nat /\ pts' \in Nat /\ dated' \in BOOLEAN
         /\ have \subseteq have' /\ have' \subseteq have \cup Numbers(u)
         /\ NothingLost'
<1> USE DEF Inv, TypeOK, StageTypes, ServerTypes
<1>1. u \in Updates /\ u.first \in Nat /\ u.seq \in Nat
  BY DEF Updates
<1>2. Exempt' = Exempt
  BY DEF Exempt, Excused
<1>3. CASE u.kind = "own"
  <2>1. seq' = u.seq /\ pts' = pts /\ dated' = dated /\ have' = have
    BY <1>3 DEF Process
  <2>2. u.first = u.seq /\ u.seq \in own
    BY <1>3 DEF OwnCounted
  <2>3. 1..u.seq \subseteq 1..seq \cup {u.seq}
    BY <1>1, <2>2 DEF Fits
  <2>4. 1..u.seq \subseteq Known(have)
    BY <2>2, <2>3 DEF NothingLost, Known, Exempt
  <2> QED BY <1>1, <1>2, <2>1, <2>4 DEF NothingLost, Known
<1>4. CASE u.kind = "short" /\ u.seq # seq + 1
  <2>1. UNCHANGED <<params, have>>
    BY <1>4 DEF Process
  <2> QED BY <2>1, <1>2 DEF NothingLost, Known, params
<1>5. CASE ~(u.kind = "own") /\ ~(u.kind = "short" /\ u.seq # seq + 1)
  <2>1. /\ seq' = u.seq /\ pts' = u.seq
        /\ dated' \in IF u.kind = "short" THEN {dated, TRUE} ELSE {TRUE}
        /\ have' = have \cup Numbers(u)
    BY <1>5 DEF Process
  <2>2. 1..u.seq \subseteq 1..seq \cup Numbers(u)
    BY <1>1 DEF Fits, Numbers
  <2>3. 1..u.seq \subseteq have' \cup Exempt'
    BY <1>2, <2>1, <2>2 DEF NothingLost, Known
  <2>4. dated' \in BOOLEAN
    BY <2>1
  <2> QED BY <1>1, <2>1, <2>3, <2>4 DEF NothingLost, Known
<1> QED BY <1>3, <1>4, <1>5

-----------------------------------------------------------------------------
(* Pushes.                                                                 *)

\* The server's part of a push, which the handlers leave alone but for inflight.
LEMMA ArrivesKeeps ==
  ASSUME Inv, NEW u, Arrives(u),
         RpcTypes', stranded' \subseteq Nat
  PROVE  /\ ServerTypes' /\ UNCHANGED Excused /\ Exempt' = Exempt
         /\ disk' = disk /\ u \in inflight /\ u \in Updates
         /\ inflight' \subseteq inflight /\ UNCHANGED <<sent, ownAnswers>>
<1> USE DEF Arrives, server
<1>1. /\ UNCHANGED <<srv, sent, own, faults, ownAnswers, announce, base, skipped, disk>>
      /\ inflight' = inflight \ {u} /\ u \in inflight
  OBVIOUS
<1>2. ServerTypes'
  BY <1>1 DEF Inv, TypeOK, ServerTypes, RpcTypes
<1>3. u \in Updates
  BY <1>1 DEF Inv, TypeOK, ServerTypes
<1> QED BY <1>1, <1>2, <1>3 DEF Excused, Exempt

\* A push that fits.
LEMMA PushProcessedKeepsInv ==
  ASSUME Inv, NEW u, PushProcessed(u) PROVE Inv'
<1> USE DEF PushProcessed
<1>1. u \in inflight /\ UNCHANGED Excused /\ Exempt' = Exempt
  BY DEF Arrives, server, Excused, Exempt
<1>2. /\ seq' \in Nat /\ pts' \in Nat /\ dated' \in BOOLEAN
      /\ have \subseteq have' /\ have' \subseteq have \cup Numbers(u) /\ NothingLost'
  BY <1>1, ProcessKeeps
<1>3. RpcTypes' /\ DifferenceCovers'
  BY <1>1, <1>2, NotAskingKeeps
<1>4. stranded' \subseteq Nat
  BY DEF Inv, TypeOK, ServerTypes
<1>5. /\ ServerTypes' /\ disk' = disk /\ u \in Updates
      /\ inflight' \subseteq inflight /\ UNCHANGED <<sent, ownAnswers>>
  BY <1>3, <1>4, ArrivesKeeps
<1>6. Numbers(u) \in SUBSET Nat
  BY <1>5, NumbersAreNat
<1> DEFINE ns == IF have' = have THEN {} ELSE Numbers(u)
<1>7. ns \in SUBSET Nat /\ have' \subseteq have \cup ns
  BY <1>2, <1>6
<1>8. Posts(ns) /\ draining' \in {"no", "first", "some"}
  BY DEF ThenDrain, Posts
<1>9. StageTypes'
  BY <1>2, <1>3, <1>6, <1>8 DEF Inv, TypeOK, StageTypes, RpcTypes
<1>10. OwnCounted'
  BY <1>1, <1>5 DEF Inv, OwnCounted, Excused
<1>11. QueueWatched'
  BY DEF Inv, QueueWatched
<1> HIDE DEF ns
<1>12. Rest'
  BY <1>2, <1>3, <1>5, <1>9, <1>10, <1>11 DEF Rest
<1> QED BY <1>1, <1>5, <1>7, <1>8, <1>12, PostingStep

\* A push that asks.
LEMMA PushAsksKeepsInv ==
  ASSUME Inv, NEW u, PushAsks(u) PROVE Inv'
<1> USE DEF PushAsks
<1>1. u \in inflight /\ u \in Updates /\ UNCHANGED <<params, have, Excused>>
  BY DEF Arrives, server, Excused, Inv, TypeOK, ServerTypes
<1>2. Numbers(u) \in SUBSET Nat
  BY <1>1, NumbersAreNat
<1>3. RpcTypes' /\ stranded' \subseteq Nat /\ DifferenceCovers'
  BY <1>1, <1>2, AskingKeeps
<1>4. /\ ServerTypes' /\ disk' = disk /\ Exempt' = Exempt /\ UNCHANGED Excused
      /\ inflight' \subseteq inflight /\ UNCHANGED <<sent, ownAnswers>>
  BY <1>3, ArrivesKeeps
<1>5. StageTypes'
  BY <1>3 DEF Inv, TypeOK, StageTypes, RpcTypes, params
<1>6. NothingLost'
  BY <1>1, StillNothingLost
<1>7. OwnCounted'
  BY <1>4 DEF Inv, OwnCounted, Excused
<1>8. QueueWatched'
  BY DEF Inv, QueueWatched
<1>9. Rest'
  BY <1>3, <1>4, <1>5, <1>6, <1>7, <1>8 DEF Rest
<1>10. Posts({})
  BY DEF Posts
<1>11. have' \subseteq have \cup {}
  BY <1>1
<1> QED BY <1>4, <1>9, <1>10, <1>11, PostingStep

\* Keeping an update keeps it watched.
LEMMA KeepKeeps ==
  ASSUME Inv, NEW u \in Updates, Keep(u)
  PROVE  /\ queue' \subseteq Updates /\ queue' = queue \cup {u}
         /\ wait' \in {"fresh", "late"}
  BY DEF Inv, TypeOK, StageTypes, Keep

\* A push that is kept.
LEMMA PushKeptKeepsInv ==
  ASSUME Inv, NEW u, PushKept(u) PROVE Inv'
<1> USE DEF PushKept
<1>1. u \in inflight /\ u \in Updates /\ UNCHANGED <<params, have, Excused>>
  BY DEF Arrives, server, Excused, Inv, TypeOK, ServerTypes
<1>2. have' = have /\ Exempt' = Exempt
  BY <1>1 DEF Excused, Exempt
<1>3. RpcTypes' /\ DifferenceCovers'
  BY <1>2, NotAskingKeeps
<1>4. stranded' \subseteq Nat
  BY DEF Inv, TypeOK, ServerTypes
<1>5. /\ ServerTypes' /\ disk' = disk /\ UNCHANGED Excused
      /\ inflight' \subseteq inflight /\ UNCHANGED <<sent, ownAnswers>>
  BY <1>3, <1>4, ArrivesKeeps
<1>6. /\ queue' \subseteq Updates /\ queue' = queue \cup {u}
      /\ wait' \in {"fresh", "late"}
  BY <1>1, KeepKeeps
<1>7. Posts({}) /\ draining' \in {"no", "first", "some"}
  BY DEF Posts, ThenDrain
<1>8. StageTypes'
  BY <1>3, <1>6, <1>7 DEF Inv, TypeOK, StageTypes, RpcTypes, params
<1>9. NothingLost'
  BY <1>1, StillNothingLost
<1>10. OwnCounted'
  BY <1>1, <1>5, <1>6 DEF Inv, OwnCounted, Excused
<1>11. QueueWatched'
  BY <1>6 DEF QueueWatched
<1>12. Rest'
  BY <1>3, <1>5, <1>8, <1>9, <1>10, <1>11 DEF Rest
<1>13. have' \subseteq have \cup {}
  BY <1>2
<1> QED BY <1>2, <1>5, <1>7, <1>12, <1>13, PostingStep

\* The answer to an own action.
LEMMA OwnAnswerKeepsInv ==
  ASSUME Inv, NEW n, OwnAnswer(n) PROVE Inv'
<1> DEFINE u == [kind |-> "own", first |-> n, seq |-> n]
<1>1. /\ n \in ownAnswers /\ ownAnswers' = ownAnswers \ {n}
      /\ UNCHANGED <<draining, have, disk, srv, sent, own, faults, inflight, announce,
                     base, skipped>>
  BY DEF OwnAnswer, server
<1>2. n \in own /\ n \in Nat /\ u \in Updates
  BY <1>1 DEF Inv, OwnCounted, TypeOK, ServerTypes, Updates, AllKinds
<1>3. UNCHANGED Excused /\ Exempt' = Exempt
  BY <1>1 DEF Excused, Exempt
<1>4. CASE n = seq + 1 /\ seq' = n /\ pts' = n /\ dated' \in {dated, TRUE}
           /\ PutThenSave({}) /\ AskNothing /\ UNCHANGED <<queue, wait, stranded>>
  <2>1. RpcTypes' /\ DifferenceCovers'
    BY <1>1, <1>3, <1>4, NotAskingKeeps
  <2>2. ServerTypes'
    BY <1>1, <1>4, <2>1 DEF Inv, TypeOK, ServerTypes, RpcTypes
  <2>3. StageTypes'
    BY <1>1, <1>2, <1>4, <2>1 DEF Inv, TypeOK, StageTypes, RpcTypes
  <2>4. 1..n \subseteq 1..seq \cup {n}
    BY <1>2, <1>4 DEF Inv, TypeOK, StageTypes
  <2>5. NothingLost'
    BY <1>1, <1>2, <1>3, <1>4, <2>4 DEF Inv, NothingLost, Known, Exempt
  <2>6. OwnCounted' /\ QueueWatched'
    BY <1>1, <1>4 DEF Inv, OwnCounted, QueueWatched
  <2>7. Rest' /\ Posts({}) /\ have' \subseteq have \cup {}
    BY <1>1, <1>4, <2>1, <2>2, <2>3, <2>5, <2>6 DEF Rest, Posts
  <2> QED BY <1>1, <1>3, <2>7, PostingStep
<1>5. CASE /\ AskNothing /\ UNCHANGED <<params, writes, stranded>>
           /\ UNCHANGED <<queue, wait>> \/ Keep(u)
  <2>1. RpcTypes' /\ DifferenceCovers'
    BY <1>1, <1>3, <1>5, NotAskingKeeps
  <2>2. ServerTypes'
    BY <1>1, <1>5, <2>1 DEF Inv, TypeOK, ServerTypes, RpcTypes
  <2>3. /\ queue' \subseteq queue \cup {u} /\ QueueWatched'
        /\ wait' \in {"no", "fresh", "late"}
    <3>1. CASE UNCHANGED <<queue, wait>>
      BY <3>1 DEF Inv, QueueWatched, TypeOK, StageTypes
    <3>2. CASE Keep(u)
      BY <1>2, <3>2, KeepKeeps DEF QueueWatched
    <3> QED BY <1>5, <3>1, <3>2
  <2>4. StageTypes'
    BY <1>1, <1>2, <1>5, <2>1, <2>3 DEF Inv, TypeOK, StageTypes, RpcTypes, params
  <2>5. NothingLost'
    BY <1>1, <1>3, <1>5, StillNothingLost
  <2>6. OwnCounted'
    BY <1>1, <1>2, <2>3 DEF Inv, OwnCounted
  <2>7. Rest' /\ UNCHANGED storage /\ have' \subseteq have
    BY <1>1, <1>5, <2>1, <2>2, <2>3, <2>4, <2>5, <2>6 DEF Rest, storage
  <2> QED BY <1>3, <2>7, QuietStep
<1>6. CASE GetDifference({}) /\ UNCHANGED <<params, queue, wait, writes>>
  <2>1. RpcTypes' /\ stranded' \subseteq Nat /\ DifferenceCovers'
    BY <1>1, <1>3, <1>6, AskingKeeps
  <2>2. ServerTypes'
    BY <1>1, <2>1 DEF Inv, TypeOK, ServerTypes, RpcTypes
  <2>3. StageTypes'
    BY <1>1, <1>6, <2>1 DEF Inv, TypeOK, StageTypes, RpcTypes, params
  <2>4. NothingLost'
    BY <1>1, <1>3, <1>6, StillNothingLost
  <2>5. OwnCounted' /\ QueueWatched'
    BY <1>1, <1>6 DEF Inv, OwnCounted, QueueWatched
  <2>6. Rest' /\ UNCHANGED storage /\ have' \subseteq have
    BY <1>1, <1>6, <2>1, <2>2, <2>3, <2>4, <2>5 DEF Rest, storage
  <2> QED BY <1>3, <2>6, QuietStep
<1> QED BY <1>4, <1>5, <1>6 DEF OwnAnswer

-----------------------------------------------------------------------------
(* The queue.                                                              *)

\* The server's part of a step of the stage thread alone.
LEMMA ServerQuiet ==
  ASSUME Inv, UNCHANGED <<server, pushes, base, skipped>>, RpcTypes', stranded' \subseteq Nat
  PROVE  /\ ServerTypes' /\ UNCHANGED Excused /\ Exempt' = Exempt
         /\ UNCHANGED <<own, sent, inflight, ownAnswers>>
<1>1. UNCHANGED <<srv, sent, own, faults, inflight, ownAnswers, announce, base, skipped>>
  BY DEF server, pushes
<1> QED BY <1>1 DEF Inv, TypeOK, ServerTypes, RpcTypes, Excused, Exempt

\* An update of the queue whose turn has come.
LEMMA DrainNextKeepsInv ==
  ASSUME Inv, NEW u \in queue, DrainNext(u) PROVE Inv'
<1> USE DEF DrainNext, Turn
<1>1. u \in Updates /\ UNCHANGED Excused
  BY DEF Inv, TypeOK, StageTypes, Excused, server
<1>2. Numbers(u) \in SUBSET Nat
  BY <1>1, NumbersAreNat
<1>3. /\ seq' \in Nat /\ pts' \in Nat /\ dated' \in BOOLEAN
      /\ have \subseteq have' /\ have' \subseteq have \cup Numbers(u) /\ NothingLost'
  <2>1. CASE UNCHANGED <<params, have>>
    <3>1. NothingLost'
      BY <1>1, <2>1, StillNothingLost
    <3> QED BY <2>1, <3>1 DEF Inv, TypeOK, StageTypes, params
  <2>2. CASE Process(u)
    BY <1>1, <2>2, ProcessKeeps
  <2> QED BY <2>1, <2>2
<1>4. Exempt' = Exempt
  BY <1>1 DEF Excused, Exempt
<1>5. RpcTypes' /\ DifferenceCovers'
  BY <1>3, <1>4, NotAskingKeeps
<1>6. stranded' \subseteq Nat
  BY <1>2 DEF Inv, TypeOK, ServerTypes
<1>7. ServerTypes' /\ UNCHANGED <<own, sent, inflight, ownAnswers>>
  BY <1>5, <1>6, ServerQuiet
<1>8. StageTypes'
  BY <1>2, <1>3, <1>5 DEF Inv, TypeOK, StageTypes, RpcTypes
<1>9. OwnCounted' /\ QueueWatched'
  BY <1>7 DEF Inv, OwnCounted, QueueWatched
<1>10. Rest'
  BY <1>3, <1>5, <1>7, <1>8, <1>9 DEF Rest
<1> DEFINE ns == IF have' = have THEN {} ELSE Numbers(u)
<1>11. ns \in SUBSET Nat /\ have' \subseteq have \cup ns /\ Posts(ns)
  BY <1>2, <1>3 DEF Posts
<1> HIDE DEF ns
<1> QED BY <1>4, <1>10, <1>11, PostingStep

\* An update that is dropped.
LEMMA DrainOldKeepsInv ==
  ASSUME Inv, NEW u \in queue, DrainOld(u) PROVE Inv'
<1> USE DEF DrainOld, Turn
<1>1. u \in Updates /\ UNCHANGED Excused /\ have' = have
  BY DEF Inv, TypeOK, StageTypes, Excused, server
<1>2. Exempt' = Exempt
  BY <1>1 DEF Excused, Exempt
<1>3. RpcTypes' /\ DifferenceCovers'
  BY <1>1, <1>2, NotAskingKeeps
<1>4. stranded' \subseteq Nat
  BY <1>1, NumbersAreNat DEF Inv, TypeOK, ServerTypes
<1>5. ServerTypes' /\ UNCHANGED <<own, sent, inflight, ownAnswers>>
  BY <1>3, <1>4, ServerQuiet
<1>6. StageTypes'
  BY <1>3 DEF Inv, TypeOK, StageTypes, RpcTypes, params
<1>7. OwnCounted' /\ QueueWatched'
  BY <1>5 DEF Inv, OwnCounted, QueueWatched
<1>8. NothingLost'
  BY <1>1, StillNothingLost
<1>9. Rest' /\ UNCHANGED storage
  BY <1>3, <1>5, <1>6, <1>7, <1>8 DEF Rest, storage
<1> QED BY <1>1, <1>2, <1>9, QuietStep

\* A hole.
LEMMA DrainHoleKeepsInv ==
  ASSUME Inv, NEW u \in queue, DrainHole(u) PROVE Inv'
<1> USE DEF DrainHole, Turn
<1>1. UNCHANGED <<params, have, Excused>> /\ disk' = disk
  BY DEF Excused, server
<1>2. Exempt' = Exempt /\ have' = have
  BY <1>1 DEF Excused, Exempt
<1>3. /\ RpcTypes' /\ DifferenceCovers' /\ stranded' \subseteq Nat
      /\ queue' \subseteq queue /\ wait' \in {"no", "fresh", "late"} /\ QueueWatched'
  <2>1. CASE /\ wait' = IF draining = "some" THEN "fresh" ELSE wait
             /\ wait # "no" /\ UNCHANGED <<queue, stranded>> /\ AskNothing
    <3>1. RpcTypes' /\ DifferenceCovers'
      BY <1>2, <2>1, NotAskingKeeps
    <3> QED BY <2>1, <3>1 DEF Inv, TypeOK, StageTypes, ServerTypes, QueueWatched
  <2>2. CASE wait' = "no" /\ queue' = {} /\ GetDifference(NumbersOf(queue))
    <3>1. NumbersOf(queue) \in SUBSET Nat
      BY NumbersAreNat DEF NumbersOf, Inv, TypeOK, StageTypes
    <3>2. RpcTypes' /\ DifferenceCovers' /\ stranded' \subseteq Nat
      BY <1>1, <2>2, <3>1, AskingKeeps
    <3> QED BY <2>2, <3>2 DEF QueueWatched
  <2> QED BY <2>1, <2>2
<1>4. ServerTypes' /\ UNCHANGED <<own, sent, inflight, ownAnswers>>
  BY <1>3, ServerQuiet
<1>5. StageTypes'
  BY <1>1, <1>3 DEF Inv, TypeOK, StageTypes, RpcTypes, params
<1>6. OwnCounted'
  BY <1>3, <1>4 DEF Inv, OwnCounted
<1>7. NothingLost'
  BY <1>1, StillNothingLost
<1>8. Rest' /\ Posts({}) /\ have' \subseteq have \cup {}
  BY <1>2, <1>3, <1>4, <1>5, <1>6, <1>7 DEF Rest, Posts
<1> QED BY <1>1, <1>2, <1>8, PostingStep

\* The end of the loop.
LEMMA DrainEndKeepsInv == ASSUME Inv, DrainEnd PROVE Inv'
<1> USE DEF DrainEnd, Turn
<1>1. UNCHANGED <<params, have, Excused>> /\ disk' = disk
  BY DEF Excused, server
<1>2. Exempt' = Exempt /\ have' = have
  BY <1>1 DEF Excused, Exempt
<1>3. RpcTypes' /\ DifferenceCovers'
  BY <1>2, NotAskingKeeps
<1>4. stranded' \subseteq Nat
  BY DEF Inv, TypeOK, ServerTypes
<1>5. ServerTypes' /\ UNCHANGED <<own, sent, inflight, ownAnswers>>
  BY <1>3, <1>4, ServerQuiet
<1>6. StageTypes'
  BY <1>1, <1>3 DEF Inv, TypeOK, StageTypes, RpcTypes, params
<1>7. OwnCounted' /\ QueueWatched'
  BY <1>5 DEF Inv, OwnCounted, QueueWatched
<1>8. NothingLost'
  BY <1>1, StillNothingLost
<1>9. Rest' /\ Posts({}) /\ have' \subseteq have \cup {}
  BY <1>2, <1>3, <1>5, <1>6, <1>7, <1>8 DEF Rest, Posts
<1> QED BY <1>1, <1>2, <1>9, PostingStep

\* The timer.
LEMMA TimerKeepsInv == ASSUME Inv, Tick \/ WaitElapses PROVE Inv'
<1>1. /\ UNCHANGED <<params, queue, getting, updating, have, storage, server, pushes,
                     rpc, history>>
      /\ draining' \in {"no", "first", "some"} /\ wait' \in {"no", "late"}
      /\ queue # {} => wait' # "no"
  BY DEF Tick, WaitElapses, Inv, TypeOK, StageTypes
<1>2. UNCHANGED <<params, have, Excused>> /\ AskNothing
  BY <1>1 DEF Excused, history, server, rpc, AskNothing
<1>3. Exempt' = Exempt /\ have' = have
  BY <1>2 DEF Excused, Exempt
<1>4. RpcTypes' /\ DifferenceCovers'
  BY <1>2, <1>3, NotAskingKeeps
<1>5. stranded' \subseteq Nat
  BY <1>1 DEF Inv, TypeOK, ServerTypes, history
<1>6. ServerTypes' /\ UNCHANGED <<own, sent, inflight, ownAnswers>>
  BY <1>1, <1>4, <1>5, ServerQuiet DEF history
<1>7. StageTypes'
  BY <1>1, <1>2, <1>4 DEF Inv, TypeOK, StageTypes, RpcTypes, params
<1>8. OwnCounted' /\ QueueWatched'
  BY <1>1, <1>6 DEF Inv, OwnCounted, QueueWatched
<1>9. NothingLost'
  BY <1>2, StillNothingLost
<1>10. Rest' /\ UNCHANGED storage
  BY <1>1, <1>4, <1>6, <1>7, <1>8, <1>9 DEF Rest
<1> QED BY <1>3, <1>10, QuietStep

-----------------------------------------------------------------------------
(* The answers.                                                            *)

\* What a difference brings follows what it was asked from.
LEMMA ApplyDifferenceKeepsInv == ASSUME Inv, ApplyDifference PROVE Inv'
<1> DEFINE new == (diff.from + 1)..diff.upto
<1>1. /\ have' = have \cup new /\ dated' = TRUE /\ diff.st # "idle"
      /\ UNCHANGED <<queue, wait, updating, state, disk, server, pushes, history>>
  BY DEF ApplyDifference
<1>2. diff.from \in Nat /\ diff.upto \in Nat /\ new \in SUBSET Nat
  BY DEF Inv, TypeOK, ServerTypes
<1>3. UNCHANGED Excused /\ Exempt' = Exempt
  BY <1>1 DEF history, server, Excused, Exempt
<1>4. 1..diff.upto \subseteq Known(have)'
  <2>1. 1..diff.upto \subseteq 1..diff.from \cup new
    BY <1>2
  <2>2. 1..diff.from \subseteq Known(have)
    BY <1>1 DEF Inv, DifferenceCovers
  <2> QED BY <1>1, <1>3, <2>1, <2>2 DEF Known
<1>5. /\ seq' = seq /\ pts' = diff.upto /\ getting' = getting
      /\ diff' = Ask(diff.upto) /\ draining' = draining /\ Posts(new)
      \/ /\ seq' = diff.upto /\ pts' \in {diff.upto, pts} /\ getting' = FALSE
         /\ diff' = Idle /\ draining' \in {"no", "first"} /\ Posts(new)
  BY DEF ApplyDifference, ThenDrain, Posts
<1>6. seq' \in {seq, diff.upto} /\ pts' \in {pts, diff.upto}
  BY <1>5
<1>7. NothingLost'
  BY <1>1, <1>3, <1>4, <1>6 DEF Inv, NothingLost, Known
<1>9. diff' = Ask(diff.upto) \/ diff' = Idle
  BY <1>5
<1>8. RpcTypes'
  <2>1. diff' \in [st : {"idle", "asked", "slice", "final", "empty"},
                   from : Nat, upto : Nat]
    BY <1>2, <1>9 DEF Ask, Idle
  <2>2. getting' \in BOOLEAN
    BY <1>5 DEF Inv, TypeOK, StageTypes
  <2> QED BY <1>1, <2>1, <2>2 DEF Inv, TypeOK, StageTypes, ServerTypes, RpcTypes
<1>10. DifferenceCovers'
  BY <1>4, <1>9 DEF DifferenceCovers, Ask, Idle
<1>11. stranded' \subseteq Nat
  BY <1>1 DEF history, Inv, TypeOK, ServerTypes
<1>12. ServerTypes' /\ UNCHANGED <<own, sent, inflight, ownAnswers>>
  BY <1>1, <1>8, <1>11, ServerQuiet DEF history
<1>13. StageTypes'
  <2>1. seq' \in Nat /\ pts' \in Nat /\ have' \subseteq Nat
    BY <1>1, <1>2, <1>6 DEF Inv, TypeOK, StageTypes
  <2>2. draining' \in {"no", "first", "some"}
    BY <1>5 DEF Inv, TypeOK, StageTypes
  <2> QED BY <1>1, <1>8, <2>1, <2>2 DEF Inv, TypeOK, StageTypes, RpcTypes
<1>14. OwnCounted' /\ QueueWatched'
  BY <1>1, <1>12 DEF Inv, OwnCounted, QueueWatched
<1>15. Rest'
  BY <1>7, <1>10, <1>12, <1>13, <1>14 DEF Rest
<1>16. Posts(new) /\ have' \subseteq have \cup new /\ disk' = disk
  BY <1>1, <1>5
<1> HIDE DEF new
<1> QED BY <1>2, <1>3, <1>15, <1>16, PostingStep

\* What a state had counted is exempt, and what it makes us skip too.
LEMMA LoadStateKeepsInv == ASSUME Inv, LoadState PROVE Inv'
<1> DEFINE n == state.upto
<1>1. /\ pts' = n /\ dated' = TRUE /\ updating' = FALSE /\ state' = Idle
      /\ base' = IF n > base THEN n ELSE base
      /\ UNCHANGED <<queue, getting, have, disk, server, pushes, diff, stranded>>
  BY DEF LoadState
<1>2. n \in Nat /\ base \in Nat
  BY DEF Inv, TypeOK, ServerTypes
<1>3. own' = own /\ UNCHANGED <<srv, sent, faults, inflight, ownAnswers, announce>>
  BY <1>1 DEF server, pushes
<1>4. /\ seq' \in Nat /\ skipped' \subseteq Nat /\ skipped \subseteq skipped'
      /\ 1..seq' \subseteq 1..n \cup skipped'
      /\ wait' \in {"no", "fresh", "late"} /\ draining' \in {"no", "first", "some"}
      /\ QueueWatched'
      /\ Posts({}) \/ UNCHANGED storage
  <2>1. CASE queue = {}
    <3>1. seq' = n /\ wait' = "no" /\ draining' = "no" /\ PutThenSave({})
          /\ skipped' = skipped
      BY <2>1 DEF LoadState
    <3> QED BY <1>1, <1>2, <2>1, <3>1 DEF Inv, TypeOK, ServerTypes, QueueWatched, Posts
  <2>2. CASE queue # {}
    <3>6. /\ \E u \in queue : Earliest(u) /\ seq' = u.first
          /\ skipped' = skipped \cup (n + 1)..seq'
          /\ draining' = "first"
          /\ UNCHANGED <<wait, writes>>
      BY <2>2, Zenon DEF LoadState
    <3>1. PICK u \in queue : seq' = u.first
      BY <3>6
    <3>2. u.first \in Nat
      BY <3>1 DEF Inv, TypeOK, StageTypes, Updates
    <3>3. /\ skipped' = skipped \cup (n + 1)..seq' /\ draining' = "first"
          /\ wait' = wait /\ writes' = writes
      BY <3>6
    <3> HIDE DEF n
    <3>4. seq' \in Nat
      BY <3>1, <3>2
    <3>5. skipped \subseteq Nat
      BY DEF Inv, TypeOK, ServerTypes
    <3>7. (n + 1)..seq' \subseteq Nat
      BY <1>2, <3>4
    <3>8. skipped' \subseteq Nat /\ skipped \subseteq skipped'
      BY <3>3, <3>5, <3>7
    <3>9. 1..seq' \subseteq 1..n \cup skipped'
      BY <1>2, <3>3, <3>4
    <3> QED BY <1>1, <3>3, <3>4, <3>8, <3>9
            DEF Inv, TypeOK, StageTypes, QueueWatched, storage
  <2> QED BY <2>1, <2>2
<1>5. base' \in Nat /\ n <= base' /\ base <= base'
  BY <1>1, <1>2
<1>6. ServerTypes'
  BY <1>1, <1>3, <1>4, <1>5 DEF Inv, TypeOK, ServerTypes, Idle
<1>7. Exempt \subseteq Exempt'
  BY <1>3, <1>4, <1>5, <1>6, ExemptGrows DEF Inv
<1>8. 1..n \subseteq 1..base'
  BY <1>2, <1>5
<1>9. NothingLost'
  BY <1>1, <1>4, <1>8 DEF NothingLost, Known, Exempt
<1>10. DifferenceCovers'
  BY <1>1, <1>7 DEF Inv, DifferenceCovers, Known
<1>11. StageTypes'
  BY <1>1, <1>2, <1>4 DEF Inv, TypeOK, StageTypes
<1>12. OwnCounted'
  BY <1>1, <1>3 DEF Inv, OwnCounted
<1>13. Rest' /\ have' = have /\ disk' = disk
  BY <1>1, <1>4, <1>6, <1>9, <1>10, <1>11, <1>12 DEF Rest
<1>14. CASE Posts({})
  <2>1. have' \subseteq have \cup {}
    BY <1>13
  <2> QED BY <1>7, <1>13, <1>14, <2>1, PostingStep
<1>15. CASE UNCHANGED storage
  BY <1>7, <1>13, <1>15, QuietStep
<1> QED BY <1>4, <1>14, <1>15

\* A step that changes flags and requests only.
LEMMA FlagsStep ==
  ASSUME Inv, UNCHANGED <<params, queue, wait, draining, have, storage, Excused>>,
         ServerTypes', RpcTypes', DifferenceCovers', OwnCounted'
  PROVE  Inv'
<1>1. StageTypes'
  BY DEF Inv, TypeOK, StageTypes, RpcTypes, params
<1>2. NothingLost' /\ QueueWatched'
  BY StillNothingLost DEF Inv, QueueWatched
<1>3. Exempt' = Exempt /\ have' = have
  BY DEF Excused, Exempt
<1> QED BY <1>1, <1>2, <1>3, QuietStep DEF Rest

\* The announcement of a new session.
LEMMA NewSessionKeepsInv == ASSUME Inv, NewSession PROVE Inv'
<1> USE DEF NewSession
<1>1. UNCHANGED <<params, have, Excused, queue, wait, draining, storage, sent, own, srv,
                  faults, inflight, ownAnswers>>
  BY DEF Excused, server
<1>2. (1..srv) \in SUBSET Nat
  OBVIOUS
<1>3. RpcTypes' /\ stranded' \subseteq Nat /\ DifferenceCovers'
  BY <1>1, <1>2, AskingKeeps
<1>4. ServerTypes'
  BY <1>1, <1>3 DEF Inv, TypeOK, ServerTypes, RpcTypes, Excused
<1>5. OwnCounted'
  BY <1>1 DEF Inv, OwnCounted
<1> QED BY <1>1, <1>3, <1>4, <1>5, FlagsStep

\* Errors.
LEMMA ErrorsKeepInv == ASSUME Inv, Errors PROVE Inv'
<1>1. /\ UNCHANGED <<params, queue, wait, draining, have, storage, srv, sent, own,
                     pushes, base, skipped>>
      /\ updating' = updating /\ getting' \in {FALSE, getting}
      /\ diff' \in {diff, Idle} /\ state' \in {state, Ask(0)}
      /\ stranded' \subseteq stranded \cup 1..srv /\ faults' = faults + 1
  BY DEF Errors, DifferenceError, StateError, Fault, flags, history
<1>2. UNCHANGED <<params, queue, wait, draining, have, storage, Excused>>
  BY <1>1 DEF Excused
<1>3. RpcTypes'
  <2>1. diff' \in [st : {"idle", "asked", "slice", "final", "empty"},
                   from : Nat, upto : Nat]
    BY <1>1 DEF Inv, TypeOK, ServerTypes, Idle
  <2>2. state' \in [st : {"idle", "asked", "answered"}, from : Nat, upto : Nat]
    BY <1>1 DEF Inv, TypeOK, ServerTypes, Ask
  <2>3. getting' \in BOOLEAN /\ updating' \in BOOLEAN
    BY <1>1 DEF Inv, TypeOK, StageTypes
  <2> QED BY <2>1, <2>2, <2>3 DEF RpcTypes
<1>4. ServerTypes'
  BY <1>1, <1>3 DEF Inv, TypeOK, ServerTypes, RpcTypes, pushes
<1>5. DifferenceCovers'
  BY <1>1 DEF Inv, DifferenceCovers, Idle, Known, Exempt
<1>6. OwnCounted'
  BY <1>1 DEF Inv, OwnCounted, pushes
<1> QED BY <1>2, <1>3, <1>4, <1>5, <1>6, FlagsStep

-----------------------------------------------------------------------------
(* The storage, the crash and the server.                                  *)

\* What the storage thread has done need not be in its queue.
LEMMA TailCovers ==
  ASSUME NEW ws \in Seq(Writes), ws # <<>>, NEW stored, NEW got, NEW known,
         Covers(ws, stored, got, known), NEW kept, stored \subseteq kept,
         Head(ws).op = "put" => Head(ws).ns \subseteq kept
  PROVE  Tail(ws) \in Seq(Writes) /\ Covers(Tail(ws), kept, got, known)
<1> DEFINE xs == Tail(ws)
<1>1. /\ xs \in Seq(Writes) /\ Len(xs) = Len(ws) - 1 /\ Len(ws) \in Nat
      /\ Len(xs) \in Nat /\ ws[1] = Head(ws)
      /\ \A j \in 1..Len(xs) : xs[j] = ws[j + 1]
  OBVIOUS
<1> HIDE DEF xs
<1>2. ASSUME NEW i \in Int, NEW n \in stored \cup PutBefore(ws, i + 1)
      PROVE  n \in kept \cup PutBefore(xs, i)
  <2>1. CASE n \in stored
    BY <2>1
  <2>2. CASE n \in PutBefore(ws, i + 1)
    <3>1. PICK j \in 1..Len(ws) : j < i + 1 /\ ws[j].op = "put" /\ n \in ws[j].ns
      BY <2>2, InPutBefore
    <3>2. CASE j = 1
      BY <1>1, <3>1, <3>2
    <3>3. CASE j # 1
      <4>1. /\ j - 1 \in 1..Len(xs) /\ j - 1 < i
            /\ xs[j - 1].op = "put" /\ n \in xs[j - 1].ns
        BY <1>1, <3>1, <3>3
      <4> QED BY <4>1, InPutBefore
    <3> QED BY <3>2, <3>3
  <2> QED BY <1>2, <2>1, <2>2
<1>3. ASSUME NEW i \in 1..Len(xs), xs[i].op = "save",
             NEW n \in 1..xs[i].seq \cup 1..xs[i].pts
      PROVE  n \in kept \cup PutBefore(xs, i) \cup known
  <2>1. i + 1 \in 1..Len(ws) /\ xs[i] = ws[i + 1] /\ i \in Int
    BY <1>1
  <2>2. n \in stored \cup PutBefore(ws, i + 1) \cup known
    BY <1>3, <2>1 DEF Covers
  <2> QED BY <1>2, <2>1, <2>2
<1>4. got \subseteq kept \cup PutBefore(xs, Len(xs) + 1)
  <2>1. Len(xs) + 1 \in Int /\ (Len(xs) + 1) + 1 = Len(ws) + 1
    BY <1>1
  <2> QED BY <1>2, <2>1 DEF Covers
<1> QED BY <1>1, <1>3, <1>4 DEF Covers, xs

\* The storage thread runs a write.
LEMMA WriteNextKeepsInv == ASSUME Inv, WriteNext PROVE Inv'
<1> DEFINE w == Head(writes)
<1>1. /\ writes # <<>> /\ writes' = Tail(writes)
      /\ UNCHANGED <<params, queue, flags, draining, have, server, pushes, rpc, history>>
      /\ disk' = IF w.op = "put" THEN [disk EXCEPT !.stored = @ \cup w.ns]
                 ELSE [disk EXCEPT !.seq = w.seq, !.pts = w.pts, !.dated = w.dated]
  BY DEF WriteNext
<1>2. /\ writes \in Seq(Writes) /\ w \in Writes /\ w = writes[1] /\ 1 \in 1..Len(writes)
      /\ disk \in [seq : Nat, pts : Nat, dated : BOOLEAN, stored : SUBSET Nat]
  BY <1>1 DEF Inv, TypeOK, StorageTypes
<1>3. Covers(writes, disk.stored, have, Exempt)
  BY DEF Inv, WritesCover
<1>4. Exempt' = Exempt
  BY <1>1 DEF Exempt, server, history
<1>5. StageTypes' /\ ServerTypes' /\ NothingLost' /\ DifferenceCovers' /\ OwnCounted'
      /\ QueueWatched'
  BY <1>1, <1>4 DEF Inv, TypeOK, StageTypes, ServerTypes, NothingLost, Known,
       DifferenceCovers, OwnCounted, QueueWatched, params, flags, server, pushes, rpc, history
<1>6. CASE w.op = "put"
  <2>1. w.ns \in SUBSET Nat
    BY <1>2, <1>6 DEF Writes
  <2>2. disk' = [disk EXCEPT !.stored = @ \cup w.ns]
    BY <1>1, <1>6
  <2>3. /\ disk' \in [seq : Nat, pts : Nat, dated : BOOLEAN, stored : SUBSET Nat]
        /\ disk'.stored = disk.stored \cup w.ns
        /\ disk'.seq = disk.seq /\ disk'.pts = disk.pts
    BY <1>2, <2>1, <2>2
  <2>4. writes' \in Seq(Writes) /\ Covers(writes', disk'.stored, have, Exempt)
    BY <1>1, <1>2, <1>3, <2>3, TailCovers
  <2>5. DiskNothingLost'
    BY <1>4, <2>3 DEF Inv, DiskNothingLost, Known
  <2> QED BY <1>1, <1>4, <1>5, <2>3, <2>4, <2>5 DEF Inv, TypeOK, StorageTypes, WritesCover
<1>7. CASE w.op # "put"
  <2>1. w.op = "save" /\ w.seq \in Nat /\ w.pts \in Nat /\ w.dated \in BOOLEAN
    BY <1>2, <1>7 DEF Writes
  <2>2. disk' = [disk EXCEPT !.seq = w.seq, !.pts = w.pts, !.dated = w.dated]
    BY <1>1, <1>7
  <2>3. /\ disk' \in [seq : Nat, pts : Nat, dated : BOOLEAN, stored : SUBSET Nat]
        /\ disk'.stored = disk.stored /\ disk'.seq = w.seq /\ disk'.pts = w.pts
    BY <1>2, <2>1, <2>2
  <2>4. writes' \in Seq(Writes) /\ Covers(writes', disk'.stored, have, Exempt)
    BY <1>1, <1>2, <1>3, <1>7, <2>3, TailCovers
  <2>5. PutBefore(writes, 1) = {}
    BY <1>2 DEF PutBefore
  <2>6. \A n \in 1..w.seq \cup 1..w.pts : n \in disk.stored \cup Exempt
    BY <1>2, <1>3, <2>1, <2>5 DEF Covers
  <2>7. DiskNothingLost'
    BY <1>4, <2>3, <2>6 DEF DiskNothingLost, Known
  <2> QED BY <1>1, <1>4, <1>5, <2>3, <2>4, <2>7 DEF Inv, TypeOK, StorageTypes, WritesCover
<1> QED BY <1>6, <1>7

\* The client starts again from what the disk holds.
LEMMA CrashKeepsInv == ASSUME Inv, Crash PROVE Inv'
<1>1. /\ seq' = disk.seq /\ pts' = disk.pts /\ dated' = disk.dated
      /\ have' = disk.stored
      /\ queue' = {} /\ wait' = "no" /\ getting' = FALSE /\ updating' = FALSE
      /\ draining' = "no" /\ writes' = <<>> /\ diff' = Idle /\ state' = Idle
      /\ inflight' = {} /\ ownAnswers' = {} /\ announce' = TRUE
      /\ UNCHANGED <<disk, srv, sent, own, base, skipped, stranded>>
      /\ faults' = faults + 1
  BY DEF Crash, Fault, history
<1>2. disk \in [seq : Nat, pts : Nat, dated : BOOLEAN, stored : SUBSET Nat]
  BY DEF Inv, TypeOK, StorageTypes
<1>3. Exempt' = Exempt
  BY <1>1 DEF Exempt
<1>4. StageTypes'
  BY <1>1, <1>2 DEF StageTypes
<1>5. ServerTypes'
  BY <1>1 DEF Inv, TypeOK, ServerTypes, Idle
<1>6. StorageTypes'
  BY <1>1, <1>2 DEF StorageTypes
<1>7. NothingLost' /\ DiskNothingLost'
  BY <1>1, <1>3 DEF Inv, NothingLost, DiskNothingLost, Known
<1>8. WritesCover'
  BY <1>1 DEF WritesCover, Covers
<1>9. DifferenceCovers' /\ OwnCounted' /\ QueueWatched'
  BY <1>1 DEF Inv, DifferenceCovers, OwnCounted, QueueWatched, Idle
<1> QED BY <1>4, <1>5, <1>6, <1>7, <1>8, <1>9 DEF Inv, TypeOK

\* The server's steps.
LEMMA ServerStep ==
  ASSUME Inv, UNCHANGED <<params, queue, flags, draining, have, storage, history>>,
         own \subseteq own', RpcTypes', ServerTypes', DifferenceCovers', OwnCounted'
  PROVE  Inv'
<1>1. base' = base /\ skipped' = skipped
  BY DEF history
<1>2. Exempt \subseteq Exempt'
  BY <1>1 DEF Exempt
<1>3. StageTypes' /\ QueueWatched'
  BY DEF Inv, TypeOK, StageTypes, QueueWatched, params, flags
<1>4. NothingLost'
  BY <1>2 DEF Inv, NothingLost, Known, params
<1> QED BY <1>2, <1>3, <1>4, QuietStep DEF Rest

\* Nothing the server or the connection does breaks the invariant.
LEMMA ServerKeepsInv == ASSUME Inv, Server PROVE Inv'
<1> USE DEF Inv, TypeOK, ServerTypes, StageTypes
<1> DEFINE Same == UNCHANGED <<params, queue, flags, draining, have, storage, history>>
<1>1. ASSUME NEW kind \in Kinds, ServerPushes(kind) PROVE Inv'
  <2> DEFINE last == IF kind = "combined" THEN srv + 2 ELSE srv + 1
             u == [kind |-> kind, first |-> srv + 1, seq |-> last]
  <2>1. /\ Same /\ srv' = last /\ sent' = sent \cup {u} /\ inflight' = inflight \cup {u}
        /\ UNCHANGED <<own, faults, ownAnswers, announce, rpc>>
    BY <1>1 DEF ServerPushes, Emit
  <2>2. kind \in AllKinds /\ kind # "own"
    BY <1>1, KindsAssumption DEF ServerPushes
  <2>3. u \in Updates /\ last \in Nat
    BY <2>2 DEF Updates
  <2>4. ServerTypes'
    BY <2>1, <2>3 DEF rpc, history
  <2>5. OwnCounted'
    BY <2>1, <2>2 DEF OwnCounted
  <2>6. RpcTypes' /\ DifferenceCovers'
    BY <2>1 DEF RpcTypes, DifferenceCovers, rpc, flags, history, Known, Exempt
  <2> QED BY <2>1, <2>4, <2>5, <2>6, ServerStep
<1>2. ASSUME ServerActs PROVE Inv'
  <2>1. /\ Same /\ srv' = srv + 1 /\ own' = own \cup {srv + 1}
        /\ ownAnswers' = ownAnswers \cup {srv + 1}
        /\ UNCHANGED <<sent, faults, inflight, announce, rpc>>
    BY <1>2 DEF ServerActs
  <2>2. ServerTypes' /\ OwnCounted'
    BY <2>1 DEF rpc, history, OwnCounted
  <2>3. RpcTypes' /\ DifferenceCovers'
    BY <2>1 DEF RpcTypes, DifferenceCovers, rpc, flags, history, Known, Exempt
  <2> QED BY <2>1, <2>2, <2>3, ServerStep
<1>3. ASSUME ServerDifference PROVE Inv'
  <2>1. Same /\ UNCHANGED <<srv, sent, own, faults, inflight, ownAnswers, announce, state>>
    BY <1>3 DEF ServerDifference, server, pushes
  <2>2. PICK n \in diff.from..srv :
          diff' = [diff EXCEPT !.upto = n, !.st =
            IF n = diff.from THEN "empty" ELSE IF n = srv THEN "final" ELSE "slice"]
    BY <1>3 DEF ServerDifference
  <2>3. /\ diff' \in [st : {"idle", "asked", "slice", "final", "empty"},
                      from : Nat, upto : Nat]
        /\ diff'.from = diff.from
        /\ diff'.st = "empty" => diff'.upto = diff'.from
    <3>1. /\ diff \in [st : {"idle", "asked", "slice", "final", "empty"},
                      from : Nat, upto : Nat]
          /\ srv \in Nat
      BY DEF Inv, TypeOK, ServerTypes
    <3>2. n \in Nat /\ diff.from \in Nat
      BY <3>1
    <3> QED BY <2>2, <3>1, <3>2
  <2>4. ServerTypes' /\ OwnCounted' /\ RpcTypes'
    BY <2>1, <2>3 DEF history, OwnCounted, RpcTypes, flags
  <2>5. diff.st # "idle"
    BY <1>3 DEF ServerDifference
  <2>6. DifferenceCovers'
    BY <2>1, <2>3, <2>5 DEF DifferenceCovers, Known, Exempt, history
  <2> QED BY <2>1, <2>4, <2>6, ServerStep
<1>4. ASSUME ServerState PROVE Inv'
  <2>1. /\ Same /\ UNCHANGED <<srv, sent, own, faults, inflight, ownAnswers, announce, diff>>
        /\ state' = [state EXCEPT !.st = "answered", !.upto = srv]
    BY <1>4 DEF ServerState, server, pushes
  <2>2. ServerTypes' /\ OwnCounted' /\ RpcTypes'
    BY <2>1 DEF history, OwnCounted, RpcTypes, flags
  <2>3. DifferenceCovers'
    BY <2>1 DEF DifferenceCovers, Known, Exempt, history
  <2> QED BY <2>1, <2>2, <2>3, ServerStep
<1>5. ASSUME ServerLosesSession \/ ServerTooLong \/ \E u \in sent : ServerRepeats(u)
      PROVE  Inv'
  <2> DEFINE tooLong == [kind |-> "tooLong", first |-> 1, seq |-> srv]
  <2>1. /\ Same /\ UNCHANGED <<srv, sent, own, ownAnswers, rpc>>
        /\ announce' \in BOOLEAN /\ faults' = faults + 1
        /\ inflight' \subseteq inflight \cup sent \cup {tooLong}
    BY <1>5 DEF ServerLosesSession, ServerTooLong, ServerRepeats, Fault
  <2>2. tooLong \in Updates
    BY DEF Updates
  <2>3. ServerTypes' /\ RpcTypes'
    BY <2>1, <2>2 DEF rpc, history, RpcTypes, flags
  <2>4. OwnCounted'
    BY <2>1 DEF OwnCounted
  <2>5. DifferenceCovers'
    BY <2>1 DEF DifferenceCovers, rpc, Known, Exempt, history
  <2> QED BY <2>1, <2>3, <2>4, <2>5, ServerStep
<1> QED BY <1>1, <1>2, <1>3, <1>4, <1>5 DEF Server

-----------------------------------------------------------------------------
(* The theorems.                                                           *)

\* The invariant holds at first, with nothing counted and nothing written.
LEMMA InitInv == Init => Inv
<1> SUFFICES ASSUME Init PROVE Inv
  OBVIOUS
<1> USE DEF Init
<1>1. TypeOK
  <2>1. StageTypes
    BY DEF StageTypes
  <2>2. writes \in Seq(Writes)
    OBVIOUS
  <2>3. disk \in [seq : Nat, pts : Nat, dated : BOOLEAN, stored : SUBSET Nat]
    OBVIOUS
  <2>4. Idle \in [st : {"idle"}, from : Nat, upto : Nat]
    BY DEF Idle
  <2>5. ServerTypes
    BY <2>4 DEF ServerTypes
  <2> QED BY <2>1, <2>2, <2>3, <2>5 DEF TypeOK, StorageTypes
<1>2. NothingLost /\ DiskNothingLost /\ DifferenceCovers /\ OwnCounted /\ QueueWatched
  BY DEF NothingLost, DiskNothingLost, DifferenceCovers, OwnCounted, QueueWatched, Idle
<1>3. WritesCover
  BY DEF WritesCover, Covers
<1> QED BY <1>1, <1>2, <1>3 DEF Inv

\* Every step keeps the invariant.
LEMMA NextInv == Inv /\ [Next]_vars => Inv'
<1> SUFFICES ASSUME Inv, [Next]_vars PROVE Inv'
  OBVIOUS
<1>1. CASE Stage
  <2>1. CASE Push
    BY <2>1, PushProcessedKeepsInv, PushAsksKeepsInv, PushKeptKeepsInv DEF Push
  <2>2. CASE Drain
    BY <2>2, DrainNextKeepsInv, DrainOldKeepsInv, DrainHoleKeepsInv, DrainEndKeepsInv
       DEF Drain
  <2>3. CASE Tick
    BY <2>3, TimerKeepsInv
  <2>4. CASE \E n \in ownAnswers : OwnAnswer(n)
    BY <2>4, OwnAnswerKeepsInv
  <2>5. CASE ApplyDifference \/ LoadState \/ NewSession
    BY <2>5, ApplyDifferenceKeepsInv, LoadStateKeepsInv, NewSessionKeepsInv
  <2> QED BY <1>1, <2>1, <2>2, <2>3, <2>4, <2>5 DEF Stage
<1>2. CASE Errors \/ Server \/ WaitElapses \/ WriteNext \/ Crash
  BY <1>2, ErrorsKeepInv, ServerKeepsInv, TimerKeepsInv, WriteNextKeepsInv, CrashKeepsInv
<1>3. CASE UNCHANGED vars
  BY <1>3 DEF vars, params, flags, storage, server, rpc, pushes, history,
       Inv, TypeOK, StageTypes, StorageTypes, ServerTypes, NothingLost, DiskNothingLost,
       WritesCover, Covers, PutBefore, DifferenceCovers, OwnCounted, QueueWatched,
       Known, Exempt
<1> QED BY <1>1, <1>2, <1>3 DEF Next

\* The invariant holds in every reachable state, for any number of updates,
\* faults and writes, and whatever the order pushes arrive in.
THEOREM Invariance == Spec => []Inv
  BY InitInv, NextInv, PTL DEF Spec

\* processUpdates, the queue and the differences never count an update that was
\* not handed out.
THEOREM CountsWhatItHas == Spec => []NothingLost
<1>1. Inv => NothingLost
  BY DEF Inv
<1> QED BY <1>1, Invariance, PTL

\* saveDiffParams never runs ahead of the messages it counts: a crash at any
\* moment loses nothing for good.
THEOREM DiskCountsWhatItHas == Spec => []DiskNothingLost
<1>1. Inv => DiskNothingLost
  BY DEF Inv
<1> QED BY <1>1, Invariance, PTL

\* No update waits in the queue without the timer watching it.
THEOREM QueueIsWatched == Spec => []QueueWatched
<1>1. Inv => QueueWatched
  BY DEF Inv
<1> QED BY <1>1, Invariance, PTL

-----------------------------------------------------------------------------
(* The deletion timers of DeletionTimers, beside the updates. *)

\* What the storage queue holds.
StorageTask ==
  [kind : {"create"}, dates : UNION { [ms -> Timers!Dates] : ms \in SUBSET Secrets }]
  \cup [kind : {"getNewTask"}, old : SUBSET Secrets]
  \cup [kind : {"delete"}, mids : SUBSET Secrets]

QueuesRight == stage \in Seq(Timers!StageTask) /\ tasks \in Seq(StorageTask)

Has(q, k) == \E i \in DOMAIN q : q[i].kind = k

\* No answer to a load is behind a place of the queue.
Latest(q, i) == \A j \in DOMAIN q : j > i => q[j].kind # "loaded"

\* Deleted, or mixed up with another load.
Past == gone \cup crossed

\* A message that may be deleted now, and one that was or will be before
\* whatever is put on the storage queue now.
Doomed(m) == m \in Past \/ (deadlines[m] # 0 /\ deadlines[m] <= now)
Handed(m) == m \in Past \/ \E j \in DOMAIN tasks : tasks[j].kind = "delete" /\ m \in tasks[j].mids

\* A message gets a row once.
CreatesRight ==
  /\ Timers!Timed \subseteq asked
  /\ \A i \in DOMAIN tasks : tasks[i].kind = "create" =>
       /\ DOMAIN tasks[i].dates \subseteq asked
       /\ \A m \in DOMAIN tasks[i].dates : deadlines[m] = 0
       /\ \A j \in DOMAIN tasks :
            j # i /\ tasks[j].kind = "create" => DOMAIN tasks[i].dates \cap DOMAIN tasks[j].dates = {}

\* The messages in memory, or in an answer on its way, have the date that is
\* with them, or their rows are of no more use...
WordsRight ==
  /\ time # 0 => \A m \in mids : deadlines[m] = time \/ m \in Past
  /\ \A i \in DOMAIN stage : stage[i].kind = "loaded" =>
       /\ (stage[i].mids # {} <=> stage[i].date # 0)
       /\ \A m \in stage[i].mids : deadlines[m] = stage[i].date \/ m \in Past

\* ...but those of the last answer have it.
LastRight ==
  /\ ~Has(stage, "loaded") /\ time # 0 => \A m \in mids : deadlines[m] = time
  /\ \A i \in DOMAIN stage : stage[i].kind = "loaded" /\ Latest(stage, i) =>
       \A m \in stage[i].mids : deadlines[m] = stage[i].date

\* What is in memory while a deletion is under way may be deleted; once the reload
\* is posted it was handed over, and so was whatever is to lose its row.
DeletionsRight ==
  /\ Timers!Deleting \/ time = 0 => \A m \in mids : Doomed(m)
  /\ Has(stage, "reload") => \A m \in mids : Handed(m)
  /\ \A i \in DOMAIN stage : stage[i].kind = "get" => \A m \in stage[i].old : Handed(m)
  /\ \A j \in DOMAIN tasks : tasks[j].kind = "delete" => \A m \in tasks[j].mids : Doomed(m)
  /\ \A j \in DOMAIN tasks : tasks[j].kind = "getNewTask" =>
       \A m \in tasks[j].old :
         m \in Past \/ \E k \in DOMAIN tasks : k < j /\ tasks[k].kind = "delete" /\ m \in tasks[k].mids

\* The table will be looked at.
Coming == deletions > 0 \/ Has(stage, "get") \/ Has(stage, "reload") \/ Has(tasks, "getNewTask")

\* Something on the stage queue tells of a date no later than the message's, and no
\* earlier answer is behind it.
Told(m) ==
  \E i \in DOMAIN stage :
    /\ Latest(stage, i)
    /\ \/ stage[i].kind = "added" /\ stage[i].min <= deadlines[m]
       \/ stage[i].kind = "loaded" /\ stage[i].date # 0 /\ stage[i].date <= deadlines[m]

Remembered(m) == ~Has(stage, "loaded") /\ time # 0 /\ time <= deadlines[m]

\* Nobody who waits is forgotten.
Watching ==
  /\ mids # {} /\ time = 0 => Timers!Deleting
  /\ loading => Has(tasks, "getNewTask") \/ Has(stage, "loaded")
  /\ first => \A m \in Timers!Timed : Coming \/ Told(m) \/ Remembered(m)

TimersInv ==
  /\ Timers!BoundAssumption /\ Timers!TypeOK /\ QueuesRight
  /\ CreatesRight /\ WordsRight /\ LastRight /\ DeletionsRight /\ Watching

-----------------------------------------------------------------------------
(* How a step moves a queue: k elements, one or none, are taken, and those   *)
(* of new, one or none, are appended.                                        *)

Moves(q, u, k, new) ==
  /\ k \in {0, 1} /\ DOMAIN q \subseteq Nat \ {0} /\ DOMAIN u \subseteq Nat \ {0}
  /\ \A i \in DOMAIN q : i > k => i - k \in DOMAIN u /\ u[i - k] = q[i]
  /\ \A i \in DOMAIN u : \/ i + k \in DOMAIN q /\ u[i] = q[i + k]
                         \/ u[i] \in new /\ \A j \in DOMAIN u : j <= i
  /\ \A e \in new : \E i \in DOMAIN u : u[i] = e

\* Nothing is appended.
LEMMA MovedBy ==
  ASSUME NEW S, NEW q \in Seq(S)
  PROVE  /\ Moves(q, q, 0, {})
         /\ q # <<>> => /\ Tail(q) \in Seq(S) /\ Moves(q, Tail(q), 1, {})
                        /\ 1 \in DOMAIN q /\ q[1] \in S /\ Head(q) = q[1]
<1>1. Moves(q, q, 0, {})
  BY DEF Moves
<1>2. ASSUME q # <<>>
      PROVE  /\ Tail(q) \in Seq(S) /\ Moves(q, Tail(q), 1, {})
             /\ 1 \in DOMAIN q /\ q[1] \in S /\ Head(q) = q[1]
  BY <1>2, HeadTaken DEF Moves
<1> QED BY <1>1, <1>2

\* An element is appended.
LEMMA MovedOn ==
  ASSUME NEW S, NEW q \in Seq(S), NEW e \in S
  PROVE  /\ Append(q, e) \in Seq(S) /\ Moves(q, Append(q, e), 0, {e})
         /\ q # <<>> => Append(Tail(q), e) \in Seq(S) /\ Moves(q, Append(Tail(q), e), 1, {e})
<1>1. Append(q, e) \in Seq(S) /\ Moves(q, Append(q, e), 0, {e})
  BY Appended DEF Moves
<1>2. ASSUME q # <<>>
      PROVE  Append(Tail(q), e) \in Seq(S) /\ Moves(q, Append(Tail(q), e), 1, {e})
  <2> DEFINE t == Tail(q)
             u == Append(t, e)
  <2>1. /\ t \in Seq(S) /\ Len(q) \in Nat \ {0} /\ DOMAIN q = 1..Len(q) /\ DOMAIN t = 1..(Len(q) - 1)
        /\ \A i \in 1..(Len(q) - 1) : t[i] = q[i + 1]
    BY <1>2, HeadTaken
  <2>2. /\ u \in Seq(S) /\ Len(t) \in Nat /\ DOMAIN t = 1..Len(t) /\ DOMAIN u = 1..(Len(t) + 1)
        /\ \A i \in 1..Len(t) : u[i] = t[i]
        /\ u[Len(t) + 1] = e
    BY <2>1, Appended
  <2>3. Len(t) = Len(q) - 1
    BY <2>1
  <2> HIDE DEF t, u
  <2>4. DOMAIN u = 1..Len(q) /\ u[Len(q)] = e /\ \A i \in 1..(Len(q) - 1) : u[i] = q[i + 1]
    BY <2>1, <2>2, <2>3
  <2>5. Moves(q, u, 1, {e})
    BY <2>1, <2>4 DEF Moves
  <2> QED BY <2>2, <2>5 DEF t, u
<1> QED BY <1>1, <1>2

\* What a queue has after it moved.
LEMMA HasMoved ==
  ASSUME NEW q, NEW u, NEW k, NEW new, Moves(q, u, k, new), NEW c
  PROVE  /\ Has(u, c) => Has(q, c) \/ \E e \in new : e.kind = c
         /\ Has(q, c) /\ (k = 1 => q[1].kind # c) => Has(u, c)
         /\ (\E e \in new : e.kind = c) => Has(u, c)
<1>1. Has(u, c) => Has(q, c) \/ \E e \in new : e.kind = c
  BY DEF Moves, Has
<1>2. ASSUME Has(q, c), k = 1 => q[1].kind # c PROVE Has(u, c)
  <2>1. PICK i \in DOMAIN q : q[i].kind = c
    BY <1>2 DEF Has
  <2>2. i > k
    BY <1>2, <2>1 DEF Moves
  <2> QED BY <2>1, <2>2 DEF Moves, Has
<1>3. (\E e \in new : e.kind = c) => Has(u, c)
  BY DEF Moves, Has
<1> QED BY <1>1, <1>2, <1>3

\* What is behind a place.
LEMMA LatestMoved ==
  ASSUME NEW q, NEW u, NEW k, NEW new, Moves(q, u, k, new), \A e \in new : e.kind # "loaded"
  PROVE  /\ \A i \in DOMAIN q : i > k /\ Latest(q, i) => Latest(u, i - k)
         /\ \A i \in DOMAIN u : i + k \in DOMAIN q /\ Latest(u, i) => Latest(q, i + k)
<1>1. ASSUME NEW i \in DOMAIN q, i > k, Latest(q, i) PROVE Latest(u, i - k)
  <2> SUFFICES ASSUME NEW j \in DOMAIN u, j > i - k PROVE u[j].kind # "loaded"
    BY DEF Latest
  <2>1. CASE j + k \in DOMAIN q /\ u[j] = q[j + k]
    <3>1. j + k > i
      BY DEF Moves
    <3> QED BY <1>1, <2>1, <3>1 DEF Latest
  <2>2. CASE u[j] \in new
    BY <2>2
  <2> QED BY <2>1, <2>2 DEF Moves
<1>2. ASSUME NEW i \in DOMAIN u, i + k \in DOMAIN q, Latest(u, i) PROVE Latest(q, i + k)
  <2> SUFFICES ASSUME NEW j \in DOMAIN q, j > i + k PROVE q[j].kind # "loaded"
    BY DEF Latest
  <2>1. j > k /\ j - k > i
    BY DEF Moves
  <2>2. j - k \in DOMAIN u /\ u[j - k] = q[j]
    BY <2>1 DEF Moves
  <2> QED BY <1>2, <2>1, <2>2 DEF Latest
<1> QED BY <1>1, <1>2

-----------------------------------------------------------------------------
(* What every step but a crash does: ks and kt elements are taken from the   *)
(* queues, those of ns and nt appended; and what keeps each part.            *)

Frame(ks, ns, kt, nt) ==
  /\ Moves(stage, stage', ks, ns) /\ Moves(tasks, tasks', kt, nt)
  /\ gone \subseteq gone' /\ crossed \subseteq crossed' /\ now <= now'
  /\ \A m \in Secrets : deadlines[m] # 0 => deadlines'[m] = deadlines[m] \/ m \in gone' \cup crossed'
  /\ kt = 1 /\ tasks[1].kind = "delete" => tasks[1].mids \subseteq gone'

\* The fields of a runnable, by its kind.
LEMMA StageFields ==
  ASSUME NEW s \in Timers!StageTask
  PROVE  /\ s.kind \in {"get", "added", "loaded", "reload"}
         /\ s.kind = "get" => s.old \subseteq Secrets
         /\ s.kind = "added" => s.min \in Timers!Dates
         /\ s.kind = "loaded" => s.date \in 0..MaxTime /\ s.mids \subseteq Secrets
  BY DEF Timers!StageTask

\* ... of the storage queue.
LEMMA StorageFields ==
  ASSUME NEW s \in StorageTask
  PROVE  /\ s.kind \in {"create", "getNewTask", "delete"}
         /\ s.kind = "create" => \E ms \in SUBSET Secrets : s.dates \in [ms -> Timers!Dates]
         /\ s.kind = "getNewTask" => s.old \subseteq Secrets
         /\ s.kind = "delete" => s.mids \subseteq Secrets
  BY DEF StorageTask

\* The rows that are asked for, when none more are and none are made.
LEMMA CreatesStay ==
  ASSUME CreatesRight, QueuesRight, NEW k, NEW new, Moves(tasks, tasks', k, new),
         asked \subseteq asked', \A e \in new : e.kind # "create",
         \A m \in Secrets : deadlines'[m] \in {deadlines[m], 0}
  PROVE  CreatesRight'
<1>1. (Timers!Timed \subseteq asked)'
  BY DEF CreatesRight, Timers!Timed
<1>2. ASSUME NEW i \in DOMAIN tasks', tasks'[i].kind = "create"
      PROVE  i + k \in DOMAIN tasks /\ tasks'[i] = tasks[i + k]
  BY <1>2 DEF Moves
<1>3. ASSUME NEW i \in DOMAIN tasks', tasks'[i].kind = "create"
      PROVE  /\ DOMAIN tasks'[i].dates \subseteq asked'
             /\ \A m \in DOMAIN tasks'[i].dates : deadlines'[m] = 0
             /\ \A j \in DOMAIN tasks' :
                  j # i /\ tasks'[j].kind = "create" => DOMAIN tasks'[i].dates \cap DOMAIN tasks'[j].dates = {}
  <2>1. i + k \in DOMAIN tasks /\ tasks'[i] = tasks[i + k]
    BY <1>2, <1>3
  <2>2. tasks[i + k] \in StorageTask
    BY <2>1 DEF QueuesRight
  <2>3. DOMAIN tasks'[i].dates \subseteq Secrets
    BY <1>3, <2>1, <2>2, StorageFields
  <2>4. \A m \in DOMAIN tasks'[i].dates : deadlines[m] = 0
    BY <1>3, <2>1 DEF CreatesRight
  <2>5. \A m \in DOMAIN tasks'[i].dates : deadlines'[m] = 0
    BY <2>3, <2>4
  <2>6. ASSUME NEW j \in DOMAIN tasks', j # i, tasks'[j].kind = "create"
        PROVE  DOMAIN tasks'[i].dates \cap DOMAIN tasks'[j].dates = {}
    <3>1. j + k \in DOMAIN tasks /\ tasks'[j] = tasks[j + k]
      BY <1>2, <2>6
    <3>2. i + k # j + k
      BY <2>6 DEF Moves
    <3> QED BY <1>3, <2>1, <2>6, <3>1, <3>2 DEF CreatesRight
  <2>7. DOMAIN tasks'[i].dates \subseteq asked'
    BY <1>3, <2>1 DEF CreatesRight
  <2> QED BY <2>5, <2>6, <2>7
<1> QED BY <1>1, <1>3 DEF CreatesRight

\* The dates in memory and in the answers, when those that come are right.
LEMMA WordsStay ==
  ASSUME WordsRight, QueuesRight, NEW ks, NEW ns, NEW kt, NEW nt, Frame(ks, ns, kt, nt),
         mids' \subseteq Secrets,
         time' # 0 => \A m \in mids' : deadlines[m] = time' \/ m \in gone' \cup crossed',
         \A e \in ns : e.kind = "loaded" =>
           (e.mids # {} <=> e.date # 0) /\ \A m \in e.mids : deadlines'[m] = e.date \/ m \in gone' \cup crossed'
  PROVE  WordsRight'
<1>1. ASSUME time' # 0, NEW m \in mids' PROVE deadlines'[m] = time' \/ m \in gone' \cup crossed'
  BY <1>1 DEF Frame
<1>2. ASSUME NEW i \in DOMAIN stage', stage'[i].kind = "loaded"
      PROVE  /\ (stage'[i].mids # {} <=> stage'[i].date # 0)
             /\ \A m \in stage'[i].mids : deadlines'[m] = stage'[i].date \/ m \in gone' \cup crossed'
  <2>1. CASE stage'[i] \in ns
    BY <1>2, <2>1
  <2>2. CASE i + ks \in DOMAIN stage /\ stage'[i] = stage[i + ks]
    <3>1. /\ (stage'[i].mids # {} <=> stage'[i].date # 0)
          /\ \A m \in stage'[i].mids : deadlines[m] = stage'[i].date \/ m \in Past
      BY <1>2, <2>2 DEF WordsRight
    <3>2. stage[i + ks] \in Timers!StageTask
      BY <2>2 DEF QueuesRight
    <3>3. stage'[i].mids \subseteq Secrets
      BY <1>2, <2>2, <3>2, StageFields
    <3>4. \A m \in stage'[i].mids : m \in Past => m \in gone' \cup crossed'
      BY DEF Frame, Past
    <3>5. \A m \in stage'[i].mids : deadlines[m] = stage'[i].date => deadlines'[m] = stage'[i].date \/ m \in gone' \cup crossed'
      BY <3>1, <3>3 DEF Frame
    <3> QED BY <3>1, <3>4, <3>5
  <2> QED BY <2>1, <2>2 DEF Frame, Moves
<1> QED BY <1>1, <1>2 DEF WordsRight, Past

\* The dates of the last answer, when there is no new one.
LEMMA LastStays ==
  ASSUME LastRight, WordsRight, QueuesRight, NEW k, NEW new, Moves(stage, stage', k, new),
         \A e \in new : e.kind # "loaded",
         \A m \in Secrets : deadlines[m] # 0 => deadlines'[m] = deadlines[m],
         mids' \subseteq Secrets,
         time' # 0 /\ (~Has(stage, "loaded"))' => \A m \in mids' : deadlines[m] = time'
  PROVE  LastRight'
<1>1. ASSUME time' # 0, (~Has(stage, "loaded"))', NEW m \in mids' PROVE deadlines'[m] = time'
  BY <1>1
<1>2. ASSUME NEW i \in DOMAIN stage', stage'[i].kind = "loaded", Latest(stage', i), NEW m \in stage'[i].mids
      PROVE  deadlines'[m] = stage'[i].date
  <2>1. i + k \in DOMAIN stage /\ stage'[i] = stage[i + k]
    BY <1>2 DEF Moves
  <2>2. Latest(stage, i + k)
    BY <1>2, <2>1, LatestMoved
  <2>3. deadlines[m] = stage'[i].date /\ stage'[i].date # 0
    BY <1>2, <2>1, <2>2 DEF LastRight, WordsRight
  <2>4. stage[i + k] \in Timers!StageTask
    BY <2>1 DEF QueuesRight
  <2>5. m \in Secrets
    BY <1>2, <2>1, <2>4, StageFields
  <2> QED BY <2>3, <2>5
<1>3. \A i \in DOMAIN stage' : stage'[i].kind = "loaded" /\ Latest(stage', i) =>
        \A m \in stage'[i].mids : deadlines'[m] = stage'[i].date
  BY <1>2
<1> QED BY <1>1, <1>3 DEF LastRight, Latest, Has

\* What may be deleted, and what was handed over, stay so.
LEMMA DoomStays ==
  ASSUME Timers!TypeOK, NEW ks, NEW ns, NEW kt, NEW nt, Frame(ks, ns, kt, nt), now' \in Nat
  PROVE  /\ \A m \in Secrets : Doomed(m) => Doomed(m)'
         /\ \A m : Handed(m) => Handed(m)'
<1>1. ASSUME NEW m \in Secrets, Doomed(m) PROVE Doomed(m)'
  <2>1. CASE m \in Past
    BY <2>1 DEF Frame, Past, Doomed
  <2>2. CASE deadlines[m] # 0 /\ deadlines[m] <= now
    <3>1. deadlines[m] \in Nat /\ now \in Nat /\ now <= now'
      BY DEF Timers!TypeOK, Timers!Dates, Frame
    <3>2. CASE deadlines'[m] = deadlines[m]
      BY <2>2, <3>1, <3>2 DEF Doomed
    <3>3. CASE m \in gone' \cup crossed'
      BY <3>3 DEF Doomed, Past
    <3> QED BY <2>2, <3>2, <3>3 DEF Frame
  <2> QED BY <1>1, <2>1, <2>2 DEF Doomed
<1>2. ASSUME NEW m, Handed(m) PROVE Handed(m)'
  <2>1. CASE m \in Past
    BY <2>1 DEF Frame, Past, Handed
  <2>2. ASSUME NEW j \in DOMAIN tasks, tasks[j].kind = "delete", m \in tasks[j].mids PROVE Handed(m)'
    <3>1. CASE j > kt
      BY <2>2, <3>1 DEF Frame, Moves, Handed
    <3>2. CASE ~(j > kt)
      <4>1. kt = 1 /\ j = 1
        BY <3>2 DEF Frame, Moves
      <4> QED BY <2>2, <4>1 DEF Frame, Handed, Past
    <3> QED BY <3>1, <3>2
  <2> QED BY <1>2, <2>1, <2>2 DEF Handed
<1> QED BY <1>1, <1>2

\* The deletions, when what is new in memory and in the queues is right.
LEMMA DeletionsStay ==
  ASSUME DeletionsRight, QueuesRight, Timers!TypeOK, now' \in Nat,
         NEW ks, NEW ns, NEW kt, NEW nt, Frame(ks, ns, kt, nt),
         (Timers!Deleting \/ time = 0)' => \A m \in mids' : Doomed(m)',
         Has(stage, "reload")' => \A m \in mids' : Handed(m)',
         \A e \in ns : e.kind = "get" => \A m \in e.old : Handed(m)',
         \A e \in nt : e.kind = "delete" => \A m \in e.mids : Doomed(m)',
         \A e \in nt : e.kind = "getNewTask" => kt = 0 /\ \A m \in e.old : Handed(m)
  PROVE  DeletionsRight'
<1>1. ASSUME NEW i \in DOMAIN stage', stage'[i].kind = "get", NEW m \in stage'[i].old PROVE Handed(m)'
  <2>1. CASE stage'[i] \in ns
    BY <1>1, <2>1
  <2>2. CASE i + ks \in DOMAIN stage /\ stage'[i] = stage[i + ks]
    <3>1. Handed(m)
      BY <1>1, <2>2 DEF DeletionsRight
    <3> QED BY <3>1, DoomStays
  <2> QED BY <2>1, <2>2 DEF Frame, Moves
<1>2. ASSUME NEW j \in DOMAIN tasks', tasks'[j].kind = "delete", NEW m \in tasks'[j].mids PROVE Doomed(m)'
  <2>1. CASE tasks'[j] \in nt
    BY <1>2, <2>1
  <2>2. CASE j + kt \in DOMAIN tasks /\ tasks'[j] = tasks[j + kt]
    <3>1. Doomed(m)
      BY <1>2, <2>2 DEF DeletionsRight
    <3>2. tasks[j + kt] \in StorageTask
      BY <2>2 DEF QueuesRight
    <3>3. m \in Secrets
      BY <1>2, <2>2, <3>2, StorageFields
    <3> QED BY <3>1, <3>3, DoomStays
  <2> QED BY <2>1, <2>2 DEF Frame, Moves
<1>3. ASSUME NEW j \in DOMAIN tasks', tasks'[j].kind = "getNewTask", NEW m \in tasks'[j].old
      PROVE  m \in gone' \cup crossed' \/ \E k \in DOMAIN tasks' : k < j /\ tasks'[k].kind = "delete" /\ m \in tasks'[k].mids
  <2>1. CASE tasks'[j] \in nt /\ \A i \in DOMAIN tasks' : i <= j
    <3>1. kt = 0 /\ Handed(m)
      BY <1>3, <2>1
    <3>2. CASE m \in Past
      BY <3>2 DEF Past, Frame
    <3>3. ASSUME NEW k \in DOMAIN tasks, tasks[k].kind = "delete", m \in tasks[k].mids
          PROVE  \E i \in DOMAIN tasks' : i < j /\ tasks'[i].kind = "delete" /\ m \in tasks'[i].mids
      <4>1. k \in DOMAIN tasks' /\ tasks'[k] = tasks[k]
        BY <3>1 DEF Frame, Moves
      <4>2. k # j
        BY <1>3, <3>3, <4>1
      <4>3. k <= j /\ k \in Nat /\ j \in Nat
        BY <2>1, <4>1 DEF Frame, Moves
      <4> QED BY <3>3, <4>1, <4>2, <4>3
    <3> QED BY <3>1, <3>2, <3>3 DEF Handed
  <2>2. CASE j + kt \in DOMAIN tasks /\ tasks'[j] = tasks[j + kt]
    <3>1. CASE m \in Past
      BY <3>1 DEF Past, Frame
    <3>2. ASSUME NEW k \in DOMAIN tasks, k < j + kt, tasks[k].kind = "delete", m \in tasks[k].mids
          PROVE  m \in gone' \/ \E i \in DOMAIN tasks' : i < j /\ tasks'[i].kind = "delete" /\ m \in tasks'[i].mids
      <4>1. CASE k > kt
        <5>1. k - kt \in DOMAIN tasks' /\ tasks'[k - kt] = tasks[k] /\ k - kt < j
          BY <3>2, <4>1 DEF Frame, Moves
        <5> QED BY <3>2, <5>1
      <4>2. CASE ~(k > kt)
        <5>1. kt = 1 /\ k = 1
          BY <4>2 DEF Frame, Moves
        <5> QED BY <3>2, <5>1 DEF Frame
      <4> QED BY <4>1, <4>2
    <3>3. m \in Past \/ \E k \in DOMAIN tasks : k < j + kt /\ tasks[k].kind = "delete" /\ m \in tasks[k].mids
      BY <1>3, <2>2 DEF DeletionsRight
    <3> QED BY <3>1, <3>2, <3>3
  <2> QED BY <2>1, <2>2 DEF Frame, Moves
<1> QED BY <1>1, <1>2, <1>3 DEF DeletionsRight, Past

\* Who waits is still watched for.
LEMMA WatchStays ==
  ASSUME QueuesRight, NEW ks, NEW ns, NEW kt, NEW nt, Frame(ks, ns, kt, nt),
         \A e \in ns : e.kind # "loaded",
         ks = 1 => stage[1].kind \in {"get", "reload"}
  PROVE  /\ ks = 0 /\ (kt = 1 => tasks[1].kind # "getNewTask") /\ deletions' = deletions /\ Coming => Coming'
         /\ \A m : deadlines'[m] = deadlines[m] /\ Told(m) => Told(m)'
         /\ \A m : deadlines'[m] = deadlines[m] /\ time' = time /\ Remembered(m) => Remembered(m)'
<1>1. Moves(stage, stage', ks, ns) /\ Moves(tasks, tasks', kt, nt)
  BY DEF Frame
<1>2. ASSUME ks = 0, kt = 1 => tasks[1].kind # "getNewTask", deletions' = deletions, Coming PROVE Coming'
  <2>1. /\ Has(stage, "get") => Has(stage', "get")
        /\ Has(stage, "reload") => Has(stage', "reload")
        /\ Has(tasks, "getNewTask") => Has(tasks', "getNewTask")
    BY <1>1, <1>2, HasMoved
  <2> QED BY <1>2, <2>1 DEF Coming, Has
<1>3. ASSUME NEW m, deadlines'[m] = deadlines[m], Told(m) PROVE Told(m)'
  <2>1. PICK i \in DOMAIN stage :
          /\ Latest(stage, i)
          /\ \/ stage[i].kind = "added" /\ stage[i].min <= deadlines[m]
             \/ stage[i].kind = "loaded" /\ stage[i].date # 0 /\ stage[i].date <= deadlines[m]
    BY <1>3 DEF Told
  <2>2. i > ks
    BY <1>1, <2>1 DEF Moves
  <2>3. i - ks \in DOMAIN stage' /\ stage'[i - ks] = stage[i] /\ Latest(stage', i - ks)
    BY <1>1, <2>1, <2>2, LatestMoved DEF Moves
  <2> QED BY <1>3, <2>1, <2>3 DEF Told, Latest
<1>4. ASSUME NEW m, deadlines'[m] = deadlines[m], time' = time, Remembered(m) PROVE Remembered(m)'
  <2>1. ~Has(stage', "loaded")
    BY <1>1, <1>4, HasMoved DEF Remembered
  <2> QED BY <1>4, <2>1 DEF Remembered, Has
<1> QED BY <1>2, <1>3, <1>4

-----------------------------------------------------------------------------
(* The steps. *)

\* The elements of a queue.
LEMMA Elements == ASSUME NEW S, NEW q \in Seq(S) PROVE \A i \in 1..Len(q) : q[i] \in S
  OBVIOUS

\* What TypeOK says of the queues.
LEMMA QueuesTyped ==
  ASSUME NEW q \in Seq(Timers!StageTask), NEW u \in Seq(StorageTask)
  PROVE  /\ \A i \in 1..Len(q) : q[i] \in Timers!StageTask
         /\ \A i \in 1..Len(u) : u[i].kind \in {"create", "getNewTask", "delete"}
  BY Elements, StorageFields

\* A deletion is under way.
LEMMA DeletingIs == QueuesRight => (Timers!Deleting <=> deletions > 0 \/ Has(stage, "reload"))
<1> SUFFICES ASSUME QueuesRight PROVE Timers!Deleting <=> deletions > 0 \/ Has(stage, "reload")
  OBVIOUS
<1>1. DOMAIN stage = 1..Len(stage)
  BY DEF QueuesRight
<1> QED BY <1>1 DEF Timers!Deleting, Has

\* The time of what is in memory has come: its deletion is posted.
LEMMA FiringKeeps ==
  ASSUME TimersInv, time' = 0, timer' = 0, deletions' = deletions + 1, \A m \in mids : Doomed(m),
         UNCHANGED <<mids, loading, first, stage, tasks, deadlines, gone, now, asked, crossed, crashes>>
  PROVE  TimersInv'
<1>0. Timers!TypeOK /\ QueuesRight /\ CreatesRight /\ WordsRight /\ LastRight /\ DeletionsRight /\ Watching
  BY DEF TimersInv
<1>a. now \in Nat /\ deletions \in Nat /\ mids \subseteq Secrets /\ MaxTime \in Nat
  BY <1>0 DEF TimersInv, Timers!BoundAssumption, Timers!TypeOK, Timers!Dates
<1>b. Moves(stage, stage', 0, {}) /\ Moves(tasks, tasks', 0, {}) /\ QueuesRight'
  BY <1>0, MovedBy DEF QueuesRight
<1>c. Frame(0, {}, 0, {})
  BY <1>a, <1>b DEF Frame
<1>1. Timers!TypeOK'
  BY <1>0, <1>a DEF Timers!TypeOK
<1>2. CreatesRight'
  BY <1>0, <1>b, CreatesStay
<1>3. WordsRight'
  BY <1>0, <1>a, <1>c, WordsStay
<1>4. LastRight'
  BY <1>0, <1>a, <1>b, LastStays
<1>5. DeletionsRight'
  <2>1. \A m \in mids' : Doomed(m)'
    BY DEF Doomed, Past
  <2>2. Has(stage, "reload")' => \A m \in mids' : Handed(m)'
    BY <1>0 DEF DeletionsRight, Has, Handed, Past
  <2> QED BY <1>0, <1>a, <1>c, <2>1, <2>2, DeletionsStay
<1>6. Watching'
  <2>1. Timers!Deleting' /\ Coming'
    BY <1>a DEF Timers!Deleting, Coming
  <2>2. loading' => Has(tasks', "getNewTask") \/ Has(stage', "loaded")
    BY <1>0 DEF Watching
  <2> QED BY <2>1, <2>2 DEF Watching, Has
<1> QED BY <1>b, <1>1, <1>2, <1>3, <1>4, <1>5, <1>6 DEF TimersInv

\* updateTimerProc's check.
LEMMA UpdateTimerKeeps == TimersInv /\ Timers!UpdateTimerProc => TimersInv'
<1> SUFFICES ASSUME TimersInv, Timers!UpdateTimerProc PROVE TimersInv'
  OBVIOUS
<1>1. /\ time # 0 /\ time <= now /\ time' = 0 /\ timer' = 0 /\ deletions' = deletions + 1
      /\ UNCHANGED <<mids, loading, first, stage, tasks, deadlines, gone, now, asked, crossed, crashes>>
  BY DEF Timers!UpdateTimerProc, Timers!IsDue, Timers!disk, Timers!past
<1>2. \A m \in mids : Doomed(m)
  BY <1>1 DEF TimersInv, WordsRight, Doomed
<1> QED BY <1>1, <1>2, FiringKeeps

\* The runnable of the messages in memory, or one that was left over.
LEMMA TimerFiresKeeps == TimersInv /\ Timers!TimerFires => TimersInv'
<1> SUFFICES ASSUME TimersInv, Timers!TimerFires PROVE TimersInv'
  OBVIOUS
<1>0. Timers!TypeOK /\ QueuesRight /\ CreatesRight /\ WordsRight /\ LastRight /\ DeletionsRight /\ Watching
  BY DEF TimersInv
<1>1. /\ timer # 0 /\ timer <= now /\ timer' = 0
      /\ UNCHANGED <<mids, loading, first, stage, tasks, deadlines, gone, now, asked, crossed, crashes>>
  BY DEF Timers!TimerFires, Timers!disk, Timers!past
<1>2. CASE mids # {}
  <2>1. time' = 0 /\ deletions' = deletions + 1
    BY <1>2 DEF Timers!TimerFires, Timers!IsDue, Timers!Nobody
  <2>2. \A m \in mids : Doomed(m)
    <3>1. CASE time = 0
      BY <1>0, <3>1 DEF DeletionsRight
    <3>2. CASE time # 0
      BY <1>0, <1>1, <3>2 DEF WordsRight, Doomed, Timers!TypeOK
    <3> QED BY <3>1, <3>2
  <2> QED BY <1>1, <2>1, <2>2, FiringKeeps
<1>3. CASE mids = {}
  <2>1. UNCHANGED <<time, deletions>>
    BY <1>3 DEF Timers!TimerFires, Timers!IsDue, Timers!Nobody
  <2>2. time = 0
    BY <1>0, <1>3 DEF Timers!TypeOK, Timers!Nobody
  <2>3. Timers!TypeOK'
    BY <1>0, <1>1, <2>1, <2>2 DEF Timers!TypeOK
  <2>4. QueuesRight' /\ CreatesRight'
    BY <1>0, <1>1 DEF QueuesRight, CreatesRight, Timers!Timed
  <2>5. WordsRight' /\ LastRight'
    BY <1>0, <1>1, <2>1 DEF WordsRight, LastRight, Past, Has, Latest
  <2>6. DeletionsRight'
    BY <1>0, <1>1, <2>1 DEF DeletionsRight, Timers!Deleting, Has, Doomed, Handed, Past
  <2>7. Watching'
    BY <1>0, <1>1, <2>1
       DEF Watching, Timers!Deleting, Has, Coming, Told, Remembered, Latest, Timers!Timed
  <2> QED BY <2>3, <2>4, <2>5, <2>6, <2>7 DEF TimersInv
<1> QED BY <1>2, <1>3

\* A load is asked for: by the first getDifference, ...
LEMMA GetDifferenceKeeps == TimersInv /\ Timers!GetDifference => TimersInv'
<1> SUFFICES ASSUME TimersInv, Timers!GetDifference PROVE TimersInv'
  OBVIOUS
<1>0. Timers!TypeOK /\ QueuesRight /\ CreatesRight /\ WordsRight /\ LastRight /\ DeletionsRight /\ Watching
  BY DEF TimersInv
<1> DEFINE e == [kind |-> "get", old |-> {}]
<1>1. /\ first' = TRUE /\ stage' = Append(stage, e)
      /\ UNCHANGED <<mids, time, loading, timer, tasks, deletions, deadlines, gone, now, asked, crossed, crashes>>
  BY DEF Timers!GetDifference, Timers!disk, Timers!past, Timers!Nobody
<1>2. e \in Timers!StageTask /\ e.kind = "get" /\ e.old = {}
  BY DEF Timers!StageTask
<1> HIDE DEF e
<1>a. now \in Nat /\ mids \subseteq Secrets
  BY <1>0 DEF Timers!TypeOK, Timers!Dates
<1>b. stage' \in Seq(Timers!StageTask) /\ Moves(stage, stage', 0, {e}) /\ Moves(tasks, tasks', 0, {})
  BY <1>0, <1>1, <1>2, MovedBy, MovedOn DEF QueuesRight
<1>c. Frame(0, {e}, 0, {}) /\ QueuesRight'
  BY <1>0, <1>1, <1>a, <1>b DEF Frame, QueuesRight
<1>d. /\ Has(stage', "reload") <=> Has(stage, "reload")
      /\ Has(stage', "loaded") <=> Has(stage, "loaded")
      /\ Has(stage', "get")
  BY <1>2, <1>b, HasMoved
<1>3. Timers!TypeOK'
  BY <1>0, <1>1, <1>c, QueuesTyped DEF Timers!TypeOK, QueuesRight
<1>4. CreatesRight'
  BY <1>0, <1>1, <1>b, CreatesStay
<1>5. WordsRight'
  BY <1>0, <1>1, <1>2, <1>a, <1>c, WordsStay DEF WordsRight, Past
<1>6. LastRight'
  BY <1>0, <1>1, <1>2, <1>a, <1>b, <1>d, LastStays DEF LastRight, Has
<1>7. DeletionsRight'
  <2>1. Timers!Deleting' <=> Timers!Deleting
    BY <1>0, <1>1, <1>c, <1>d, DeletingIs DEF Timers!Deleting, Has, QueuesRight
  <2>2. (Timers!Deleting \/ time = 0)' => \A m \in mids' : Doomed(m)'
    BY <1>0, <1>1, <2>1 DEF DeletionsRight, Doomed, Past
  <2>3. Has(stage, "reload")' => \A m \in mids' : Handed(m)'
    BY <1>0, <1>1, <1>d DEF DeletionsRight, Handed, Past, Has
  <2> QED BY <1>0, <1>1, <1>2, <1>a, <1>c, <2>2, <2>3, DeletionsStay
<1>8. Watching'
  <2>1. Timers!Deleting' <=> Timers!Deleting
    BY <1>0, <1>1, <1>c, <1>d, DeletingIs DEF Timers!Deleting, Has, QueuesRight
  <2>2. Coming'
    BY <1>d DEF Coming, Has
  <2> QED BY <1>0, <1>1, <1>d, <2>1, <2>2 DEF Watching, Has
<1> QED BY <1>c, <1>3, <1>4, <1>5, <1>6, <1>7, <1>8 DEF TimersInv

\* ... by the stage queue, which hands it to the storage queue, ...
LEMMA GetKeeps ==
  TimersInv /\ stage # <<>> /\ Timers!GetNewDeleteTask(Head(stage)) => TimersInv'
<1> SUFFICES ASSUME TimersInv, stage # <<>>, Timers!GetNewDeleteTask(Head(stage)) PROVE TimersInv'
  OBVIOUS
<1>0. Timers!TypeOK /\ QueuesRight /\ CreatesRight /\ WordsRight /\ LastRight /\ DeletionsRight /\ Watching
  BY DEF TimersInv
<1> DEFINE e == [kind |-> "getNewTask", old |-> Head(stage).old]
<1>1. /\ Head(stage).kind = "get" /\ loading' = TRUE
      /\ stage' = Tail(stage) /\ tasks' = Append(tasks, e)
      /\ UNCHANGED <<mids, time, first, timer, deletions, deadlines, gone, now, asked, crossed, crashes>>
  BY DEF Timers!GetNewDeleteTask, Timers!disk, Timers!past
<1>2. /\ stage' \in Seq(Timers!StageTask) /\ Moves(stage, stage', 1, {})
      /\ 1 \in DOMAIN stage /\ stage[1] \in Timers!StageTask /\ Head(stage) = stage[1]
  BY <1>0, <1>1, MovedBy DEF QueuesRight
<1>3. e \in StorageTask /\ e.kind = "getNewTask" /\ e.old = stage[1].old
  BY <1>1, <1>2, StageFields DEF StorageTask
<1> HIDE DEF e
<1>a. now \in Nat /\ mids \subseteq Secrets
  BY <1>0 DEF Timers!TypeOK, Timers!Dates
<1>b. tasks' \in Seq(StorageTask) /\ Moves(tasks, tasks', 0, {e})
  BY <1>0, <1>1, <1>3, MovedOn DEF QueuesRight
<1>c. Frame(1, {}, 0, {e}) /\ QueuesRight'
  BY <1>0, <1>1, <1>2, <1>a, <1>b DEF Frame, QueuesRight
<1>d. /\ Has(stage', "reload") <=> Has(stage, "reload")
      /\ Has(stage', "loaded") <=> Has(stage, "loaded")
      /\ Has(tasks', "getNewTask")
  BY <1>1, <1>2, <1>3, <1>b, HasMoved
<1>4. Timers!TypeOK'
  BY <1>0, <1>1, <1>c, QueuesTyped DEF Timers!TypeOK, QueuesRight
<1>5. CreatesRight'
  BY <1>0, <1>1, <1>3, <1>b, CreatesStay
<1>6. WordsRight'
  BY <1>0, <1>1, <1>a, <1>c, WordsStay DEF WordsRight, Past
<1>7. LastRight'
  <2>1. time' # 0 /\ (~Has(stage, "loaded"))' => \A m \in mids' : deadlines[m] = time'
    BY <1>0, <1>1, <1>d DEF LastRight, Has
  <2> QED BY <1>0, <1>1, <1>2, <1>a, <2>1, LastStays
<1>e. Timers!Deleting' <=> Timers!Deleting
  BY <1>0, <1>1, <1>c, <1>d, DeletingIs DEF Timers!Deleting, Has, QueuesRight
<1>8. DeletionsRight'
  <2>1. (Timers!Deleting \/ time = 0)' => \A m \in mids' : Doomed(m)'
    BY <1>0, <1>1, <1>e DEF DeletionsRight, Doomed, Past
  <2>2. \A m : Handed(m) => Handed(m)'
    BY <1>0, <1>1, <1>a, <1>c, DoomStays
  <2>3. Has(stage, "reload")' => \A m \in mids' : Handed(m)'
    BY <1>0, <1>1, <1>d, <2>2 DEF DeletionsRight, Has
  <2>4. \A m \in e.old : Handed(m)
    BY <1>0, <1>1, <1>2, <1>3 DEF DeletionsRight
  <2> QED BY <1>0, <1>1, <1>3, <1>a, <1>c, <2>1, <2>3, <2>4, DeletionsStay
<1>9. Watching'
  <2>1. Coming'
    BY <1>d DEF Coming, Has
  <2> QED BY <1>0, <1>1, <1>d, <1>e, <2>1 DEF Watching, Has
<1> QED BY <1>c, <1>4, <1>5, <1>6, <1>7, <1>8, <1>9 DEF TimersInv

\* ... and by the end of a deletion, with the messages whose rows are to go.
LEMMA ReloadKeeps == TimersInv /\ stage # <<>> /\ Timers!Reload(Head(stage)) => TimersInv'
<1> SUFFICES ASSUME TimersInv, stage # <<>>, Timers!Reload(Head(stage)) PROVE TimersInv'
  OBVIOUS
<1>0. Timers!TypeOK /\ QueuesRight /\ CreatesRight /\ WordsRight /\ LastRight /\ DeletionsRight /\ Watching
  BY DEF TimersInv
<1> DEFINE e == [kind |-> "get", old |-> mids]
<1>1. /\ Head(stage).kind = "reload" /\ time' = 0 /\ mids' = {}
      /\ stage' = Append(Tail(stage), e)
      /\ UNCHANGED <<loading, first, timer, tasks, deletions, deadlines, gone, now, asked, crossed, crashes>>
  BY DEF Timers!Reload, Timers!disk, Timers!past, Timers!Nobody
<1>a. now \in Nat /\ mids \subseteq Secrets /\ MaxTime \in Nat
  BY <1>0 DEF TimersInv, Timers!BoundAssumption, Timers!TypeOK, Timers!Dates
<1>2. e \in Timers!StageTask /\ e.kind = "get" /\ e.old = mids
  BY <1>a DEF Timers!StageTask
<1> HIDE DEF e
<1>3. /\ stage' \in Seq(Timers!StageTask) /\ Moves(stage, stage', 1, {e})
      /\ 1 \in DOMAIN stage /\ Head(stage) = stage[1] /\ Moves(tasks, tasks', 0, {})
  BY <1>0, <1>1, <1>2, MovedBy, MovedOn DEF QueuesRight
<1>c. Frame(1, {e}, 0, {}) /\ QueuesRight'
  BY <1>0, <1>1, <1>3, <1>a DEF Frame, QueuesRight
<1>d. /\ Has(stage', "loaded") <=> Has(stage, "loaded")
      /\ Has(stage', "get")
  BY <1>1, <1>2, <1>3, HasMoved
<1>4. Timers!TypeOK'
  BY <1>0, <1>1, <1>a, <1>c, QueuesTyped DEF Timers!TypeOK, QueuesRight
<1>5. CreatesRight'
  BY <1>0, <1>1, <1>3, CreatesStay
<1>6. WordsRight'
  BY <1>0, <1>1, <1>2, <1>c, WordsStay
<1>7. LastRight'
  BY <1>0, <1>1, <1>2, <1>3, LastStays
<1>8. DeletionsRight'
  <2>1. \A m : Handed(m) => Handed(m)'
    BY <1>0, <1>1, <1>a, <1>c, DoomStays
  <2>2. \A m \in e.old : Handed(m)
    BY <1>0, <1>1, <1>2, <1>3 DEF DeletionsRight, Has
  <2> QED BY <1>0, <1>1, <1>a, <1>c, <2>1, <2>2, DeletionsStay
<1>9. Watching'
  <2>1. Coming'
    BY <1>d DEF Coming, Has
  <2> QED BY <1>0, <1>1, <1>d, <2>1 DEF Watching, Has
<1> QED BY <1>c, <1>4, <1>5, <1>6, <1>7, <1>8, <1>9 DEF TimersInv

\* A new row may need a load: not if something earlier is in memory, or an answer
\* that knows of it is to come.
LEMMA AddedKeeps == TimersInv /\ stage # <<>> /\ Timers!DidAddedNewTask(Head(stage)) => TimersInv'
<1> SUFFICES ASSUME TimersInv, stage # <<>>, Timers!DidAddedNewTask(Head(stage)) PROVE TimersInv'
  OBVIOUS
<1>0. Timers!TypeOK /\ QueuesRight /\ CreatesRight /\ WordsRight /\ LastRight /\ DeletionsRight /\ Watching
  BY DEF TimersInv
<1> DEFINE e == [kind |-> "get", old |-> {}]
           s == Head(stage)
           ns == IF Timers!NeedsLoad(s.min) THEN {e} ELSE {}
<1>1. /\ s.kind = "added"
      /\ stage' = IF Timers!NeedsLoad(s.min) THEN Append(Tail(stage), e) ELSE Tail(stage)
      /\ UNCHANGED <<mids, time, loading, first, timer, tasks, deletions, deadlines, gone, now, asked, crossed, crashes>>
  BY DEF Timers!DidAddedNewTask, Timers!disk, Timers!past, Timers!memory, Timers!Nobody
<1>2. e \in Timers!StageTask /\ e.kind = "get" /\ e.old = {}
  BY DEF Timers!StageTask
<1> HIDE DEF e
<1>3. /\ stage' \in Seq(Timers!StageTask) /\ Moves(stage, stage', 1, ns)
      /\ 1 \in DOMAIN stage /\ s = stage[1] /\ s \in Timers!StageTask /\ Moves(tasks, tasks', 0, {})
  <2>1. /\ Tail(stage) \in Seq(Timers!StageTask) /\ Moves(stage, Tail(stage), 1, {})
        /\ 1 \in DOMAIN stage /\ s = stage[1] /\ s \in Timers!StageTask /\ Moves(tasks, tasks', 0, {})
    BY <1>0, <1>1, MovedBy DEF QueuesRight
  <2>2. Append(Tail(stage), e) \in Seq(Timers!StageTask) /\ Moves(stage, Append(Tail(stage), e), 1, {e})
    BY <1>0, <1>2, MovedOn DEF QueuesRight
  <2> HIDE DEF s
  <2> QED BY <1>1, <2>1, <2>2
<1>4. \A x \in ns : x = e
  OBVIOUS
<1>5. Timers!NeedsLoad(s.min) => e \in ns
  OBVIOUS
<1> HIDE DEF s, ns
<1>a. now \in Nat /\ mids \subseteq Secrets
  BY <1>0 DEF Timers!TypeOK, Timers!Dates
<1>c. Frame(1, ns, 0, {}) /\ QueuesRight'
  BY <1>0, <1>1, <1>3, <1>a DEF Frame, QueuesRight
<1>d. /\ Has(stage', "reload") <=> Has(stage, "reload")
      /\ Has(stage', "loaded") <=> Has(stage, "loaded")
      /\ Has(stage, "get") => Has(stage', "get")
      /\ Timers!NeedsLoad(s.min) => Has(stage', "get")
  BY <1>1, <1>2, <1>3, <1>4, <1>5, HasMoved
<1>6. Timers!TypeOK'
  BY <1>0, <1>1, <1>c, QueuesTyped DEF Timers!TypeOK, QueuesRight
<1>7. CreatesRight'
  BY <1>0, <1>1, <1>3, CreatesStay
<1>8. WordsRight'
  BY <1>0, <1>1, <1>2, <1>4, <1>a, <1>c, WordsStay DEF WordsRight, Past
<1>9. LastRight'
  <2>1. time' # 0 /\ (~Has(stage, "loaded"))' => \A m \in mids' : deadlines[m] = time'
    BY <1>0, <1>1, <1>d DEF LastRight, Has
  <2>2. \A x \in ns : x.kind # "loaded"
    BY <1>2, <1>4
  <2>3. \A m \in Secrets : deadlines[m] # 0 => deadlines'[m] = deadlines[m]
    BY <1>1
  <2>4. mids' \subseteq Secrets
    BY <1>1, <1>a
  <2> QED BY <1>0, <1>3, <2>1, <2>2, <2>3, <2>4, LastStays
<1>e. Timers!Deleting' <=> Timers!Deleting
  <2>1. DOMAIN stage = 1..Len(stage) /\ DOMAIN stage' = 1..Len(stage')
    BY <1>0, <1>3 DEF QueuesRight
  <2>2. (Timers!Deleting' <=> deletions' > 0 \/ Has(stage', "reload"))
    BY <2>1 DEF Timers!Deleting, Has
  <2>3. (Timers!Deleting <=> deletions > 0 \/ Has(stage, "reload"))
    BY <1>0, DeletingIs
  <2> QED BY <1>1, <1>d, <2>2, <2>3
<1>10. DeletionsRight'
  <2>1. (Timers!Deleting \/ time = 0)' => \A m \in mids' : Doomed(m)'
    BY <1>0, <1>1, <1>e DEF DeletionsRight, Doomed, Past
  <2>2. Has(stage, "reload")' => \A m \in mids' : Handed(m)'
    BY <1>0, <1>1, <1>d DEF DeletionsRight, Has, Handed, Past
  <2> QED BY <1>0, <1>1, <1>2, <1>4, <1>a, <1>c, <2>1, <2>2, DeletionsStay
<1>11. Watching'
  <2>1. ASSUME Coming PROVE Coming'
    BY <1>1, <1>d, <2>1 DEF Coming, Has
  <2>2. ASSUME NEW m \in Timers!Timed, Told(m) PROVE Coming' \/ Told(m)' \/ Remembered(m)'
    <3>1. PICK i \in DOMAIN stage :
            /\ Latest(stage, i)
            /\ \/ stage[i].kind = "added" /\ stage[i].min <= deadlines[m]
               \/ stage[i].kind = "loaded" /\ stage[i].date # 0 /\ stage[i].date <= deadlines[m]
      BY <2>2 DEF Told
    <3>2. CASE i > 1
      <4>1. i - 1 \in DOMAIN stage' /\ stage'[i - 1] = stage[i] /\ Latest(stage', i - 1)
        <5>1. \A x \in ns : x.kind # "loaded"
          BY <1>2, <1>4
        <5>2. Latest(stage', i - 1)
          BY <1>3, <3>1, <3>2, <5>1, LatestMoved
        <5>3. i - 1 \in DOMAIN stage' /\ stage'[i - 1] = stage[i]
          BY <1>3, <3>2 DEF Moves
        <5> QED BY <5>2, <5>3
      <4> QED BY <1>1, <3>1, <4>1 DEF Told, Latest
    <3>3. CASE ~(i > 1)
      <4>1. i = 1
        BY <1>3, <3>1, <3>3 DEF Moves
      <4>2. s.min <= deadlines[m] /\ ~Has(stage, "loaded") /\ s.min \in Nat /\ deadlines[m] \in Nat /\ time \in Nat
        <5>1. ~Has(stage, "loaded")
          BY <1>1, <1>3, <3>1, <4>1 DEF Has, Latest, Moves
        <5>2. s.min \in Nat /\ deadlines[m] \in Nat /\ time \in Nat
          BY <1>0, <1>1, <1>3, <2>2, StageFields DEF Timers!TypeOK, Timers!Dates, Timers!Timed
        <5> QED BY <1>1, <1>3, <3>1, <4>1, <5>1, <5>2
      <4>3. CASE Timers!NeedsLoad(s.min)
        BY <1>d, <4>3 DEF Coming, Has
      <4>4. CASE mids = {} /\ loading
        <5>1. Has(tasks, "getNewTask")
          BY <1>0, <4>2, <4>4 DEF Watching
        <5> QED BY <1>1, <5>1 DEF Coming, Has
      <4>5. CASE mids # {} /\ time = 0
        <5>1. deletions > 0 \/ Has(stage', "reload")
          BY <1>0, <1>d, <4>5, DeletingIs DEF Watching
        <5> QED BY <1>1, <5>1 DEF Coming, Has
      <4>6. CASE mids # {} /\ time # 0 /\ ~Timers!NeedsLoad(s.min)
        <5>1. time <= s.min
          BY <4>2, <4>6 DEF Timers!NeedsLoad
        <5>2. time # 0 /\ time <= deadlines[m] /\ ~Has(stage', "loaded")
          BY <1>d, <4>2, <4>6, <5>1
        <5> QED BY <1>1, <5>2 DEF Remembered, Has
      <4>7. mids = {} => loading \/ Timers!NeedsLoad(s.min)
        BY DEF Timers!NeedsLoad, Timers!Nobody
      <4> QED BY <4>3, <4>4, <4>5, <4>6, <4>7
    <3> QED BY <3>2, <3>3
  <2>3. ASSUME NEW m, Remembered(m) PROVE Remembered(m)'
    BY <1>1, <1>d, <2>3 DEF Remembered, Has
  <2>4. \A m \in Timers!Timed' : m \in Timers!Timed
    BY <1>1 DEF Timers!Timed
  <2>5. (mids # {} /\ time = 0)' => Timers!Deleting'
    BY <1>0, <1>1, <1>e DEF Watching
  <2>6. loading' => Has(tasks, "getNewTask")' \/ Has(stage, "loaded")'
    BY <1>0, <1>1, <1>d DEF Watching, Has
  <2>7. first' => \A m \in Timers!Timed' : Coming' \/ Told(m)' \/ Remembered(m)'
    BY <1>0, <1>1, <2>1, <2>2, <2>3, <2>4 DEF Watching
  <2> QED BY <2>5, <2>6, <2>7 DEF Watching
<1> QED BY <1>c, <1>6, <1>7, <1>8, <1>9, <1>10, <1>11 DEF TimersInv

\* The answer to a load replaces what is in memory.
LEMMA LoadedKeeps ==
  TimersInv /\ stage # <<>> /\ Timers!ProcessLoadedDeleteTask(Head(stage)) => TimersInv'
<1> SUFFICES ASSUME TimersInv, stage # <<>>, Timers!ProcessLoadedDeleteTask(Head(stage)) PROVE TimersInv'
  OBVIOUS
<1>0. Timers!TypeOK /\ QueuesRight /\ CreatesRight /\ WordsRight /\ LastRight /\ DeletionsRight /\ Watching
  BY DEF TimersInv
<1> DEFINE s == Head(stage)
           Due == s.mids # {} /\ s.date # 0 /\ s.date <= now
<1>1. /\ s.kind = "loaded" /\ loading' = FALSE /\ mids' = s.mids /\ stage' = Tail(stage)
      /\ crossed' = IF Timers!Deleting THEN crossed \cup s.mids ELSE crossed
      /\ UNCHANGED <<first, tasks, deadlines, gone, now, asked, crashes>>
  BY DEF Timers!ProcessLoadedDeleteTask, Timers!disk
<1>2. /\ s.mids = {} => time' = 0 /\ timer' = timer /\ deletions' = deletions
      /\ Due => time' = 0 /\ timer' = 0 /\ deletions' = deletions + 1
      /\ s.mids # {} /\ ~Due => time' = s.date /\ timer' = s.date /\ deletions' = deletions
  BY DEF Timers!ProcessLoadedDeleteTask, Timers!IsDue, Timers!Nobody
<1>3. /\ stage' \in Seq(Timers!StageTask) /\ Moves(stage, stage', 1, {})
      /\ 1 \in DOMAIN stage /\ s = stage[1] /\ s \in Timers!StageTask /\ Moves(tasks, tasks', 0, {})
  BY <1>0, <1>1, MovedBy DEF QueuesRight
<1>4. s.date \in 0..MaxTime /\ s.mids \subseteq Secrets
  BY <1>1, <1>3, StageFields
<1>5. (s.mids # {} <=> s.date # 0) /\ \A m \in s.mids : deadlines[m] = s.date \/ m \in Past
  BY <1>0, <1>1, <1>3 DEF WordsRight
<1> HIDE DEF s
<1>a. /\ now \in Nat /\ deletions \in Nat /\ mids \subseteq Secrets /\ MaxTime \in Nat
      /\ timer \in 0..MaxTime /\ crossed \subseteq Secrets
  BY <1>0 DEF TimersInv, Timers!BoundAssumption, Timers!TypeOK, Timers!Dates
<1>b. deletions' \in Nat /\ deletions <= deletions' /\ mids' \subseteq Secrets /\ now' \in Nat
  BY <1>1, <1>2, <1>4, <1>a
<1>c. Frame(1, {}, 0, {}) /\ QueuesRight'
  BY <1>0, <1>1, <1>3, <1>a DEF Frame, QueuesRight
<1>d. /\ Has(stage', "reload") <=> Has(stage, "reload")
      /\ Has(stage, "get") => Has(stage', "get")
  BY <1>1, <1>3, HasMoved
<1>e. (~Has(stage', "loaded")) => Latest(stage, 1)
  <2> SUFFICES ASSUME ~Has(stage', "loaded"), NEW j \in DOMAIN stage, j > 1 PROVE stage[j].kind # "loaded"
    BY DEF Latest
  <2> QED BY <1>3 DEF Moves, Has
<1>f. time' # 0 => time' = s.date /\ timer' = s.date /\ s.mids # {}
  BY <1>2, <1>5
<1>6. Timers!TypeOK'
  <2>1. crossed' \subseteq Secrets /\ time' \in 0..MaxTime /\ timer' \in 0..MaxTime
    BY <1>1, <1>2, <1>4, <1>a
  <2>2. time' # 0 => mids' # {} /\ timer' = time'
    BY <1>1, <1>f
  <2> QED BY <1>0, <1>1, <1>b, <1>c, <2>1, <2>2, QueuesTyped DEF Timers!TypeOK, Timers!Nobody, QueuesRight
<1>7. CreatesRight'
  BY <1>0, <1>1, <1>3, CreatesStay
<1>8. WordsRight'
  <2>1. time' # 0 => \A m \in mids' : deadlines[m] = time' \/ m \in gone' \cup crossed'
    BY <1>1, <1>5, <1>f DEF Past
  <2> QED BY <1>0, <1>b, <1>c, <2>1, WordsStay
<1>9. LastRight'
  <2>1. time' # 0 /\ (~Has(stage, "loaded"))' => \A m \in mids' : deadlines[m] = time'
    BY <1>0, <1>1, <1>3, <1>e, <1>f DEF LastRight, Has
  <2> QED BY <1>0, <1>1, <1>3, <1>b, <2>1, LastStays
<1>10. DeletionsRight'
  <2>1. ASSUME Timers!Deleting, NEW m \in mids' PROVE Doomed(m)' /\ Handed(m)'
    BY <1>1, <2>1 DEF Doomed, Handed, Past
  <2>2. ASSUME Timers!Deleting' \/ time' = 0, ~Timers!Deleting, NEW m \in mids' PROVE Doomed(m)'
    <3>1. deletions = 0 /\ ~Has(stage', "reload")
      BY <1>0, <1>a, <1>d, <2>2, DeletingIs
    <3>2. DOMAIN stage' = 1..Len(stage')
      BY <1>3
    <3>3. Timers!Deleting' => deletions' > 0
      BY <3>1, <3>2 DEF Timers!Deleting, Has
    <3>4. Due
      BY <1>1, <1>2, <1>5, <2>2, <3>1, <3>3
    <3> QED BY <1>1, <1>5, <3>4 DEF Doomed, Past
  <2>3. (Timers!Deleting \/ time = 0)' => \A m \in mids' : Doomed(m)'
    BY <2>1, <2>2
  <2>4. Has(stage, "reload") => Timers!Deleting
    BY <1>0, DeletingIs
  <2>5. Has(stage, "reload")' => Timers!Deleting
    BY <1>d, <2>4 DEF Has
  <2>6. Has(stage, "reload")' => \A m \in mids' : Handed(m)'
    BY <2>1, <2>5
  <2> QED BY <1>0, <1>b, <1>c, <2>3, <2>6, DeletionsStay
<1>11. Watching'
  <2>1. ASSUME Coming PROVE Coming'
    BY <1>1, <1>a, <1>b, <1>d, <2>1 DEF Coming, Has
  <2>2. ASSUME NEW m \in Timers!Timed, Told(m) PROVE Coming' \/ Told(m)' \/ Remembered(m)'
    <3>1. PICK i \in DOMAIN stage :
            /\ Latest(stage, i)
            /\ \/ stage[i].kind = "added" /\ stage[i].min <= deadlines[m]
               \/ stage[i].kind = "loaded" /\ stage[i].date # 0 /\ stage[i].date <= deadlines[m]
      BY <2>2 DEF Told
    <3>2. CASE i > 1
      <4>1. Latest(stage', i - 1)
        BY <1>3, <3>1, <3>2, LatestMoved
      <4>2. i - 1 \in DOMAIN stage' /\ stage'[i - 1] = stage[i]
        BY <1>3, <3>2 DEF Moves
      <4> QED BY <1>1, <3>1, <4>1, <4>2 DEF Told, Latest
    <3>3. CASE ~(i > 1)
      <4>1. i = 1
        BY <1>3, <3>1, <3>3 DEF Moves
      <4>2. s.date # 0 /\ s.date <= deadlines[m]
        BY <1>1, <1>3, <3>1, <4>1
      <4>3. ~Has(stage', "loaded")
        <5> SUFFICES ASSUME NEW j \in DOMAIN stage' PROVE stage'[j].kind # "loaded"
          BY DEF Has
        <5>1. j + 1 \in DOMAIN stage /\ stage'[j] = stage[j + 1] /\ j + 1 > 1
          BY <1>3 DEF Moves
        <5> QED BY <3>1, <4>1, <5>1 DEF Latest
      <4>4. CASE Due
        BY <1>2, <1>a, <4>4 DEF Coming
      <4>5. CASE ~Due
        <5>1. time' = s.date
          BY <1>2, <1>5, <4>2, <4>5
        <5> QED BY <1>1, <4>2, <4>3, <5>1 DEF Remembered, Has
      <4> QED BY <4>4, <4>5
    <3> QED BY <3>2, <3>3
  <2>3. ASSUME NEW m, Remembered(m) PROVE FALSE
    BY <1>1, <1>3, <2>3 DEF Remembered, Has
  <2>4. \A m \in Timers!Timed' : m \in Timers!Timed
    BY <1>1 DEF Timers!Timed
  <2>5. (mids # {} /\ time = 0)' => Timers!Deleting'
    BY <1>1, <1>2, <1>5, <1>a DEF Timers!Deleting
  <2>6. first' => \A m \in Timers!Timed' : Coming' \/ Told(m)' \/ Remembered(m)'
    BY <1>0, <1>1, <2>1, <2>2, <2>3, <2>4 DEF Watching
  <2> QED BY <1>1, <2>5, <2>6 DEF Watching
<1> QED BY <1>c, <1>6, <1>7, <1>8, <1>9, <1>10, <1>11 DEF TimersInv

\* The steps of the other threads leave the memory of the stage queue alone, and take
\* nothing from it: the answers, ...
LEMMA AnswersStay ==
  ASSUME TimersInv, NEW ns, NEW kt, NEW nt, Frame(0, ns, kt, nt), UNCHANGED <<mids, time>>,
         \A e \in ns : e.kind # "loaded", \A m \in Secrets : deadlines[m] # 0 => deadlines'[m] = deadlines[m]
  PROVE  WordsRight' /\ LastRight'
<1>0. Timers!TypeOK /\ QueuesRight /\ WordsRight /\ LastRight
  BY DEF TimersInv
<1>1. mids' \subseteq Secrets
  BY <1>0 DEF Timers!TypeOK
<1>2. WordsRight'
  <2>1. time' # 0 => \A m \in mids' : deadlines[m] = time' \/ m \in gone' \cup crossed'
    BY <1>0 DEF WordsRight, Frame, Past
  <2> QED BY <1>0, <1>1, <2>1, WordsStay
<1>3. LastRight'
  <2>1. Moves(stage, stage', 0, ns)
    BY DEF Frame
  <2>2. Has(stage, "loaded") => Has(stage', "loaded")
    BY <2>1, HasMoved
  <2>3. time' # 0 /\ (~Has(stage, "loaded"))' => \A m \in mids' : deadlines[m] = time'
    BY <1>0, <2>2 DEF LastRight, Has
  <2> QED BY <1>0, <1>1, <2>1, <2>3, LastStays
<1> QED BY <1>2, <1>3

\* ... and the deletions that are under way.
LEMMA DeletionsGoOn ==
  ASSUME TimersInv, NEW ns, NEW kt, NEW nt, Frame(0, ns, kt, nt), UNCHANGED <<mids, time, deletions>>,
         QueuesRight', now' \in Nat, \A e \in ns : e.kind \notin {"get", "reload"},
         \A e \in nt : e.kind \notin {"delete", "getNewTask"}
  PROVE  DeletionsRight' /\ (Timers!Deleting' <=> Timers!Deleting)
<1>0. Timers!TypeOK /\ QueuesRight /\ DeletionsRight
  BY DEF TimersInv
<1>1. Moves(stage, stage', 0, ns) /\ mids \subseteq Secrets
  BY <1>0 DEF Frame, Timers!TypeOK
<1>2. Has(stage', "reload") <=> Has(stage, "reload")
  BY <1>1, HasMoved
<1>3. DOMAIN stage' = 1..Len(stage')
  BY DEF QueuesRight
<1>4. Timers!Deleting' <=> Timers!Deleting
  <2>1. Timers!Deleting' <=> deletions' > 0 \/ Has(stage', "reload")
    BY <1>3 DEF Timers!Deleting, Has
  <2> QED BY <1>0, <1>2, <2>1, DeletingIs
<1>5. (\A m \in Secrets : Doomed(m) => Doomed(m)') /\ \A m : Handed(m) => Handed(m)'
  BY <1>0, DoomStays
<1>6. (Timers!Deleting \/ time = 0)' => \A m \in mids' : Doomed(m)'
  BY <1>0, <1>1, <1>4, <1>5 DEF DeletionsRight
<1>7. Has(stage, "reload")' => \A m \in mids' : Handed(m)'
  BY <1>0, <1>2, <1>5 DEF DeletionsRight, Has
<1>8. DeletionsRight'
  BY <1>0, <1>6, <1>7, DeletionsStay
<1> QED BY <1>4, <1>8

\* What is in memory goes to the storage thread, and the reload to the stage queue.
LEMMA UiKeeps == TimersInv /\ Timers!UiDeletes => TimersInv'
<1> SUFFICES ASSUME TimersInv, Timers!UiDeletes PROVE TimersInv'
  OBVIOUS
<1>0. Timers!TypeOK /\ QueuesRight /\ CreatesRight /\ WordsRight /\ LastRight /\ DeletionsRight /\ Watching
  BY DEF TimersInv
<1> DEFINE r == [kind |-> "reload"]
           d == [kind |-> "delete", mids |-> mids]
           nt == IF mids = {} THEN {} ELSE {d}
<1>1. /\ deletions > 0 /\ deletions' = deletions - 1 /\ stage' = Append(stage, r)
      /\ tasks' = IF mids = {} THEN tasks ELSE Append(tasks, d)
      /\ UNCHANGED <<mids, time, loading, first, timer, deadlines, gone, now, asked, crossed, crashes>>
  BY DEF Timers!UiDeletes, Timers!memory, Timers!disk, Timers!past, Timers!Nobody
<1>a. now \in Nat /\ deletions \in Nat /\ mids \subseteq Secrets
  BY <1>0 DEF Timers!TypeOK, Timers!Dates
<1>2. r \in Timers!StageTask /\ r.kind = "reload"
  BY DEF Timers!StageTask
<1>3. d \in StorageTask /\ d.kind = "delete" /\ d.mids = mids
  BY <1>a DEF StorageTask
<1>4. (\A e \in nt : e = d) /\ (mids # {} => d \in nt)
  OBVIOUS
<1> HIDE DEF r, d
<1>5. tasks' \in Seq(StorageTask) /\ Moves(tasks, tasks', 0, nt)
  <2>1. Moves(tasks, tasks, 0, {}) /\ Append(tasks, d) \in Seq(StorageTask) /\ Moves(tasks, Append(tasks, d), 0, {d})
    BY <1>0, <1>3, MovedBy, MovedOn DEF QueuesRight
  <2> QED BY <1>0, <1>1, <2>1 DEF QueuesRight
<1> HIDE DEF nt
<1>6. stage' \in Seq(Timers!StageTask) /\ Moves(stage, stage', 0, {r})
  BY <1>0, <1>1, <1>2, MovedOn DEF QueuesRight
<1>c. Frame(0, {r}, 0, nt) /\ QueuesRight'
  BY <1>0, <1>1, <1>5, <1>6, <1>a DEF Frame, QueuesRight
<1>d. /\ Has(stage', "reload")
      /\ Has(stage, "loaded") => Has(stage', "loaded")
      /\ Has(tasks, "getNewTask") => Has(tasks', "getNewTask")
  BY <1>2, <1>5, <1>6, HasMoved
<1>7. Timers!TypeOK'
  <2>1. deletions' \in Nat
    BY <1>1, <1>a
  <2>2. /\ \A i \in 1..Len(stage') : stage'[i] \in Timers!StageTask
        /\ \A i \in 1..Len(tasks') : tasks'[i].kind \in {"create", "getNewTask", "delete"}
    BY <1>c, QueuesTyped DEF QueuesRight
  <2> QED BY <1>0, <1>1, <2>1, <2>2 DEF Timers!TypeOK
<1>8. CreatesRight'
  <2>1. \A e \in nt : e.kind # "create"
    BY <1>3, <1>4
  <2> QED BY <1>0, <1>1, <1>5, <2>1, CreatesStay
<1>9. WordsRight' /\ LastRight'
  BY <1>1, <1>2, <1>c, AnswersStay
<1>10. \A m \in mids : Doomed(m)
  BY <1>0, <1>1 DEF DeletionsRight, Timers!Deleting
<1>11. DeletionsRight'
  <2>1. (Timers!Deleting \/ time = 0)' => \A m \in mids' : Doomed(m)'
    BY <1>1, <1>10 DEF Doomed, Past
  <2>2. ASSUME NEW m \in mids' PROVE Handed(m)'
    <3>1. d \in nt
      BY <1>1, <1>4, <2>2
    <3>2. PICK j \in DOMAIN tasks' : tasks'[j] = d
      BY <1>5, <3>1 DEF Moves
    <3> QED BY <1>1, <1>3, <3>2, <2>2 DEF Handed
  <2>3. \A e \in nt : e.kind = "delete" => \A m \in e.mids : Doomed(m)'
    BY <1>1, <1>3, <1>4, <1>10 DEF Doomed, Past
  <2>4. \A e \in nt : e.kind # "getNewTask"
    BY <1>3, <1>4
  <2>5. now' \in Nat
    BY <1>1, <1>a
  <2> QED BY <1>0, <1>2, <1>c, <2>1, <2>2, <2>3, <2>4, <2>5, DeletionsStay
<1>12. Watching'
  <2>1. Coming'
    BY <1>d DEF Coming, Has
  <2>2. Timers!Deleting'
    BY <1>c, <1>d DEF Timers!Deleting, Has, QueuesRight
  <2> QED BY <1>0, <1>1, <1>d, <2>1, <2>2 DEF Watching, Has
<1> QED BY <1>c, <1>7, <1>8, <1>9, <1>11, <1>12 DEF TimersInv

\* Messages are read: their rows are asked for.
LEMMA CreateKeeps ==
  ASSUME TimersInv, NEW ms \in SUBSET Secrets, NEW dates \in [ms -> Timers!Dates], Timers!CreateTask(dates)
  PROVE  TimersInv'
<1>0. Timers!TypeOK /\ QueuesRight /\ CreatesRight /\ WordsRight /\ LastRight /\ DeletionsRight /\ Watching
  BY DEF TimersInv
<1> DEFINE e == [kind |-> "create", dates |-> dates]
<1>1. /\ ms \cap asked = {} /\ asked' = asked \cup ms /\ tasks' = Append(tasks, e)
      /\ UNCHANGED <<mids, time, loading, first, timer, stage, deletions, deadlines, gone, now, crossed, crashes>>
  BY DEF Timers!CreateTask, Timers!memory, Timers!disk
<1>2. e \in StorageTask /\ e.kind = "create" /\ e.dates = dates /\ DOMAIN e.dates = ms
  BY DEF StorageTask
<1> HIDE DEF e
<1>a. now \in Nat /\ mids \subseteq Secrets /\ asked \subseteq Secrets
  BY <1>0 DEF Timers!TypeOK, Timers!Dates
<1>3. /\ tasks' \in Seq(StorageTask) /\ Moves(tasks, tasks', 0, {e}) /\ Moves(stage, stage', 0, {})
      /\ Len(tasks) \in Nat /\ DOMAIN tasks = 1..Len(tasks) /\ DOMAIN tasks' = 1..(Len(tasks) + 1)
      /\ (\A i \in 1..Len(tasks) : tasks'[i] = tasks[i]) /\ tasks'[Len(tasks) + 1] = e
  BY <1>0, <1>1, <1>2, MovedBy, MovedOn, Appended DEF QueuesRight
<1>c. Frame(0, {}, 0, {e}) /\ QueuesRight'
  BY <1>0, <1>1, <1>3, <1>a DEF Frame, QueuesRight
<1>4. Timers!TypeOK'
  BY <1>0, <1>1, <1>a, <1>c, QueuesTyped DEF Timers!TypeOK, QueuesRight
<1>5. CreatesRight'
  <2>1. (Timers!Timed \subseteq asked)'
    BY <1>0, <1>1 DEF CreatesRight, Timers!Timed
  <2>2. \A i \in 1..Len(tasks) : tasks[i].kind = "create" =>
          /\ DOMAIN tasks[i].dates \subseteq asked
          /\ \A m \in DOMAIN tasks[i].dates : deadlines[m] = 0
          /\ \A j \in 1..Len(tasks) :
               j # i /\ tasks[j].kind = "create" => DOMAIN tasks[i].dates \cap DOMAIN tasks[j].dates = {}
    BY <1>0, <1>3 DEF CreatesRight
  <2>3. \A m \in ms : deadlines[m] = 0
    BY <1>0, <1>1 DEF CreatesRight, Timers!Timed
  <2>4. ASSUME NEW i \in DOMAIN tasks', tasks'[i].kind = "create"
        PROVE  /\ DOMAIN tasks'[i].dates \subseteq asked'
               /\ \A m \in DOMAIN tasks'[i].dates : deadlines'[m] = 0
               /\ \A j \in DOMAIN tasks' :
                    j # i /\ tasks'[j].kind = "create" => DOMAIN tasks'[i].dates \cap DOMAIN tasks'[j].dates = {}
    <3>1. CASE i \in 1..Len(tasks)
      <4>1. ASSUME NEW j \in DOMAIN tasks', j # i, tasks'[j].kind = "create"
            PROVE  DOMAIN tasks'[i].dates \cap DOMAIN tasks'[j].dates = {}
        <5>1. CASE j \in 1..Len(tasks)
          BY <1>3, <2>2, <2>4, <3>1, <4>1, <5>1
        <5>2. CASE j = Len(tasks) + 1
          BY <1>1, <1>2, <1>3, <2>2, <2>4, <3>1, <5>2
        <5> QED BY <1>3, <5>1, <5>2
      <4> QED BY <1>1, <1>3, <2>2, <2>4, <3>1, <4>1
    <3>2. CASE i = Len(tasks) + 1
      <4>1. ASSUME NEW j \in DOMAIN tasks', j # i, tasks'[j].kind = "create"
            PROVE  DOMAIN tasks'[i].dates \cap DOMAIN tasks'[j].dates = {}
        <5>1. j \in 1..Len(tasks)
          BY <1>3, <3>2, <4>1
        <5> QED BY <1>1, <1>2, <1>3, <2>2, <3>2, <4>1, <5>1
      <4> QED BY <1>1, <1>2, <1>3, <2>3, <3>2, <4>1
    <3> QED BY <1>3, <3>1, <3>2
  <2> QED BY <2>1, <2>4 DEF CreatesRight
<1>6. WordsRight' /\ LastRight'
  BY <1>1, <1>c, AnswersStay
<1>7. DeletionsRight' /\ (Timers!Deleting' <=> Timers!Deleting)
  BY <1>1, <1>2, <1>a, <1>c, DeletionsGoOn
<1>8. Watching'
  <2>1. Has(tasks, "getNewTask") => Has(tasks', "getNewTask")
    BY <1>3, HasMoved
  <2> QED BY <1>0, <1>1, <1>7, <2>1 DEF Watching, Has, Coming, Told, Remembered, Latest, Timers!Timed
<1> QED BY <1>c, <1>4, <1>5, <1>6, <1>7, <1>8 DEF TimersInv

\* The least of the dates of some messages.
LEMMA LeastIsMin ==
  ASSUME NEW T \in SUBSET Nat, T # {}
  PROVE  Timers!Min(T) \in T /\ \A n \in T : Timers!Min(T) <= n
  BY LeastOfSome DEF Timers!Min

\* The rows are made, of the messages that are still there, and the stage queue told.
LEMMA CreateRunsKeeps ==
  ASSUME TimersInv, tasks # <<>>, tasks' = Tail(tasks), Timers!CreateRuns(Head(tasks)),
         UNCHANGED <<mids, time, loading, first, timer, deletions, now, asked, crossed, crashes>>
  PROVE  TimersInv'
<1>0. Timers!TypeOK /\ QueuesRight /\ CreatesRight /\ WordsRight /\ LastRight /\ DeletionsRight /\ Watching
  BY DEF TimersInv
<1> DEFINE s == Head(tasks)
           found == DOMAIN s.dates \ gone
           dates == { s.dates[m] : m \in found }
           e == [kind |-> "added", min |-> Timers!Min(dates)]
           ns == IF found = {} THEN {} ELSE {e}
<1>1. /\ s.kind = "create" /\ gone' = gone
      /\ deadlines' = [ m \in Secrets |-> IF m \in found THEN s.dates[m] ELSE deadlines[m] ]
      /\ stage' = IF found = {} THEN stage ELSE Append(stage, e)
  BY DEF Timers!CreateRuns
<1>2. /\ tasks' \in Seq(StorageTask) /\ Moves(tasks, tasks', 1, {})
      /\ 1 \in DOMAIN tasks /\ s = tasks[1] /\ s \in StorageTask
  BY <1>0, MovedBy DEF QueuesRight
<1>3. PICK ms \in SUBSET Secrets : s.dates \in [ms -> Timers!Dates]
  BY <1>1, <1>2, StorageFields
<1>a. now \in Nat /\ mids \subseteq Secrets /\ MaxTime \in Nat /\ deadlines \in [Secrets -> 0..MaxTime]
  BY <1>0 DEF TimersInv, Timers!BoundAssumption, Timers!TypeOK, Timers!Dates
<1>4. DOMAIN s.dates = ms /\ \A m \in ms : s.dates[m] \in 1..MaxTime
  BY <1>3 DEF Timers!Dates
<1>5. \A m \in ms : deadlines[m] = 0 /\ m \in asked
  BY <1>0, <1>1, <1>2, <1>4 DEF CreatesRight
<1>6. dates \subseteq 1..MaxTime /\ \A m \in found : s.dates[m] \in dates
  BY <1>4
<1>7. found # {} => Timers!Min(dates) \in 1..MaxTime /\ \A m \in found : Timers!Min(dates) <= s.dates[m]
  <2> HIDE DEF dates, found
  <2>1. found # {} => dates # {}
    BY <1>6
  <2>2. dates \in SUBSET Nat
    BY <1>6, <1>a
  <2> QED BY <1>6, <2>1, <2>2, LeastIsMin
<1>8. found \subseteq ms
  BY <1>4
<1> HIDE DEF dates
<1>9. found # {} => e \in Timers!StageTask /\ e.kind = "added" /\ \A m \in found : e.min <= s.dates[m]
  BY <1>7 DEF Timers!StageTask, Timers!Dates
<1> HIDE DEF e
<1>10. /\ stage' \in Seq(Timers!StageTask) /\ Moves(stage, stage', 0, ns)
       /\ found # {} => /\ Len(stage) \in Nat /\ DOMAIN stage' = 1..(Len(stage) + 1)
                        /\ stage'[Len(stage) + 1] = e
  <2>1. CASE found = {}
    BY <1>0, <1>1, <2>1, MovedBy DEF QueuesRight
  <2>2. CASE found # {}
    BY <1>0, <1>1, <1>9, <2>2, MovedOn, Appended DEF QueuesRight
  <2> QED BY <2>1, <2>2
<1>11. \A x \in ns : x.kind = "added"
  BY <1>9
<1> HIDE DEF s, found, ns
<1>12. \A m \in Secrets : deadlines[m] # 0 => deadlines'[m] = deadlines[m]
  BY <1>1, <1>5, <1>8
<1>13. \A m \in Secrets : deadlines'[m] # deadlines[m] => m \in found
  BY <1>1
<1>c. Frame(0, ns, 1, {}) /\ QueuesRight'
  BY <1>0, <1>1, <1>2, <1>10, <1>12, <1>a DEF Frame, QueuesRight
<1>14. Timers!TypeOK'
  <2>1. deadlines' \in [Secrets -> 0..MaxTime]
    BY <1>1, <1>4, <1>8, <1>a
  <2>2. /\ \A i \in 1..Len(stage') : stage'[i] \in Timers!StageTask
        /\ \A i \in 1..Len(tasks') : tasks'[i].kind \in {"create", "getNewTask", "delete"}
    BY <1>c, QueuesTyped DEF QueuesRight
  <2> QED BY <1>0, <1>1, <2>1, <2>2 DEF Timers!TypeOK
<1>15. CreatesRight'
  <2>1. (Timers!Timed \subseteq asked)'
    BY <1>0, <1>5, <1>8, <1>13 DEF CreatesRight, Timers!Timed
  <2>2. ASSUME NEW i \in DOMAIN tasks', tasks'[i].kind = "create"
        PROVE  /\ DOMAIN tasks'[i].dates \subseteq asked'
               /\ \A m \in DOMAIN tasks'[i].dates : deadlines'[m] = 0
               /\ \A j \in DOMAIN tasks' :
                    j # i /\ tasks'[j].kind = "create" => DOMAIN tasks'[i].dates \cap DOMAIN tasks'[j].dates = {}
    <3>1. /\ i + 1 \in DOMAIN tasks /\ tasks'[i] = tasks[i + 1] /\ i + 1 # 1
          /\ tasks[i + 1] \in StorageTask
      BY <1>0, <1>2, <2>2 DEF Moves, QueuesRight
    <3>2. DOMAIN tasks[i + 1].dates \cap ms = {} /\ DOMAIN tasks[i + 1].dates \subseteq Secrets
      BY <1>0, <1>1, <1>2, <1>4, <2>2, <3>1, StorageFields DEF CreatesRight
    <3>3. /\ DOMAIN tasks[i + 1].dates \subseteq asked
          /\ \A m \in DOMAIN tasks[i + 1].dates : deadlines[m] = 0
      BY <1>0, <2>2, <3>1 DEF CreatesRight
    <3>4. \A m \in DOMAIN tasks[i + 1].dates : deadlines'[m] = 0
      BY <1>8, <1>13, <3>2, <3>3
    <3>5. ASSUME NEW j \in DOMAIN tasks', j # i, tasks'[j].kind = "create"
          PROVE  DOMAIN tasks'[i].dates \cap DOMAIN tasks'[j].dates = {}
      <4>1. j + 1 \in DOMAIN tasks /\ tasks'[j] = tasks[j + 1] /\ j + 1 # i + 1
        BY <1>2, <2>2, <3>5 DEF Moves
      <4> QED BY <1>0, <2>2, <3>1, <3>5, <4>1 DEF CreatesRight
    <3> QED BY <3>1, <3>3, <3>4, <3>5
  <2> QED BY <2>1, <2>2 DEF CreatesRight
<1>16. WordsRight' /\ LastRight'
  BY <1>11, <1>12, <1>c, AnswersStay
<1>17. DeletionsRight' /\ (Timers!Deleting' <=> Timers!Deleting)
  <2>1. now' \in Nat
    BY <1>a
  <2> QED BY <1>11, <1>c, <2>1, DeletionsGoOn
<1>18. Watching'
  <2>1. /\ Coming => Coming'
        /\ \A m : deadlines'[m] = deadlines[m] /\ Told(m) => Told(m)'
        /\ \A m : deadlines'[m] = deadlines[m] /\ Remembered(m) => Remembered(m)'
    <3>1. tasks[1].kind # "getNewTask" /\ \A x \in ns : x.kind # "loaded"
      BY <1>1, <1>2, <1>11
    <3> QED BY <1>0, <1>c, <3>1, WatchStays
  <2>2. ASSUME NEW m \in found PROVE Told(m)'
    <3>1. deadlines'[m] = s.dates[m] /\ e.min <= s.dates[m] /\ e.kind = "added"
      BY <1>1, <1>8, <1>9, <2>2
    <3>2. Len(stage) + 1 \in DOMAIN stage' /\ stage'[Len(stage) + 1] = e
      BY <1>10, <2>2
    <3>3. Latest(stage', Len(stage) + 1)
      BY <1>10, <2>2 DEF Latest
    <3> QED BY <3>1, <3>2, <3>3 DEF Told, Latest
  <2>3. ASSUME NEW m \in Secrets, deadlines'[m] # 0, m \notin found PROVE m \in Timers!Timed /\ deadlines'[m] = deadlines[m]
    BY <1>13, <2>3 DEF Timers!Timed
  <2>4. first' => \A m \in Timers!Timed' : Coming' \/ Told(m)' \/ Remembered(m)'
    <3> SUFFICES ASSUME first', NEW m \in Secrets, deadlines'[m] # 0 PROVE Coming' \/ Told(m)' \/ Remembered(m)'
      BY DEF Timers!Timed
    <3> QED BY <1>0, <2>1, <2>2, <2>3 DEF Watching
  <2>5. /\ Has(stage, "loaded") => Has(stage', "loaded")
        /\ Has(tasks, "getNewTask") => Has(tasks', "getNewTask")
    BY <1>1, <1>2, <1>10, HasMoved
  <2> QED BY <1>0, <1>17, <2>4, <2>5 DEF Watching, Has
<1> QED BY <1>c, <1>14, <1>15, <1>16, <1>17, <1>18 DEF TimersInv

\* The messages that are to be deleted are.
LEMMA DeleteRunsKeeps ==
  ASSUME TimersInv, tasks # <<>>, tasks' = Tail(tasks), Timers!DeleteRuns(Head(tasks)),
         UNCHANGED <<mids, time, loading, first, timer, deletions, now, asked, crossed, crashes>>
  PROVE  TimersInv'
<1>0. Timers!TypeOK /\ QueuesRight /\ CreatesRight /\ WordsRight /\ LastRight /\ DeletionsRight /\ Watching
  BY DEF TimersInv
<1> DEFINE s == Head(tasks)
<1>1. s.kind = "delete" /\ gone' = gone \cup s.mids /\ deadlines' = deadlines /\ stage' = stage
  BY DEF Timers!DeleteRuns
<1>2. /\ tasks' \in Seq(StorageTask) /\ Moves(tasks, tasks', 1, {}) /\ Moves(stage, stage', 0, {})
      /\ 1 \in DOMAIN tasks /\ s = tasks[1] /\ s \in StorageTask
  BY <1>0, <1>1, MovedBy DEF QueuesRight
<1>3. s.mids \subseteq Secrets
  BY <1>1, <1>2, StorageFields
<1> HIDE DEF s
<1>a. now \in Nat /\ now' \in Nat
  BY <1>0 DEF Timers!TypeOK, Timers!Dates
<1>c. Frame(0, {}, 1, {}) /\ QueuesRight'
  BY <1>0, <1>1, <1>2, <1>a DEF Frame, QueuesRight
<1>4. Timers!TypeOK'
  BY <1>0, <1>1, <1>3, <1>c, QueuesTyped DEF Timers!TypeOK, QueuesRight
<1>5. CreatesRight'
  BY <1>0, <1>1, <1>2, CreatesStay
<1>6. WordsRight' /\ LastRight'
  BY <1>1, <1>c, AnswersStay
<1>7. DeletionsRight' /\ (Timers!Deleting' <=> Timers!Deleting)
  BY <1>a, <1>c, DeletionsGoOn
<1>8. Watching'
  <2>1. Coming => Coming'
    BY <1>0, <1>1, <1>2, <1>c, WatchStays
  <2>2. Has(tasks, "getNewTask") => Has(tasks', "getNewTask")
    BY <1>1, <1>2, HasMoved
  <2> QED BY <1>0, <1>1, <1>7, <2>1, <2>2 DEF Watching, Has, Told, Remembered, Latest, Timers!Timed
<1> QED BY <1>c, <1>4, <1>5, <1>6, <1>7, <1>8 DEF TimersInv

\* The rows of the messages that were deleted go, and the earliest of the others are the
\* answer.
LEMMA GetNewTaskKeeps ==
  ASSUME TimersInv, tasks # <<>>, tasks' = Tail(tasks), Timers!GetNewTask(Head(tasks)),
         UNCHANGED <<mids, time, loading, first, timer, deletions, now, asked, crossed, crashes>>
  PROVE  TimersInv' /\ \A m \in Secrets : deadlines'[m] # deadlines[m] => m \in Past
<1>0. Timers!TypeOK /\ QueuesRight /\ CreatesRight /\ WordsRight /\ LastRight /\ DeletionsRight /\ Watching
  BY DEF TimersInv
<1> DEFINE s == Head(tasks)
           e == Timers!Earliest(deadlines')
           dates == { deadlines'[m] : m \in Secrets } \ {0}
<1>1. /\ s.kind = "getNewTask" /\ gone' = gone /\ stage' = Append(stage, e)
      /\ deadlines' = [ m \in Secrets |-> IF m \in s.old THEN 0 ELSE deadlines[m] ]
  BY DEF Timers!GetNewTask
<1>2. /\ tasks' \in Seq(StorageTask) /\ Moves(tasks, tasks', 1, {})
      /\ 1 \in DOMAIN tasks /\ s = tasks[1] /\ s \in StorageTask
  BY <1>0, MovedBy DEF QueuesRight
<1>a. now \in Nat /\ mids \subseteq Secrets /\ MaxTime \in Nat /\ deadlines \in [Secrets -> 0..MaxTime]
  BY <1>0 DEF TimersInv, Timers!BoundAssumption, Timers!TypeOK, Timers!Dates
<1>3. deadlines' \in [Secrets -> 0..MaxTime]
  BY <1>1, <1>a
<1>4. \A m \in s.old : m \in Past
  <2>1. \A k \in DOMAIN tasks : ~(k < 1)
    BY <1>2 DEF Moves
  <2> QED BY <1>0, <1>1, <1>2, <2>1 DEF DeletionsRight
<1>5. \A m \in Secrets : deadlines'[m] # deadlines[m] => deadlines'[m] = 0 /\ m \in Past
  BY <1>1, <1>4
<1>6. dates \subseteq 1..MaxTime /\ \A m \in Secrets : deadlines'[m] # 0 => deadlines'[m] \in dates
  BY <1>3
<1>7. /\ dates = {} => e.date = 0
      /\ dates # {} => e.date \in dates /\ \A n \in dates : e.date <= n
  <2>1. dates # {} => Timers!Min(dates) \in dates /\ \A n \in dates : Timers!Min(dates) <= n
    <3> HIDE DEF dates
    <3>1. dates \in SUBSET Nat
      BY <1>6, <1>a
    <3> QED BY <3>1, LeastIsMin
  <2>2. e.date = IF dates = {} THEN 0 ELSE Timers!Min(dates)
    BY DEF Timers!Earliest
  <2> HIDE DEF e, dates
  <2> QED BY <2>1, <2>2
<1>8. e.kind = "loaded" /\ e.mids = { m \in Secrets : deadlines'[m] # 0 /\ deadlines'[m] = e.date }
  BY DEF Timers!Earliest
<1>9. e.date \in 0..MaxTime /\ (e.date # 0 <=> e.mids # {})
  <2>1. e.date # 0 => \E m \in Secrets : deadlines'[m] # 0 /\ deadlines'[m] = e.date
    BY <1>7
  <2> HIDE DEF e
  <2>2. e.date \in 0..MaxTime
    <3> HIDE DEF dates
    <3>1. CASE dates = {}
      BY <1>7, <1>a, <3>1
    <3>2. CASE dates # {}
      <4>1. e.date \in 1..MaxTime
        BY <1>6, <1>7, <3>2
      <4> QED BY <1>a, <4>1
    <3> QED BY <3>1, <3>2
  <2> QED BY <1>8, <2>1, <2>2
<1>10. e \in Timers!StageTask
  <2>1. e = [kind |-> "loaded", date |-> e.date, mids |-> e.mids] /\ e.mids \subseteq Secrets
    BY <1>8 DEF Timers!Earliest
  <2> HIDE DEF e
  <2> QED BY <1>9, <2>1 DEF Timers!StageTask
<1> HIDE DEF s, e, dates
<1>11. /\ stage' \in Seq(Timers!StageTask) /\ Moves(stage, stage', 0, {e})
       /\ Len(stage) \in Nat /\ DOMAIN stage' = 1..(Len(stage) + 1) /\ stage'[Len(stage) + 1] = e
  BY <1>0, <1>1, <1>10, MovedOn, Appended DEF QueuesRight
<1>c. Frame(0, {e}, 1, {}) /\ QueuesRight'
  BY <1>0, <1>1, <1>2, <1>5, <1>11, <1>a DEF Frame, QueuesRight, Past
<1>12. Timers!TypeOK'
  BY <1>0, <1>1, <1>3, <1>c, QueuesTyped DEF Timers!TypeOK, QueuesRight
<1>13. CreatesRight'
  <2>1. \A m \in Secrets : deadlines'[m] \in {deadlines[m], 0}
    BY <1>5
  <2> QED BY <1>0, <1>2, <2>1, CreatesStay
<1>14. WordsRight'
  <2>1. time' # 0 => \A m \in mids' : deadlines[m] = time' \/ m \in gone' \cup crossed'
    BY <1>0, <1>1 DEF WordsRight, Past
  <2>2. mids' \subseteq Secrets
    BY <1>a
  <2>3. \A x \in {e} : x.kind = "loaded" =>
          (x.mids # {} <=> x.date # 0) /\ \A m \in x.mids : deadlines'[m] = x.date \/ m \in gone' \cup crossed'
    BY <1>8, <1>9
  <2> QED BY <1>0, <1>c, <2>1, <2>2, <2>3, WordsStay
<1>15. LastRight'
  <2>1. Has(stage', "loaded")
    BY <1>8, <1>11 DEF Has
  <2>2. ASSUME NEW i \in DOMAIN stage', stage'[i].kind = "loaded", Latest(stage', i)
        PROVE  \A m \in stage'[i].mids : deadlines'[m] = stage'[i].date
    <3>1. ~(Len(stage) + 1 > i)
      BY <1>8, <1>11, <2>2 DEF Latest
    <3>2. i = Len(stage) + 1
      BY <1>11, <3>1
    <3> QED BY <1>8, <1>11, <3>2
  <2> QED BY <2>1, <2>2 DEF LastRight, Has, Latest
<1>16. DeletionsRight' /\ (Timers!Deleting' <=> Timers!Deleting)
  <2>1. now' \in Nat /\ \A x \in {e} : x.kind \notin {"get", "reload"}
    BY <1>8, <1>a
  <2> QED BY <1>c, <2>1, DeletionsGoOn
<1>17. Watching'
  <2>1. ASSUME NEW m \in Secrets, deadlines'[m] # 0 PROVE Told(m)'
    <3>1. e.date # 0 /\ e.date <= deadlines'[m]
      <4>1. deadlines'[m] \in dates
        BY <1>6, <2>1
      <4>2. e.date \in dates /\ e.date <= deadlines'[m]
        BY <1>7, <4>1
      <4>3. e.date \in 1..MaxTime
        BY <1>6, <4>2
      <4> QED BY <1>a, <4>2, <4>3
    <3>2. Latest(stage', Len(stage) + 1)
      BY <1>11 DEF Latest
    <3> QED BY <1>8, <1>11, <3>1, <3>2 DEF Told, Latest
  <2>2. Has(stage', "loaded")
    BY <1>8, <1>11 DEF Has
  <2> QED BY <1>0, <1>16, <2>1, <2>2 DEF Watching, Has, Timers!Timed
<1> QED BY <1>c, <1>5, <1>12, <1>13, <1>14, <1>15, <1>16, <1>17 DEF TimersInv

\* The clock goes on: what was due stays due.
LEMMA ClockKeeps == TimersInv /\ Timers!TimePasses => TimersInv'
<1> SUFFICES ASSUME TimersInv, Timers!TimePasses PROVE TimersInv'
  OBVIOUS
<1>0. Timers!TypeOK /\ QueuesRight /\ CreatesRight /\ WordsRight /\ LastRight /\ DeletionsRight /\ Watching
  BY DEF TimersInv
<1>1. /\ now < MaxTime /\ now' = now + 1
      /\ UNCHANGED <<mids, time, loading, first, timer, stage, tasks, deletions, deadlines, gone,
                     asked, crossed, crashes>>
  BY DEF Timers!TimePasses, Timers!memory, Timers!queues, Timers!disk, Timers!past
<1>a. now \in Nat /\ now' \in Nat /\ now' \in Timers!Dates
  BY <1>0, <1>1 DEF TimersInv, Timers!BoundAssumption, Timers!TypeOK, Timers!Dates
<1>2. Moves(stage, stage', 0, {}) /\ Moves(tasks, tasks', 0, {}) /\ QueuesRight'
  BY <1>0, <1>1, MovedBy DEF QueuesRight
<1>c. Frame(0, {}, 0, {})
  BY <1>1, <1>2, <1>a DEF Frame
<1>3. Timers!TypeOK'
  BY <1>0, <1>1, <1>a DEF Timers!TypeOK
<1>4. CreatesRight' /\ WordsRight' /\ LastRight'
  BY <1>0, <1>1 DEF CreatesRight, Timers!Timed, WordsRight, LastRight, Past, Has, Latest
<1>5. DeletionsRight' /\ (Timers!Deleting' <=> Timers!Deleting)
  BY <1>1, <1>2, <1>a, <1>c, DeletionsGoOn
<1>6. Watching'
  BY <1>0, <1>1, <1>5 DEF Watching, Has, Coming, Told, Remembered, Latest, Timers!Timed
<1> QED BY <1>2, <1>3, <1>4, <1>5, <1>6 DEF TimersInv

\* The table is all that is left; nothing is watched for until it is looked at.
LEMMA KillKeeps == TimersInv /\ Timers!Crash => TimersInv'
<1> SUFFICES ASSUME TimersInv, Timers!Crash PROVE TimersInv'
  OBVIOUS
<1>0. Timers!TypeOK /\ Timers!BoundAssumption
  BY DEF TimersInv
<1>1. /\ crashes < MaxKills /\ crashes' = crashes + 1
      /\ mids' = {} /\ time' = 0 /\ loading' = FALSE /\ first' = FALSE /\ timer' = 0
      /\ stage' = <<>> /\ tasks' = <<>> /\ deletions' = 0
      /\ asked' = Timers!Timed \cup gone /\ crossed' = {} /\ UNCHANGED <<deadlines, gone, now>>
  BY DEF Timers!Crash, Timers!disk, Timers!Nobody
<1>a. DOMAIN stage' = {} /\ DOMAIN tasks' = {} /\ Len(stage') = 0 /\ Len(tasks') = 0 /\ QueuesRight'
  BY <1>1 DEF QueuesRight
<1>2. Timers!TypeOK'
  <2>1. asked' \subseteq Secrets /\ crossed' \subseteq Secrets
    BY <1>0, <1>1 DEF Timers!TypeOK, Timers!Timed
  <2>2. crashes' \in 0..MaxKills /\ 0 \in 0..MaxTime
    BY <1>0, <1>1 DEF Timers!TypeOK, Timers!BoundAssumption
  <2>3. (\A i \in 1..Len(stage') : FALSE) /\ (\A i \in 1..Len(tasks') : FALSE)
    BY <1>a
  <2> QED BY <1>0, <1>1, <2>1, <2>2, <2>3 DEF Timers!TypeOK
<1>3. CreatesRight' /\ WordsRight' /\ LastRight'
  BY <1>1, <1>a DEF CreatesRight, Timers!Timed, WordsRight, LastRight
<1>4. DeletionsRight' /\ Watching'
  BY <1>1, <1>a DEF DeletionsRight, Watching, Has
<1> QED BY <1>0, <1>a, <1>2, <1>3, <1>4 DEF TimersInv

\* It holds at the start: the table is empty.
LEMMA TimersStart == Timers!BoundAssumption /\ Timers!Init => TimersInv
<1> SUFFICES ASSUME Timers!BoundAssumption, Timers!Init PROVE TimersInv
  OBVIOUS
<1>1. /\ mids = {} /\ time = 0 /\ loading = FALSE /\ first = FALSE /\ timer = 0
      /\ stage = <<>> /\ tasks = <<>> /\ deletions = 0
      /\ deadlines = [m \in Secrets |-> 0] /\ gone = {} /\ now = 1 /\ asked = {} /\ crossed = {} /\ crashes = 0
  BY DEF Timers!Init, Timers!Nobody
<1>2. MaxTime \in Nat \ {0} /\ MaxKills \in Nat
  BY DEF Timers!BoundAssumption
<1>3. DOMAIN stage = {} /\ DOMAIN tasks = {} /\ Len(stage) = 0 /\ Len(tasks) = 0 /\ QueuesRight
  BY <1>1 DEF QueuesRight
<1>4. Timers!TypeOK
  <2>1. (\A i \in 1..Len(stage) : FALSE) /\ (\A i \in 1..Len(tasks) : FALSE)
    BY <1>3
  <2>2. now \in Timers!Dates /\ 0 \in 0..MaxTime /\ 0 \in 0..MaxKills
    BY <1>1, <1>2 DEF Timers!Dates
  <2> QED BY <1>1, <2>1, <2>2 DEF Timers!TypeOK
<1>5. CreatesRight /\ WordsRight /\ LastRight
  BY <1>1, <1>3 DEF CreatesRight, Timers!Timed, WordsRight, LastRight
<1>6. DeletionsRight /\ Watching
  BY <1>1, <1>3 DEF DeletionsRight, Watching, Has
<1> QED BY <1>3, <1>4, <1>5, <1>6 DEF TimersInv

\* Every step keeps it.
LEMMA TimersStep == TimersInv /\ [Timers!Next]_(Timers!vars) => TimersInv'
<1> SUFFICES ASSUME TimersInv, [Timers!Next]_(Timers!vars) PROVE TimersInv'
  OBVIOUS
<1>1. CASE Timers!StageRuns
  BY <1>1, GetKeeps, AddedKeeps, LoadedKeeps, ReloadKeeps DEF Timers!StageRuns
<1>2. CASE Timers!StorageRuns
  <2>1. /\ tasks # <<>> /\ tasks' = Tail(tasks)
        /\ UNCHANGED <<mids, time, loading, first, timer, deletions, now, asked, crossed, crashes>>
    BY <1>2 DEF Timers!StorageRuns, Timers!memory, Timers!past
  <2>2. \/ Timers!CreateRuns(Head(tasks)) \/ Timers!GetNewTask(Head(tasks)) \/ Timers!DeleteRuns(Head(tasks))
    BY <1>2 DEF Timers!StorageRuns
  <2> QED BY <2>1, <2>2, CreateRunsKeeps, GetNewTaskKeeps, DeleteRunsKeeps
<1>3. ASSUME NEW ms \in SUBSET Secrets \ {{}}, NEW dates \in [ms -> Timers!Dates], Timers!CreateTask(dates)
      PROVE  TimersInv'
  <2>1. ms \in SUBSET Secrets
    OBVIOUS
  <2> QED BY <1>3, <2>1, CreateKeeps
<1>4. CASE UNCHANGED Timers!vars
  <2>1. UNCHANGED <<mids, time, loading, first, timer, stage, tasks, deletions, deadlines, gone, now,
                    asked, crossed, crashes>>
    BY <1>4 DEF Timers!vars, Timers!memory, Timers!queues, Timers!disk, Timers!past
  <2>2. Timers!TypeOK' /\ QueuesRight'
    BY <2>1 DEF TimersInv, Timers!TypeOK, QueuesRight
  <2>3. CreatesRight' /\ WordsRight' /\ LastRight'
    BY <2>1 DEF TimersInv, CreatesRight, WordsRight, LastRight, Timers!Timed, Past, Has, Latest
  <2>4. DeletionsRight'
    BY <2>1 DEF TimersInv, DeletionsRight, Timers!Deleting, Has, Doomed, Handed, Past
  <2>5. Watching'
    BY <2>1 DEF TimersInv, Watching, Timers!Deleting, Has, Coming, Told, Remembered, Latest, Timers!Timed
  <2> QED BY <2>2, <2>3, <2>4, <2>5 DEF TimersInv
<1>5. CASE Timers!UpdateTimerProc \/ Timers!TimerFires \/ Timers!GetDifference
  BY <1>5, UpdateTimerKeeps, TimerFiresKeeps, GetDifferenceKeeps
<1>6. CASE Timers!UiDeletes \/ Timers!TimePasses \/ Timers!Crash
  BY <1>6, UiKeeps, ClockKeeps, KillKeeps
<1> QED BY <1>1, <1>2, <1>3, <1>4, <1>5, <1>6 DEF Timers!Next

\* What nobody may forget is in memory when nothing is on its way.
LEMMA TimersInvIsSafe == TimersInv => Timers!TimersSafe
<1> SUFFICES ASSUME TimersInv PROVE Timers!TimersSafe
  OBVIOUS
<1>0. Timers!TypeOK /\ QueuesRight /\ LastRight /\ Watching
  BY DEF TimersInv
<1> DEFINE dates == { deadlines[n] : n \in Timers!Timed }
<1>1. ASSUME Timers!Quiet, Timers!Timed # {}
      PROVE  /\ mids # {} /\ mids \subseteq Timers!Timed
             /\ \A m \in mids : deadlines[m] = Timers!Min(dates)
             /\ time = Timers!Min(dates)
  <2>1. first /\ deletions = 0 /\ DOMAIN stage = {} /\ DOMAIN tasks = {}
    BY <1>1 DEF Timers!Quiet
  <2>2. \A m \in Timers!Timed : time # 0 /\ time <= deadlines[m]
    BY <1>0, <2>1 DEF Watching, Coming, Told, Remembered, Has
  <2>3. time # 0 /\ mids # {} /\ mids \subseteq Secrets
    BY <1>0, <1>1, <2>2 DEF Timers!TypeOK, Timers!Nobody
  <2>4. \A m \in mids : deadlines[m] = time
    BY <1>0, <2>1, <2>3 DEF LastRight, Has
  <2>5. mids \subseteq Timers!Timed
    BY <2>3, <2>4 DEF Timers!Timed
  <2>6. time \in dates /\ \A n \in dates : time <= n
    BY <2>2, <2>3, <2>4, <2>5
  <2>7. dates \subseteq 0..MaxTime /\ MaxTime \in Nat
    BY <1>0 DEF TimersInv, Timers!BoundAssumption, Timers!TypeOK, Timers!Timed
  <2> HIDE DEF dates
  <2>8. dates \in SUBSET Nat /\ dates # {}
    BY <2>6, <2>7
  <2>9. Timers!Min(dates) \in dates /\ Timers!Min(dates) <= time
    BY <2>6, <2>8, LeastIsMin
  <2>10. time = Timers!Min(dates)
    <3>1. time <= Timers!Min(dates) /\ time \in Nat /\ Timers!Min(dates) \in Nat
      BY <2>6, <2>8, <2>9
    <3> QED BY <2>9, <3>1
  <2> QED BY <2>3, <2>4, <2>5, <2>10
<1>2. Timers!ArmedForTheEarliest
  BY <1>1 DEF Timers!ArmedForTheEarliest, Timers!Nobody
<1> QED BY <1>0, <1>2 DEF Timers!TimersSafe

\* A message is deleted, and loses its row, by the storage thread alone.
LEMMA DeletionStep ==
  TimersInv /\ [Timers!Next]_(Timers!vars) =>
    /\ \A m \in gone' \ gone : (deadlines[m] # 0 /\ deadlines[m] <= now) \/ m \in crossed
    /\ \A m \in Secrets : (deadlines[m] # 0 /\ deadlines'[m] = 0) => m \in gone \cup crossed
<1> SUFFICES ASSUME TimersInv, [Timers!Next]_(Timers!vars)
             PROVE  /\ \A m \in gone' \ gone : (deadlines[m] # 0 /\ deadlines[m] <= now) \/ m \in crossed
                    /\ \A m \in Secrets : (deadlines[m] # 0 /\ deadlines'[m] = 0) => m \in gone \cup crossed
  OBVIOUS
<1>1. CASE Timers!StorageRuns
  <2>0. Timers!TypeOK /\ QueuesRight /\ CreatesRight /\ DeletionsRight
    BY DEF TimersInv
  <2>1. /\ tasks # <<>> /\ tasks' = Tail(tasks)
        /\ UNCHANGED <<mids, time, loading, first, timer, deletions, now, asked, crossed, crashes>>
    BY <1>1 DEF Timers!StorageRuns, Timers!memory, Timers!past
  <2>2. 1 \in DOMAIN tasks /\ Head(tasks) = tasks[1] /\ Head(tasks) \in StorageTask
    BY <2>0, <2>1, MovedBy DEF QueuesRight
  <2>3. CASE Timers!CreateRuns(Head(tasks))
    <3>1. \A m \in DOMAIN tasks[1].dates : deadlines[m] = 0
      BY <2>0, <2>2, <2>3 DEF Timers!CreateRuns, CreatesRight
    <3>2. /\ gone' = gone
          /\ deadlines' = [ m \in Secrets |-> IF m \in DOMAIN tasks[1].dates \ gone
                                         THEN tasks[1].dates[m] ELSE deadlines[m] ]
      BY <2>2, <2>3 DEF Timers!CreateRuns
    <3> QED BY <3>1, <3>2
  <2>4. CASE Timers!GetNewTask(Head(tasks))
    <3>1. gone' = gone
      BY <2>4 DEF Timers!GetNewTask
    <3>2. \A m \in Secrets : deadlines'[m] # deadlines[m] => m \in Past
      BY <2>1, <2>4, GetNewTaskKeeps
    <3> QED BY <3>1, <3>2 DEF Past
  <2>5. CASE Timers!DeleteRuns(Head(tasks))
    <3>1. tasks[1].kind = "delete" /\ gone' = gone \cup tasks[1].mids /\ deadlines' = deadlines
      BY <2>2, <2>5 DEF Timers!DeleteRuns
    <3>2. \A m \in tasks[1].mids : Doomed(m)
      BY <2>0, <2>2, <3>1 DEF DeletionsRight
    <3> QED BY <3>1, <3>2 DEF Doomed, Past
  <2> QED BY <1>1, <2>3, <2>4, <2>5 DEF Timers!StorageRuns
<1>2. CASE UNCHANGED <<deadlines, gone>>
  BY <1>2
<1>3. ~Timers!StorageRuns => UNCHANGED <<deadlines, gone>>
  BY DEF Timers!Next, Timers!vars, Timers!disk, Timers!UpdateTimerProc, Timers!TimerFires, Timers!GetDifference,
         Timers!StageRuns, Timers!GetNewDeleteTask, Timers!DidAddedNewTask, Timers!ProcessLoadedDeleteTask,
         Timers!Reload, Timers!UiDeletes, Timers!CreateTask, Timers!TimePasses, Timers!Crash
<1> QED BY <1>1, <1>2, <1>3

\* Of the messages that wait for their time the earliest are armed whenever nothing is
\* on its way; none is deleted before its time, and no row is removed before its message
\* is deleted, but where the answer to a load came in the middle of a deletion.
THEOREM TimersAreSafe ==
  ASSUME Timers!BoundAssumption
  PROVE  Timers!Spec => []TimersSafe /\ Timers!NotEarly /\ Timers!DeletedBeforeRow
<1>1. Timers!Init => TimersInv
  BY TimersStart
<1>2. TimersInv /\ [Timers!Next]_(Timers!vars) => TimersInv'
  BY TimersStep
<1>3. TimersInv => TimersSafe
  BY TimersInvIsSafe DEF TimersSafe
<1>4. TimersInv /\ [Timers!Next]_(Timers!vars) =>
        [\A m \in gone' \ gone : (deadlines[m] # 0 /\ deadlines[m] <= now) \/ m \in crossed]_(Timers!vars)
  BY DeletionStep
<1>5. TimersInv /\ [Timers!Next]_(Timers!vars) =>
        [\A m \in Secrets : (deadlines[m] # 0 /\ deadlines'[m] = 0) => m \in gone \cup crossed]_(Timers!vars)
  BY DeletionStep
<1> QED BY <1>1, <1>2, <1>3, <1>4, <1>5, PTL DEF Timers!Spec, Timers!NotEarly, Timers!DeletedBeforeRow
=============================================================================
