----------------------------- MODULE UpdatesSync -----------------------------
(***************************************************************************)
(* How MessagesController keeps the local state in step with the server:   *)
(* numbered updates that are pushed, answered or fetched as a difference,  *)
(* the queue of those that came too early, and the parameters (seq, pts,   *)
(* date) that MessagesStorage keeps on disk.                               *)
(*                                                                         *)
(* The stage thread runs every handler.  The loop of processUpdatesQueue,  *)
(* which ends several of them, is taken one turn at a time: draining says  *)
(* that the thread is inside it.  The storage thread runs the writes       *)
(* posted to it in order.                                                  *)
(*                                                                         *)
(* The server numbers its updates 1, 2, ...: an update advances seq and    *)
(* pts alike.  qts and secret chats are another count, left out here.      *)
(***************************************************************************)
EXTENDS Integers, Sequences, FiniteSets

CONSTANTS
  MaxUpdates,  \* bound: updates the server numbers
  Kinds,       \* kinds of update in use, a subset of AllKinds
  Strangers,   \* updates from a user the client has not met before
  Faults,      \* faults in use, a subset of AllFaults
  MaxFaults,   \* bound: faults
  MaxWrites    \* bound: writes waiting on the storage queue

AllKinds  == {"short", "full", "combined", "own"}
AllFaults == {"lose", "tooLong", "repeat", "error", "crash"}

ASSUME KindsAssumption == Kinds \subseteq AllKinds /\ Faults \subseteq AllFaults
ASSUME CountAssumption ==
  /\ MaxUpdates \in Nat /\ MaxFaults \in Nat /\ MaxWrites \in Nat
  /\ Strangers \subseteq 1..MaxUpdates

VARIABLES        \* the stage thread's: MessagesStorage.last*Value and fields
  seq,           \* lastSeqValue
  pts,           \* lastPtsValue
  dated,         \* lastDateValue # 0
  queue,         \* updatesQueue
  wait,          \* updatesStartWaitTime: "no", "fresh", or "late" after 1.5 s
  getting,       \* gettingDifference
  updating,      \* updatingState
  draining,      \* in processUpdatesQueue: "no", "first", or "some" processed
  have           \* updates handed to the interface and to the storage

VARIABLES        \* the storage thread's
  writes,        \* storageQueue
  disk           \* the row of params, and the updates stored

VARIABLES        \* the server and the connection, external to the source
  srv,           \* updates numbered so far
  sent,          \* updates pushed
  inflight,      \* pushes on their way
  ownAnswers,    \* numbers of own actions whose answers are on their way
  announce,      \* a new_session_created is on its way
  diff,          \* the updates.getDifference under way
  state,         \* the updates.getState under way
  faults         \* faults so far

VARIABLES        \* history, read by properties only
  own,           \* numbers of the user's own actions
  base,          \* updates the server counted before a state it reported
  skipped,       \* numbers passed over because a state moved seq
  stranded       \* updates given up until a later one reveals the hole

params  == <<seq, pts, dated>>
flags   == <<wait, getting, updating>>
storage == <<writes, disk>>
server  == <<srv, sent, own, faults>>
rpc     == <<diff, state>>
pushes  == <<inflight, ownAnswers, announce>>
history == <<base, skipped, stranded>>
vars == <<params, queue, flags, draining, have, storage, server, pushes, rpc,
          history>>

-----------------------------------------------------------------------------

Updates == [kind : AllKinds \cup {"tooLong"}, first : Nat, seq : Nat]
Numbers(u) == u.first..u.seq
NumbersOf(us) == UNION { Numbers(u) : u \in us }

Idle == [st |-> "idle", from |-> 0, upto |-> 0]
Ask(from) == [st |-> "asked", from |-> from, upto |-> 0]

Fault(kind) ==
  kind \in Faults /\ faults < MaxFaults /\ faults' = faults + 1

\* The stage thread is free to run a handler.
Free == draining = "no" /\ Len(writes) < MaxWrites

\* Writes are posted to the storage thread: updates, then the parameters.
Put(ws, ns) == IF ns = {} THEN ws ELSE Append(ws, [op |-> "put", ns |-> ns])

\* saveDiffParams; the write is skipped when nothing changed since the last.
Parameters(s, p, d) == [op |-> "save", seq |-> s, pts |-> p, dated |-> d]
LastSaved(ws) ==
  LET saves == SelectSeq(ws, LAMBDA w : w.op = "save")
  IN IF saves # <<>> THEN saves[Len(saves)]
     ELSE Parameters(disk.seq, disk.pts, disk.dated)
Save(ws) ==
  LET new == Parameters(seq', pts', dated')
  IN IF LastSaved(ws) = new THEN ws ELSE Append(ws, new)

\* (Mutant: the parameters are saved before what they count.)
SaveThenPut(ns) == writes' = Put(Save(writes), ns)

PutThenSave(ns) == writes' = Save(Put(writes, ns))

-----------------------------------------------------------------------------
(* getDifference and loadCurrentState. *)

\* The call getDifference, when the updates numbered ns are given up for it.
\* While an answer is under way it does nothing, and what that answer will not
\* bring is stranded.
GetDifference(ns) ==
  LET past(answer) == { n \in ns : n > answer.upto } IN
  IF ~dated
  THEN /\ updating' = TRUE
       /\ state' = IF updating THEN state ELSE Ask(0)
       /\ stranded' = stranded \cup
            IF updating /\ state.st = "answered" THEN past(state) ELSE {}
       /\ UNCHANGED <<getting, diff>>
  ELSE /\ getting' = TRUE
       /\ diff' = IF getting THEN diff ELSE Ask(pts)
       /\ stranded' = stranded \cup
            IF getting /\ diff.st \in {"final", "empty"} THEN past(diff) ELSE {}
       /\ UNCHANGED <<updating, state>>

AskNothing == UNCHANGED <<getting, diff, updating, state>>

\* (Mutant: the wait is not started.)
KeepOnly(u) == queue' = queue \cup {u} /\ UNCHANGED wait

\* An update that came too early is kept, and a wait for the hole started.
Keep(u) ==
  /\ queue' = queue \cup {u}
  /\ wait' = IF wait = "no" THEN "fresh" ELSE wait

\* It is kept as long as a difference or the wait may still fill the hole.
MayKeep == getting \/ wait # "late"

\* How processUpdates, outside the queue, and the other handlers end: the
\* queue is gone through if there is one, and the parameters are saved.
ThenDrain(ns) ==
  IF queue' # {}
  THEN draining' = "first" /\ writes' = Put(writes, ns)
  ELSE draining' = "no" /\ PutThenSave(ns)

-----------------------------------------------------------------------------
(* processUpdates. *)

\* An update whose sender is nowhere to be found.
Missing(u) == (Numbers(u) \cap Strangers) \ have # {}

\* (Mutant: a hole is not noticed.)
FitsAnyLater(u) == seq <= u.first

\* An update that continues the sequence, or repeats its last one.
Fits(u) == u.first \in {seq, seq + 1}

\* What a processed update does to the parameters; a repeated short message is
\* dropped, a chat message does not bring a date.
Process(u) ==
  CASE u.kind = "own" ->
         /\ seq' = u.seq
         /\ UNCHANGED <<pts, dated, have>>
    [] u.kind = "short" /\ u.seq # seq + 1 ->
         UNCHANGED <<params, have>>
    [] OTHER ->
         /\ seq' = u.seq /\ pts' = u.seq
         /\ dated' \in (IF u.kind = "short" THEN {dated, TRUE} ELSE {TRUE})
         /\ have' = have \cup Numbers(u)

Arrives(u) ==
  /\ u \in inflight /\ Free
  /\ inflight' = inflight \ {u}
  /\ UNCHANGED <<disk, server, ownAnswers, announce, base, skipped>>

\* A push that fits, and whose senders are known.
PushProcessed(u) ==
  /\ Arrives(u) /\ u.kind # "tooLong"
  /\ Fits(u) /\ ~Missing(u)
  /\ Process(u)
  /\ UNCHANGED <<queue, wait, stranded>>
  /\ AskNothing
  /\ ThenDrain(IF have' = have THEN {} ELSE Numbers(u))

\* A push that asks for a difference: the server says so, a sender is missing,
\* or the hole before it has been waited for long enough.
PushAsks(u) ==
  /\ Arrives(u)
  /\ \/ u.kind = "tooLong"
     \/ Missing(u) /\ (u.kind = "short" \/ Fits(u))
     \/ ~(Fits(u) \/ MayKeep)
  /\ UNCHANGED <<params, have, queue, wait, draining>>
  /\ GetDifference(Numbers(u))
  /\ PutThenSave({})

\* A push that is out of sequence is kept, and the queue looked at.
PushKept(u) ==
  /\ Arrives(u) /\ u.kind # "tooLong"
  /\ ~Fits(u) /\ MayKeep
  /\ u.kind = "short" => ~Missing(u)
  /\ Keep(u)
  /\ UNCHANGED <<params, have, stranded>>
  /\ AskNothing
  /\ ThenDrain({})

\* processNewDifferenceParams: the answer to an action of the user's own.
OwnAnswer(n) ==
  LET u == [kind |-> "own", first |-> n, seq |-> n] IN
  /\ n \in ownAnswers /\ Free
  /\ ownAnswers' = ownAnswers \ {n}
  /\ \/ /\ n = seq + 1
        /\ seq' = n /\ pts' = n /\ dated' \in {dated, TRUE}
        /\ PutThenSave({})
        /\ AskNothing
        /\ UNCHANGED <<queue, wait, stranded>>
     \/ /\ n = seq
        /\ AskNothing
        /\ UNCHANGED <<params, queue, wait, writes, stranded>>
     \/ /\ n \notin {seq, seq + 1} /\ MayKeep
        /\ Keep(u)
        /\ AskNothing
        /\ UNCHANGED <<params, writes, stranded>>
     \/ /\ n \notin {seq, seq + 1} /\ ~MayKeep
        /\ GetDifference({})
        /\ UNCHANGED <<params, queue, wait, writes>>
  /\ UNCHANGED <<draining, have, disk, server, inflight, announce, base, skipped>>

-----------------------------------------------------------------------------
(* processUpdatesQueue: one turn of its loop over the sorted queue. *)

Earliest(u) == u \in queue /\ \A v \in queue : u.first <= v.first

Turn ==
  /\ draining # "no" /\ Len(writes) < MaxWrites
  /\ UNCHANGED <<disk, server, pushes, base, skipped>>

\* The earliest update continues the sequence: processUpdates takes it, and
\* gives it up if a sender is missing.
DrainNext(u) ==
  /\ Turn /\ Earliest(u) /\ Fits(u)
  /\ IF u.kind # "own" /\ Missing(u)
     THEN /\ UNCHANGED <<params, have>>
          /\ stranded' = stranded \cup Numbers(u)
     ELSE /\ Process(u)
          /\ UNCHANGED stranded
  /\ queue' = queue \ {u}
  /\ draining' = "some"
  /\ PutThenSave(IF have' = have THEN {} ELSE Numbers(u))
  /\ AskNothing /\ UNCHANGED wait

\* An update that starts before the last one known is dropped.
DrainOld(u) ==
  /\ Turn /\ Earliest(u) /\ u.first < seq
  /\ queue' = queue \ {u}
  /\ stranded' = stranded \cup { n \in Numbers(u) : n > seq }
  /\ AskNothing
  /\ UNCHANGED <<params, wait, draining, have, writes>>

\* There is a hole before it: wait, for as long again if something was
\* processed, or ask for the difference and forget the queue.
DrainHole(u) ==
  /\ Turn /\ Earliest(u) /\ u.first > seq + 1
  /\ draining' = "no"
  /\ UNCHANGED <<params, have>>
  /\ PutThenSave({})
  /\ IF wait # "no" /\ (draining = "some" \/ wait = "fresh")
     THEN /\ wait' = IF draining = "some" THEN "fresh" ELSE wait
          /\ UNCHANGED <<queue, stranded>>
          /\ AskNothing
     ELSE /\ wait' = "no" /\ queue' = {}
          /\ GetDifference(NumbersOf(queue))

\* Nothing is left.
DrainEnd ==
  /\ Turn /\ queue = {}
  /\ draining' = "no" /\ wait' = "no"
  /\ UNCHANGED <<params, queue, have, stranded>>
  /\ PutThenSave({})
  /\ AskNothing

\* (Mutant: the wait is only started again.)
TickResets ==
  /\ Free /\ wait = "late" /\ wait' = "fresh"
  /\ UNCHANGED <<params, queue, getting, updating, draining, have, storage, server,
                 pushes, rpc, history>>

\* updateTimerProc, every second: a wait that lasted too long.
Tick ==
  /\ Free /\ wait = "late"
  /\ IF queue = {} THEN wait' = "no" /\ UNCHANGED draining
     ELSE draining' = "first" /\ UNCHANGED wait
  /\ UNCHANGED <<params, queue, getting, updating, have, storage, server, pushes,
                 rpc, history>>

\* A second and a half have passed since the wait began.
WaitElapses ==
  /\ wait = "fresh" /\ wait' = "late"
  /\ UNCHANGED <<params, queue, getting, updating, draining, have, storage, server,
                 pushes, rpc, history>>

-----------------------------------------------------------------------------
(* The answers to the two requests. *)

\* The answer to getDifference ends it, unless it is a slice of what is
\* missing: then the rest is asked for at once.
ApplyDifference ==
  LET new == (diff.from + 1)..diff.upto IN
  /\ Free /\ diff.st \in {"slice", "final", "empty"}
  /\ have' = have \cup new
  /\ dated' = TRUE
  /\ UNCHANGED <<queue, wait, updating, state, disk, server, pushes, history>>
  /\ IF diff.st = "slice"
     THEN /\ pts' = diff.upto
          /\ diff' = Ask(diff.upto)
          /\ UNCHANGED <<seq, getting, draining>>
          /\ PutThenSave(new)
     ELSE /\ seq' = diff.upto
          /\ pts' = IF diff.st = "final" THEN diff.upto ELSE pts
          /\ diff' = Idle /\ getting' = FALSE
          /\ ThenDrain(new)

\* getDifference fails: nobody asks again.
DifferenceError ==
  /\ Free /\ diff.st # "idle" /\ Fault("error")
  /\ diff' = Idle /\ getting' = FALSE
  /\ stranded' = stranded \cup 1..srv
  /\ UNCHANGED <<params, queue, wait, updating, draining, have, storage, srv, sent,
                 own, pushes, state, base, skipped>>

\* The answer to getState: what the server has counted is taken as known.
\* When updates were kept meanwhile, the first of them is taken as the last one
\* known instead, and whatever is between is passed over.
LoadState ==
  LET n == state.upto IN
  /\ Free /\ state.st = "answered"
  /\ state' = Idle /\ updating' = FALSE
  /\ pts' = n /\ dated' = TRUE
  /\ base' = IF n > base THEN n ELSE base
  /\ IF queue = {}
     THEN /\ seq' = n /\ wait' = "no" /\ draining' = "no"
          /\ PutThenSave({})
          /\ UNCHANGED skipped
     ELSE /\ \E u \in queue : Earliest(u) /\ seq' = u.first
          /\ skipped' = skipped \cup (n + 1)..seq'
          /\ draining' = "first"
          /\ UNCHANGED <<wait, writes>>
  /\ UNCHANGED <<queue, getting, have, disk, server, pushes, diff, stranded>>

\* getState fails and is asked again.
StateError ==
  /\ Free /\ state.st # "idle" /\ Fault("error")
  /\ state' = Ask(0)
  /\ UNCHANGED <<params, queue, flags, draining, have, storage, srv, sent, own,
                 pushes, diff, history>>

\* new_session_created: updates may have been lost with the old session.
NewSession ==
  /\ announce /\ Free
  /\ announce' = FALSE
  /\ GetDifference(1..srv)
  /\ UNCHANGED <<params, queue, wait, draining, have, storage, server, inflight,
                 ownAnswers, base, skipped>>

-----------------------------------------------------------------------------
(* The storage thread, and the process that ends and starts again. *)

WriteNext ==
  /\ writes # <<>>
  /\ LET w == Head(writes) IN
       disk' = IF w.op = "put" THEN [disk EXCEPT !.stored = @ \cup w.ns]
               ELSE [disk EXCEPT !.seq = w.seq, !.pts = w.pts, !.dated = w.dated]
  /\ writes' = Tail(writes)
  /\ UNCHANGED <<params, queue, flags, draining, have, server, pushes, rpc, history>>

\* Only what is on disk survives; the session is a new one.
Crash ==
  /\ Fault("crash")
  /\ seq' = disk.seq /\ pts' = disk.pts /\ dated' = disk.dated
  /\ have' = disk.stored
  /\ queue' = {} /\ wait' = "no" /\ getting' = FALSE /\ updating' = FALSE
  /\ draining' = "no" /\ writes' = <<>>
  /\ diff' = Idle /\ state' = Idle
  /\ inflight' = {} /\ ownAnswers' = {} /\ announce' = TRUE
  /\ UNCHANGED <<disk, srv, sent, own, history>>

-----------------------------------------------------------------------------
(* The server. *)

Emit(u) ==
  /\ srv' = u.seq
  /\ sent' = sent \cup {u}
  /\ inflight' = inflight \cup {u}
  /\ UNCHANGED own

ServerPushes(kind) ==
  /\ kind \in Kinds \ {"own"}
  /\ LET last == IF kind = "combined" THEN srv + 2 ELSE srv + 1 IN
       /\ last <= MaxUpdates
       /\ Emit([kind |-> kind, first |-> srv + 1, seq |-> last])
  /\ UNCHANGED <<params, queue, flags, draining, have, storage, faults, ownAnswers,
                 announce, rpc, history>>

\* The user's own action is counted, and answered.
ServerActs ==
  /\ "own" \in Kinds /\ srv < MaxUpdates
  /\ srv' = srv + 1
  /\ own' = own \cup {srv + 1}
  /\ ownAnswers' = ownAnswers \cup {srv + 1}
  /\ UNCHANGED <<params, queue, flags, draining, have, storage, sent, faults,
                 inflight, announce, rpc, history>>

ServerDifference ==
  /\ diff.st = "asked"
  /\ \E n \in diff.from..srv :
       /\ n = diff.from => n = srv
       /\ diff' = [diff EXCEPT !.upto = n, !.st =
            IF n = diff.from THEN "empty" ELSE IF n = srv THEN "final" ELSE "slice"]
  /\ UNCHANGED <<params, queue, flags, draining, have, storage, server, pushes, state,
                 history>>

ServerState ==
  /\ state.st = "asked"
  /\ state' = [state EXCEPT !.st = "answered", !.upto = srv]
  /\ UNCHANGED <<params, queue, flags, draining, have, storage, server, pushes, diff,
                 history>>

\* The server loses its session, and the pushes with it.
ServerLosesSession ==
  /\ Fault("lose")
  /\ inflight' = {} /\ announce' = TRUE
  /\ UNCHANGED <<params, queue, flags, draining, have, storage, srv, sent, own,
                 ownAnswers, rpc, history>>

\* It gives up pushing to a client that was away too long.
ServerTooLong ==
  /\ Fault("tooLong")
  /\ inflight' = {[kind |-> "tooLong", first |-> 1, seq |-> srv]}
  /\ UNCHANGED <<params, queue, flags, draining, have, storage, srv, sent, own,
                 ownAnswers, announce, rpc, history>>

\* It pushes again what was not acknowledged.
ServerRepeats(u) ==
  /\ Fault("repeat") /\ u \in sent
  /\ inflight' = inflight \cup {u}
  /\ UNCHANGED <<params, queue, flags, draining, have, storage, srv, sent, own,
                 ownAnswers, announce, rpc, history>>

-----------------------------------------------------------------------------

Init ==
  /\ seq = 0 /\ pts = 0 /\ dated = FALSE
  /\ queue = {} /\ wait = "no" /\ getting = FALSE /\ updating = FALSE
  /\ draining = "no" /\ have = {}
  /\ writes = <<>>
  /\ disk = [seq |-> 0, pts |-> 0, dated |-> FALSE, stored |-> {}]
  /\ srv = 0 /\ sent = {} /\ inflight = {} /\ ownAnswers = {} /\ announce = TRUE
  /\ diff = Idle /\ state = Idle /\ faults = 0
  /\ own = {} /\ base = 0 /\ skipped = {} /\ stranded = {}

Push ==
  \E u \in inflight : PushProcessed(u) \/ PushAsks(u) \/ PushKept(u)
Drain ==
  \/ \E u \in queue : DrainNext(u) \/ DrainOld(u) \/ DrainHole(u)
  \/ DrainEnd
Stage ==
  \/ Push \/ Drain \/ Tick
  \/ \E n \in ownAnswers : OwnAnswer(n)
  \/ ApplyDifference \/ LoadState \/ NewSession
Errors == DifferenceError \/ StateError
Server ==
  \/ \E kind \in Kinds : ServerPushes(kind)
  \/ ServerActs \/ ServerDifference \/ ServerState
  \/ ServerLosesSession \/ ServerTooLong
  \/ \E u \in sent : ServerRepeats(u)

Next == Stage \/ Errors \/ Server \/ WaitElapses \/ WriteNext \/ Crash

Spec == Init /\ [][Next]_vars

-----------------------------------------------------------------------------
(* Properties. *)

\* Every variable has values of its type.
Writes ==
  [op : {"put"}, ns : SUBSET Nat]
    \cup [op : {"save"}, seq : Nat, pts : Nat, dated : BOOLEAN]
StageTypes ==
  /\ seq \in Nat /\ pts \in Nat /\ dated \in BOOLEAN
  /\ queue \subseteq Updates
  /\ wait \in {"no", "fresh", "late"}
  /\ getting \in BOOLEAN /\ updating \in BOOLEAN
  /\ draining \in {"no", "first", "some"}
  /\ have \subseteq Nat
StorageTypes ==
  /\ writes \in Seq(Writes)
  /\ disk \in [seq : Nat, pts : Nat, dated : BOOLEAN, stored : SUBSET Nat]
ServerTypes ==
  /\ srv \in Nat /\ sent \subseteq Updates /\ inflight \subseteq Updates
  /\ ownAnswers \subseteq Nat /\ announce \in BOOLEAN
  /\ diff \in [st : {"idle", "asked", "slice", "final", "empty"},
               from : Nat, upto : Nat]
  /\ state \in [st : {"idle", "asked", "answered"}, from : Nat, upto : Nat]
  /\ faults \in Nat
  /\ own \subseteq Nat /\ base \in Nat
  /\ skipped \subseteq Nat /\ stranded \subseteq Nat
TypeOK == StageTypes /\ StorageTypes /\ ServerTypes

\* Accounted for, besides the updates in got: the user's own actions, what the
\* server had counted before it told its state, and what that made us skip.
Exempt == own \cup skipped \cup 1..base
Known(got) == got \cup Exempt

\* The parameters never count an update that was not handed to the interface
\* and the storage: not after pushes out of order, nor after a difference that
\* is older than they are.
NothingLost == 1..seq \subseteq Known(have) /\ 1..pts \subseteq Known(have)

\* The same holds of the parameters on disk and the updates stored: a crash
\* at any moment makes the client ask for what it has not stored.
DiskNothingLost ==
  1..disk.seq \subseteq Known(disk.stored) /\ 1..disk.pts \subseteq Known(disk.stored)

\* Updates are kept only under a wait that the timer looks at.
QueueWatched == queue # {} => wait # "no"

\* Why nothing is lost: what is posted to the storage covers, in this order,
\* the parameters posted after it; a difference was asked from a point already
\* covered; an own action in the queue was counted by the server.
PutBefore(ws, i) ==
  UNION { ws[j].ns : j \in { k \in 1..Len(ws) : k < i /\ ws[k].op = "put" } }
Covers(ws, stored, got, known) ==
  /\ \A i \in 1..Len(ws) : ws[i].op = "save" =>
       \A n \in 1..ws[i].seq \cup 1..ws[i].pts :
         n \in stored \cup PutBefore(ws, i) \cup known
  /\ got \subseteq stored \cup PutBefore(ws, Len(ws) + 1)
WritesCover == Covers(writes, disk.stored, have, Exempt)
DifferenceCovers ==
  /\ diff.st # "idle" => 1..diff.from \subseteq Known(have)
  /\ diff.st = "empty" => diff.upto = diff.from
OwnCounted ==
  /\ ownAnswers \subseteq own
  /\ \A u \in queue \cup inflight \cup sent :
       u.kind = "own" => u.first = u.seq /\ u.seq \in own
Inv ==
  /\ TypeOK /\ NothingLost /\ DiskNothingLost /\ WritesCover /\ DifferenceCovers
  /\ OwnCounted /\ QueueWatched

-----------------------------------------------------------------------------
(* Progress. *)

\* The two threads run what is posted to them, time passes and the server
\* answers the two requests.
Fairness ==
  /\ WF_vars(Stage) /\ WF_vars(WriteNext)
  /\ WF_vars(WaitElapses) /\ WF_vars(ServerDifference \/ ServerState)

FairSpec == Spec /\ Fairness

\* An update the server numbered gets to the client and stays there, in spite of
\* crashes, or the client gave up its only copy while the answer under way was
\* too old to bring it: then nothing but a later update makes it ask again.
EveryUpdateArrives ==
  \A n \in 1..MaxUpdates : (n <= srv) ~> [](n \in Known(have) \cup stranded)

=============================================================================
