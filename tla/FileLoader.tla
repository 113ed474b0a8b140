------------------------------ MODULE FileLoader ------------------------------
(***************************************************************************)
(* The scheduler of downloads: one of its three lanes, which are copies of *)
(* one code (audio, photos, the rest).  The user's thread posts calls to   *)
(* the loader thread; operations live on the stage thread and report back  *)
(* to both.  A lane runs one operation at a time, or up to three when the  *)
(* load is forced.                                                         *)
(*                                                                         *)
(* What an operation does is FileLoadOperation; here it is started,        *)
(* cancelled, finishes, and fails, perhaps more than once.                 *)
(***************************************************************************)
EXTENDS Integers, Sequences, FiniteSets, SequencesExt

CONSTANTS
  Files,        \* names of files
  Forced,       \* how many run when the load is forced: 3 in the code
  MaxLoads,     \* bound: calls of loadFile, and so operations
  MaxCancels,   \* bound: calls of cancelLoadFile
  MaxReports,   \* bound: reports of one operation
  MaxPending    \* bound: calls that wait for the loader when the user makes one

ASSUME BoundsAssumption ==
  MaxLoads \in Nat /\ MaxCancels \in Nat /\ MaxReports \in Nat \ {0}
  /\ MaxPending \in Nat /\ Forced \in Nat \ {0}

None == 0

VARIABLES
  calls,      \* fileLoaderQueue: loads, cancellations, and ends of operations
  paths,      \* loadOperationPaths
  queue,      \* loadOperationQueue
  count,      \* currentLoadOperationsCount
  ops,        \* the operations, in the order of their creation
  cancelling, \* operations whose cancellation is on the stage queue
  ending      \* the operation in the middle of didFinishLoadingFile, or None

VARIABLES     \* history
  asked,      \* files loaded by the user and not heard of since
  dropped,    \* files of which a load found an operation that had reported
  disturbed,  \* files cancelled, or of which an operation reported twice
  extras,     \* ends counted that gave back no slot
  loads, cancels

vars == <<calls, paths, queue, count, ops, cancelling, ending, asked,
          dropped, disturbed, extras, loads, cancels>>

lane   == <<paths, queue, count>>
ghosts == <<asked, dropped, disturbed, extras>>

Ids == DOMAIN ops
Operations == [file : Files, state : {"idle", "downloading", "failed", "finished"},
               force : BOOLEAN,    \* isForceRequest
               slot : BOOLEAN,     \* it was started, and its end not yet counted
               reports : Nat]

\* A new operation does not know that its load is forced: only one already in
\* the queue is told.
NewOperation(f) == [file |-> f, state |-> "idle", force |-> FALSE, slot |-> FALSE, reports |-> 0]

Limit(force) == IF force THEN Forced ELSE 1

-----------------------------------------------------------------------------
(* The user's thread. *)

\* loadFile
CallLoad(f, force) ==
  /\ loads < MaxLoads /\ Len(calls) <= MaxPending /\ loads' = loads + 1
  /\ calls' = Append(calls, [what |-> "load", file |-> f, force |-> force, op |-> None])
  /\ asked' = asked \cup {f}
  /\ UNCHANGED <<lane, ops, cancelling, ending, dropped, disturbed, extras, cancels>>

\* cancelLoadFile
CallCancel(f) ==
  /\ cancels < MaxCancels /\ Len(calls) <= MaxPending /\ cancels' = cancels + 1
  /\ calls' = Append(calls, [what |-> "cancel", file |-> f, force |-> FALSE, op |-> None])
  /\ disturbed' = disturbed \cup {f}
  /\ UNCHANGED <<lane, ops, cancelling, ending, asked, dropped, extras, loads>>

-----------------------------------------------------------------------------
(* The loader thread: one call at a time. *)

DoneCall(o) == [what |-> "done", file |-> ops[o].file, force |-> FALSE, op |-> o]

\* start, after the rest of the call: a file that is already there is finished
\* at once, on this thread.
Start(o, known, rest) ==
  \/ /\ ops' = [known EXCEPT ![o].state = "downloading", ![o].slot = TRUE]
     /\ calls' = rest /\ UNCHANGED asked
  \/ /\ ops' = [known EXCEPT ![o].state = "finished", ![o].slot = TRUE, ![o].reports = 1]
     /\ calls' = Append(rest, [what |-> "done", file |-> known[o].file, force |-> FALSE, op |-> o])
     /\ asked' = asked \ {known[o].file}

\* A file that is loading is at most moved to the front of the queue.
LoadKnown(f, force, o) ==
  /\ IF force /\ Contains(queue, o)
     THEN /\ queue' = <<o>> \o RemoveFirst(queue, o)
          /\ ops' = [ops EXCEPT ![o].force = TRUE]
     ELSE UNCHANGED <<queue, ops>>
  /\ calls' = Tail(calls)
  /\ dropped' = IF ops[o].reports > 0 THEN dropped \cup {f} ELSE dropped
  /\ UNCHANGED <<paths, count, asked>>

\* (Mutant: the new operation is not noted under its name.)
LoadNewUnnamed(f, force) ==
  LET o == Len(ops) + 1
      known == Append(ops, NewOperation(f))
  IN /\ UNCHANGED <<paths, dropped>>
     /\ IF count < Limit(force)
        THEN /\ count' = count + 1
             /\ Start(o, known, Tail(calls))
             /\ UNCHANGED queue
        ELSE /\ queue' = IF force THEN <<o>> \o queue ELSE Append(queue, o)
             /\ ops' = known /\ calls' = Tail(calls)
             /\ UNCHANGED <<count, asked>>

\* A new operation starts if there is room for one of its kind, or waits: in
\* front of the others when it is forced.
LoadNew(f, force) ==
  LET o == Len(ops) + 1
      known == Append(ops, NewOperation(f))
  IN /\ paths' = [paths EXCEPT ![f] = o]
     /\ UNCHANGED dropped
     /\ IF count < Limit(force)
        THEN /\ count' = count + 1
             /\ Start(o, known, Tail(calls))
             /\ UNCHANGED queue
        ELSE /\ queue' = IF force THEN <<o>> \o queue ELSE Append(queue, o)
             /\ ops' = known /\ calls' = Tail(calls)
             /\ UNCHANGED <<count, asked>>

\* The runnable of loadFile.
Load ==
  /\ calls # <<>> /\ Head(calls).what = "load"
  /\ LET f == Head(calls).file
         force == Head(calls).force
     IN IF paths[f] # None THEN LoadKnown(f, force, paths[f]) ELSE LoadNew(f, force)
  /\ UNCHANGED <<cancelling, ending, disturbed, extras, loads, cancels>>

\* (Mutant: an operation that waits is dropped and not told.)
CancelSilent ==
  /\ calls # <<>> /\ Head(calls).what = "cancel"
  /\ calls' = Tail(calls)
  /\ LET f == Head(calls).file
         o == paths[f]
     IN IF o = None THEN UNCHANGED <<paths, queue, cancelling>>
        ELSE /\ paths' = [paths EXCEPT ![f] = None]
             /\ queue' = RemoveFirst(queue, o)
             /\ cancelling' = IF Contains(queue, o) THEN cancelling ELSE cancelling \cup {o}
  /\ UNCHANGED <<count, ops, ending, ghosts, loads, cancels>>

\* The runnable of cancelLoadFile: the operation hears of it on the stage thread.
Cancel ==
  /\ calls # <<>> /\ Head(calls).what = "cancel"
  /\ calls' = Tail(calls)
  /\ LET f == Head(calls).file
         o == paths[f]
     IN IF o = None THEN UNCHANGED <<paths, queue, cancelling>>
        ELSE /\ paths' = [paths EXCEPT ![f] = None]
             /\ queue' = RemoveFirst(queue, o)
             /\ cancelling' = cancelling \cup {o}
  /\ UNCHANGED <<count, ops, ending, ghosts, loads, cancels>>

\* The runnable of checkDownloadQueue: the name is forgotten whatever operation
\* it now stands for, a slot is given back, and the first of the queue takes it
\* if there is room for one of its kind.
Done ==
  /\ calls # <<>> /\ Head(calls).what = "done"
  /\ LET o == Head(calls).op
         counted == [ops EXCEPT ![o].slot = FALSE]
     IN /\ paths' = [paths EXCEPT ![Head(calls).file] = None]
        /\ extras' = IF ops[o].slot THEN extras ELSE extras + 1
        /\ IF queue # <<>> /\ count - 1 < Limit(ops[Head(queue)].force)
           THEN /\ count' = count
                /\ queue' = Tail(queue)
                /\ Start(Head(queue), counted, Tail(calls))
           ELSE /\ count' = count - 1
                /\ ops' = counted /\ calls' = Tail(calls)
                /\ UNCHANGED <<queue, asked>>
  /\ UNCHANGED <<cancelling, ending, dropped, disturbed, loads, cancels>>

-----------------------------------------------------------------------------
(* The stage thread: what the operations do. *)

Reported(o) ==
  /\ disturbed' = IF ops[o].reports > 0 THEN disturbed \cup {ops[o].file} ELSE disturbed
  /\ asked' = asked \ {ops[o].file}
  /\ UNCHANGED <<lane, dropped, extras, loads, cancels>>

\* onFinishLoadingFile: the user is told first ...
Finish(o) ==
  /\ ending = None /\ ops[o].state = "downloading"
  /\ ops' = [ops EXCEPT ![o].state = "finished", ![o].reports = @ + 1]
  /\ ending' = o
  /\ Reported(o)
  /\ UNCHANGED <<calls, cancelling>>

\* ... and the loader thread after that.
FinishPosts ==
  /\ ending # None
  /\ calls' = Append(calls, DoneCall(ending))
  /\ ending' = None
  /\ UNCHANGED <<lane, ops, cancelling, ghosts, loads, cancels>>

\* A failure leaves the operation as it is: its other parts may fail as well.
Fail(o) ==
  /\ ending = None /\ ops[o].state = "downloading" /\ ops[o].reports < MaxReports
  /\ ops' = [ops EXCEPT ![o].reports = @ + 1]
  /\ calls' = Append(calls, DoneCall(o))
  /\ Reported(o)
  /\ UNCHANGED <<cancelling, ending>>

\* The runnable of FileLoadOperation.cancel: an operation that waited in the
\* queue reports an end as well.
Cancelled(o) ==
  /\ ending = None /\ o \in cancelling
  /\ cancelling' = cancelling \ {o}
  /\ IF ops[o].state \in {"failed", "finished"}
     THEN UNCHANGED <<calls, lane, ops, ghosts, loads, cancels>>
     ELSE /\ ops' = [ops EXCEPT ![o].state = "failed", ![o].reports = @ + 1]
          /\ calls' = Append(calls, DoneCall(o))
          /\ Reported(o)
  /\ UNCHANGED ending

-----------------------------------------------------------------------------

Init ==
  /\ calls = <<>> /\ paths = [f \in Files |-> None] /\ queue = <<>> /\ count = 0
  /\ ops = <<>> /\ cancelling = {} /\ ending = None
  /\ asked = {} /\ dropped = {} /\ disturbed = {} /\ extras = 0
  /\ loads = 0 /\ cancels = 0

User   == \E f \in Files : CallCancel(f) \/ \E force \in BOOLEAN : CallLoad(f, force)
Loader == Load \/ Cancel \/ Done
Ends(o) == Finish(o) \/ Fail(o) \/ Cancelled(o)

Next == User \/ Loader \/ FinishPosts \/ \E o \in Ids : Ends(o)

Spec == Init /\ [][Next]_vars

\* The threads go on, and an operation that runs ends.
Fairness ==
  /\ WF_vars(Loader) /\ WF_vars(FinishPosts)
  /\ \A o \in 1..MaxLoads : WF_vars(o \in Ids /\ Ends(o))

FairSpec == Spec /\ Fairness

-----------------------------------------------------------------------------
(* Properties. *)

\* Every variable has values of its type.
TypeOK ==
  /\ ops \in Seq(Operations) /\ paths \in [Files -> 0..Len(ops)]
  /\ queue \in Seq(Ids) /\ IsInjective(queue) /\ count \in Int
  /\ cancelling \subseteq Ids /\ ending \in 0..Len(ops)
  /\ calls \in Seq([what : {"load", "cancel", "done"}, file : Files, force : BOOLEAN,
                    op : 0..Len(ops)])
  /\ asked \subseteq Files /\ dropped \subseteq Files /\ disturbed \subseteq Files
  /\ extras \in Nat /\ loads \in 0..MaxLoads /\ cancels \in 0..MaxCancels

\* The lane runs what it may force at most, and one more for every end it counted
\* too many.  That takes a file cancelled or an operation that reported twice:
\* without them no operation runs uncounted.
Running == { o \in Ids : ops[o].state = "downloading" /\ ops[o].reports = 0 }
SlotsRespected ==
  /\ Cardinality(Running) <= Forced + extras
  /\ disturbed = {} => extras = 0 /\ Cardinality(Running) <= count

\* A file is written by one operation at a time, unless it was cancelled or an
\* operation on it reported twice.
OneWriter ==
  \A f \in Files \ disturbed : Cardinality({ o \in Running : ops[o].file = f }) <= 1

\* When operations wait, one that holds a slot is there to wake the lane.
LaneWatched == queue # <<>> => \E o \in Ids : ops[o].slot

\* An operation that waits in the queue is started, or cancelled.
EveryOperationStarts ==
  \A o \in 1..MaxLoads :
    (o \in Ids /\ ops[o].state = "idle") ~> (o \in Ids /\ ops[o].state # "idle")

\* A load of the user is answered, but for one that found an operation which had
\* told the user of its end and not yet the loader.
EveryLoadAnswered == \A f \in Files : (f \in asked) ~> (f \notin asked \/ f \in dropped)

\* What the downloads' lane keeps in every state: types, the three slots, one
\* writer of a file, and somebody to wake those that wait.
LaneSafe == TypeOK /\ SlotsRespected /\ OneWriter /\ LaneWatched

\* What waits in the lane is started or cancelled, and every load is answered.
LaneMoves == EveryOperationStarts /\ EveryLoadAnswered
=============================================================================
