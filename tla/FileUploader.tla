----------------------------- MODULE FileUploader -----------------------------
(***************************************************************************)
(* The scheduler of uploads, in FileLoader: one of its two lanes, which    *)
(* are copies of one code (small files and the rest).  The user's thread   *)
(* posts calls to the loader thread, which starts one operation at a time; *)
(* an operation runs on the stage thread, and is cancelled on the loader's.*)
(*                                                                         *)
(* What an operation does is FileUploadOperation; here it is started,      *)
(* cancelled, finishes, and fails.                                         *)
(***************************************************************************)
EXTENDS Integers, Sequences, FiniteSets, SequencesExt

CONSTANTS
  Files,        \* locations
  MaxUploads,   \* bound: calls of uploadFile, and so operations
  MaxCancels,   \* bound: calls of cancelUploadFile
  MaxPending    \* bound: calls that wait for the loader when the user makes one

ASSUME BoundsAssumption ==
  MaxUploads \in Nat /\ MaxCancels \in Nat /\ MaxPending \in Nat

None == 0

VARIABLES
  calls,      \* fileLoaderQueue: uploads, cancellations, and ends of operations
  paths,      \* uploadOperationPaths
  queue,      \* uploadOperationQueue
  count,      \* currentUploadOperationsCount
  ops         \* the operations, in the order of their creation

VARIABLES     \* history
  asked,      \* files the user sent and did not hear of since
  lost,       \* files cancelled while their operation waited in the queue
  disturbed,  \* files of which an operation reported twice
  extras,     \* ends counted that gave back no slot
  uploads, cancels

vars == <<calls, paths, queue, count, ops, asked, lost, disturbed, extras, uploads, cancels>>

Ids == DOMAIN ops
Operations == [file : Files, state : 0..3,
               slot : BOOLEAN,     \* it was started, and its end not yet counted
               flying : BOOLEAN,   \* a request of it may still be answered
               reports : Nat]

-----------------------------------------------------------------------------
(* The user's thread. *)

Call(what, f) == [what |-> what, file |-> f, op |-> None]

\* uploadFile
CallUpload(f) ==
  /\ uploads < MaxUploads /\ Len(calls) <= MaxPending
  /\ uploads' = uploads + 1
  /\ calls' = Append(calls, Call("upload", f))
  /\ asked' = asked \cup {f}
  /\ UNCHANGED <<paths, queue, count, ops, lost, disturbed, extras, cancels>>

\* cancelUploadFile
CallCancel(f) ==
  /\ cancels < MaxCancels /\ Len(calls) <= MaxPending
  /\ cancels' = cancels + 1
  /\ calls' = Append(calls, Call("cancel", f))
  /\ UNCHANGED <<paths, queue, count, ops, asked, lost, disturbed, extras, uploads>>

-----------------------------------------------------------------------------
(* The loader thread: one call at a time. *)

Started(operations, o) ==
  [operations EXCEPT ![o].state = 1, ![o].slot = TRUE, ![o].flying = TRUE]

\* didFinishUploadingFile and didFailedUploadingFile post to the loader thread.
Report(o, rest) ==
  /\ calls' = Append(rest, [what |-> "done", file |-> ops[o].file, op |-> o])
  /\ disturbed' = IF ops[o].reports > 0 THEN disturbed \cup {ops[o].file} ELSE disturbed

\* The runnable of uploadFile.
Upload ==
  /\ calls # <<>> /\ Head(calls).what = "upload"
  /\ calls' = Tail(calls)
  /\ LET f == Head(calls).file
         o == Len(ops) + 1
         known == Append(ops, [file |-> f, state |-> 0, slot |-> FALSE, flying |-> FALSE,
                               reports |-> 0])
     IN IF paths[f] # None THEN UNCHANGED <<paths, queue, count, ops>>
        ELSE /\ paths' = [paths EXCEPT ![f] = o]
             /\ IF count < 1
                THEN count' = count + 1 /\ ops' = Started(known, o) /\ UNCHANGED queue
                ELSE queue' = Append(queue, o) /\ ops' = known /\ UNCHANGED count
  /\ UNCHANGED <<asked, lost, disturbed, extras, uploads, cancels>>

\* (Mutant: an operation that runs is stopped, and nobody is told.)
CancelQuiet ==
  /\ calls # <<>> /\ Head(calls).what = "cancel"
  /\ calls' = Tail(calls)
  /\ LET f == Head(calls).file
         o == paths[f]
     IN IF o = None THEN UNCHANGED <<queue, ops, lost>>
        ELSE /\ queue' = RemoveFirst(queue, o)
             /\ lost' = IF ops[o].state = 0 THEN lost \cup {f} ELSE lost
             /\ ops' = IF ops[o].state = 1
                       THEN [ops EXCEPT ![o].state = 2, ![o].flying = FALSE] ELSE ops
  /\ UNCHANGED <<paths, count, asked, disturbed, extras, uploads, cancels>>

\* The runnable of cancelUploadFile.  The name stays: an operation that runs
\* reports its failure, which takes the name away; one that waited in the queue
\* is only taken from it.  A request it does not know of may still be answered.
Cancel ==
  /\ calls # <<>> /\ Head(calls).what = "cancel"
  /\ LET f == Head(calls).file
         o == paths[f]
     IN IF o = None
        THEN calls' = Tail(calls) /\ UNCHANGED <<queue, ops, lost, disturbed>>
        ELSE /\ queue' = RemoveFirst(queue, o)
             /\ lost' = IF ops[o].state = 0 THEN lost \cup {f} ELSE lost
             /\ IF ops[o].state = 1
                THEN /\ \E late \in BOOLEAN :
                          ops' = [ops EXCEPT ![o].state = 2, ![o].reports = @ + 1,
                                             ![o].flying = @ /\ late]
                     /\ Report(o, Tail(calls))
                ELSE calls' = Tail(calls) /\ UNCHANGED <<ops, disturbed>>
  /\ UNCHANGED <<paths, count, asked, extras, uploads, cancels>>

\* The runnable of an end: the name is forgotten whatever operation it stands
\* for, the user is told, a slot is given back and the next operation takes it.
Done ==
  /\ calls # <<>> /\ Head(calls).what = "done"
  /\ calls' = Tail(calls)
  /\ LET f == Head(calls).file
         o == Head(calls).op
         counted == [ops EXCEPT ![o].slot = FALSE]
     IN /\ paths' = [paths EXCEPT ![f] = None]
        /\ asked' = asked \ {f}
        /\ extras' = IF ops[o].slot THEN extras ELSE extras + 1
        /\ IF count - 1 < 1 /\ queue # <<>>
           THEN count' = count /\ queue' = Tail(queue) /\ ops' = Started(counted, Head(queue))
           ELSE count' = count - 1 /\ ops' = counted /\ UNCHANGED queue
  /\ UNCHANGED <<lost, disturbed, uploads, cancels>>

-----------------------------------------------------------------------------
(* The stage thread: what the operations do. *)

\* The last answer finishes an operation, cancelled or not.
Finish(o) ==
  /\ ops[o].flying
  /\ ops' = [ops EXCEPT ![o].state = 3, ![o].reports = @ + 1, ![o].flying = FALSE]
  /\ Report(o, calls)
  /\ UNCHANGED <<paths, queue, count, asked, lost, extras, uploads, cancels>>

\* An error, or a part that cannot be read, leaves the state as it is: such an
\* operation can still be cancelled.
Fail(o) ==
  /\ ops[o].flying
  /\ ops' = [ops EXCEPT ![o].reports = @ + 1, ![o].flying = FALSE]
  /\ Report(o, calls)
  /\ UNCHANGED <<paths, queue, count, asked, lost, extras, uploads, cancels>>

\* An answer to a cancelled operation that is not the last has no effect.
Ignored(o) ==
  /\ ops[o].flying /\ ops[o].state = 2
  /\ ops' = [ops EXCEPT ![o].flying = FALSE]
  /\ UNCHANGED <<calls, paths, queue, count, asked, lost, disturbed, extras, uploads, cancels>>

-----------------------------------------------------------------------------

Init ==
  /\ calls = <<>> /\ paths = [f \in Files |-> None] /\ queue = <<>> /\ count = 0
  /\ ops = <<>> /\ asked = {} /\ lost = {} /\ disturbed = {} /\ extras = 0
  /\ uploads = 0 /\ cancels = 0

User    == \E f \in Files : CallUpload(f) \/ CallCancel(f)
Loader  == Upload \/ Cancel \/ Done
Ends(o) == Finish(o) \/ Fail(o) \/ Ignored(o)

Next == User \/ Loader \/ \E o \in Ids : Ends(o)

Spec == Init /\ [][Next]_vars

\* The loader thread goes on, and an operation that runs ends.
Fairness == WF_vars(Loader) /\ \A o \in 1..MaxUploads : WF_vars(o \in Ids /\ Ends(o))

FairSpec == Spec /\ Fairness

-----------------------------------------------------------------------------
(* Properties. *)

\* Every variable has values of its type; what waits has not been started.
TypeOK ==
  /\ ops \in Seq(Operations) /\ paths \in [Files -> 0..Len(ops)]
  /\ queue \in Seq({ o \in Ids : ops[o].state = 0 }) /\ IsInjective(queue) /\ count \in Int
  /\ calls \in Seq([what : {"upload", "cancel", "done"}, file : Files, op : 0..Len(ops)])
  /\ asked \subseteq Files /\ lost \subseteq Files /\ disturbed \subseteq Files
  /\ extras \in Nat /\ uploads \in 0..MaxUploads /\ cancels \in 0..MaxCancels

\* One upload runs at a time, and one more for every end counted too many, which
\* takes an operation that reported twice.
Running == { o \in Ids : ops[o].state = 1 /\ ops[o].reports = 0 }
SlotsRespected ==
  /\ Cardinality(Running) <= 1 + extras
  /\ disturbed = {} => extras = 0 /\ Cardinality(Running) <= count

\* A file has one upload at a time, unless one of its operations reported twice.
OneSender ==
  \A f \in Files \ disturbed : Cardinality({ o \in Running : ops[o].file = f }) <= 1

\* A name that is taken stands for an operation that is on its way: it waits, or
\* it runs, or its end waits to be counted.  A file cancelled while it waited
\* keeps its name for good, and cannot be sent again.
OnItsWay(o) ==
  \/ Contains(queue, o)
  \/ ops[o].state = 1 /\ ops[o].reports = 0
  \/ \E i \in DOMAIN calls : calls[i].what = "done" /\ calls[i].op = o
NamesAreLive == \A f \in Files \ lost : paths[f] # None => OnItsWay(paths[f])

\* A file the user sends is reported sent or failed, but for one that was
\* cancelled while it waited.
EveryUploadAnswered == \A f \in Files : (f \in asked) ~> (f \notin asked \/ f \in lost)

\* What the uploads' lane keeps in every state: types, its one slot, one sender
\* of a file, and the names it gives.
UploadLaneSafe == TypeOK /\ SlotsRespected /\ OneSender /\ NamesAreLive
=============================================================================
