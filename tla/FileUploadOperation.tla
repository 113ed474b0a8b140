-------------------------- MODULE FileUploadOperation --------------------------
(***************************************************************************)
(* The upload of one file, part after part, while the file may still be    *)
(* growing under a conversion; what is kept of it across a restart of the  *)
(* process; its calls from the loader thread against its steps on the      *)
(* stage thread.                                                           *)
(*                                                                         *)
(* Encryption and the digest follow the parts and are left out.  Sizes     *)
(* count units; a part is one or two of them.                              *)
(***************************************************************************)
EXTENDS Integers, Sequences, FiniteSets

CONSTANTS
  Size,       \* units in the file when it is complete
  Estimates,  \* estimatedSize: what a conversion says its file will be; 0: no conversion
  WideFrom,   \* files larger than this have parts of two units
  BigFrom,    \* files larger than this are sent with saveBigFilePart
  MaxErrors,  \* bound: answers with an error
  MaxOps,     \* bound: operations on the file
  MaxCrashes  \* bound: ends of the process

SizesAssumption ==
  /\ Size \in Nat \ {0} /\ Estimates \subseteq Nat
  /\ WideFrom \in Nat /\ BigFrom \in Nat
  /\ MaxErrors \in Nat /\ MaxOps \in Nat \ {0} /\ MaxCrashes \in Nat

VARIABLES     \* the world
  estimate,   \* the estimate of this file, 0 for a file that is there; never changes
  length,     \* units of the file on disk
  announced,  \* the conversion has ended, and said so
  info,       \* preferences uploadinfo: its keys _size, _id, _uploaded
  server      \* parts the server has

VARIABLES     \* the operation
  state,      \* 0: new, 1: started, 2: cancelled, 3: finished
  posts,      \* its runnables on the stage queue
  checked,    \* the stage thread is in startUploadRequest, past the test of state
  estimating, \* estimatedSize # 0
  opened,     \* stream # null
  total,      \* totalFileSize
  manner,     \* uploadChunkSize, in units, and isBigFile
  part,       \* currentPartNum
  uploaded,   \* currentUploaded, and the position of the stream
  id,         \* currentFileId
  last,       \* isLastPart
  token,      \* requestToken # 0
  times,      \* saveInfoTimes
  sending     \* requests not answered

VARIABLES     \* history
  finished,   \* {} or the result of didFinishUploadingFile, of this operation
  failures,   \* didFailedUploadingFile, of this operation
  late,       \* a cancellation came too late for a request
  ahead,      \* it was started when a check of the conversion waited to be run
  odd,        \* "forked": two requests of an operation were under way; "changed":
              \* one went on from parts of another manner; "revived": one failed
              \* and went on
  errors, operations, crashes

world  == <<estimate, length, announced>>
bounds == <<errors, operations, crashes>>
vars == <<world, info, server, state, posts, checked, estimating, opened, total,
          manner, part, uploaded, id, last, token, times, sending, finished,
          failures, late, ahead, odd, bounds>>

-----------------------------------------------------------------------------

NoInfo == [size |-> 0, id |-> 0, uploaded |-> 0]

Manner(n) == [chunk |-> IF n > WideFrom THEN 2 ELSE 1, big |-> n > BigFrom]
PartsOf(n, chunk) == (n + chunk - 1) \div chunk
Least(a, b) == IF a < b THEN a ELSE b

\* (Mutant: the part about to be sent is counted.)
StoredAhead == uploaded + manner.chunk

\* What a save stores as _uploaded: what was answered, for only one part at a
\* time is under way.
Stored == uploaded

Cleanup == info' = NoInfo

\* didFailedUploadingFile and cleanup; the state is left as it is.
Fails ==
  /\ failures' = failures + 1
  /\ Cleanup

-----------------------------------------------------------------------------
(* The conversion of a video, and the calls of the loader thread. *)

Live == finished = {} /\ failures = 0

\* checkNewDataAvailable(0): there is more of the file.
Grow ==
  /\ estimate # 0 /\ length < Size /\ Live
  /\ length' = length + 1
  /\ posts' = Append(posts, "check")
  /\ UNCHANGED <<estimate, announced, info, server, state, checked, estimating, opened,
                 total, manner, part, uploaded, id, last, token, times, sending,
                 finished, failures, late, ahead, odd, bounds>>

\* checkNewDataAvailable(finalSize): that was all.
Announce ==
  /\ estimate # 0 /\ length = Size /\ ~announced /\ Live
  /\ announced' = TRUE
  /\ posts' = Append(posts, "final")
  /\ UNCHANGED <<estimate, length, info, server, state, checked, estimating, opened,
                 total, manner, part, uploaded, id, last, token, times, sending,
                 finished, failures, late, ahead, odd, bounds>>

\* start
Start ==
  /\ state = 0
  /\ state' = 1
  /\ posts' = Append(posts, "start")
  /\ ahead' = (ahead \/ posts # <<>>)
  /\ UNCHANGED <<world, info, server, checked, estimating, opened, total, manner, part,
                 uploaded, id, last, token, times, sending, finished, failures,
                 late, odd, bounds>>

\* cancel, on the loader thread: the request it knows of is taken back, unless
\* its answer is already on its way to the stage thread.
Cancel ==
  /\ state = 1
  /\ state' = 2
  /\ \/ UNCHANGED sending
     \/ token /\ \E r \in sending : sending' = sending \ {r}
  /\ late' = (checked \/ sending' # {})
  /\ Fails
  /\ UNCHANGED <<world, server, posts, checked, estimating, opened, total, manner, part,
                 uploaded, id, last, token, times, finished, ahead, odd, bounds>>

-----------------------------------------------------------------------------
(* The stage thread. *)

\* startUploadRequest begins with a test of the state, and of nothing else.
TryRequest ==
  /\ checked' = (state' = 1)
  /\ odd' = IF state' # 1 THEN odd
            ELSE odd \cup (IF sending' # {} THEN {"forked"} ELSE {})
                     \cup (IF failures > 0 THEN {"revived"} ELSE {})

\* The runnable of start.
RunStart ==
  /\ ~checked /\ posts # <<>> /\ Head(posts) = "start"
  /\ posts' = Tail(posts)
  /\ UNCHANGED <<state, sending>>
  /\ TryRequest
  /\ UNCHANGED <<world, info, server, estimating, opened, total, manner, part, uploaded,
                 id, last, token, times, finished, failures, late, ahead,
                 bounds>>

\* (Mutant: the end of the conversion is noted, and no request made.)
RunCheckQuiet ==
  /\ ~checked /\ posts # <<>> /\ Head(posts) \in {"check", "final"}
  /\ posts' = Tail(posts)
  /\ IF Head(posts) = "final" /\ estimating
     THEN /\ estimating' = FALSE /\ total' = Size
          /\ info' = IF opened THEN [size |-> Size, id |-> id, uploaded |-> 0] ELSE info
     ELSE UNCHANGED <<estimating, total, info>>
  /\ UNCHANGED <<world, server, state, sending, checked, odd, opened, manner, part,
                 uploaded, id, last, token, times, finished, failures, late, ahead, bounds>>

\* The runnable of checkNewDataAvailable.
RunCheck ==
  /\ ~checked /\ posts # <<>> /\ Head(posts) \in {"check", "final"}
  /\ posts' = Tail(posts)
  /\ UNCHANGED <<state, sending>>
  /\ IF Head(posts) = "final" /\ estimating
     THEN /\ estimating' = FALSE /\ total' = Size
          /\ info' = IF opened THEN [size |-> Size, id |-> id, uploaded |-> 0] ELSE info
     ELSE UNCHANGED <<estimating, total, info>>
  /\ IF token THEN UNCHANGED <<checked, odd>> ELSE TryRequest
  /\ UNCHANGED <<world, server, opened, manner, part, uploaded, id, last, token, times,
                 finished, failures, late, ahead, bounds>>

\* The first request opens the file.  What an earlier operation stored is gone
\* on with if the size is the same, unless it is out of date: then its name is
\* used again from the first part on.
Opened(expired) ==
  LET size == IF estimating THEN estimate ELSE length
      m == Manner(size)
      same == ~estimating /\ info.size = size /\ (expired \/ info.uploaded > 0)
      at == IF same /\ ~expired THEN info.uploaded ELSE 0
  IN [total |-> size, manner |-> m, times |-> times, at |-> at, part |-> at \div m.chunk,
      id |-> IF same THEN info.id ELSE operations,
      info |-> IF same \/ estimating THEN info
               ELSE [size |-> size, id |-> operations, uploaded |-> 0]]

\* The later ones save how far it is: one in four, or a big file at its whole
\* megabytes, which are two units here.
Saved ==
  LET now == IF times >= 4 THEN 0 ELSE times
      saves == IF manner.big THEN uploaded % 2 = 0 ELSE now = 0
  IN [total |-> total, manner |-> manner, at |-> uploaded, part |-> part, id |-> id,
      times |-> IF estimating THEN times ELSE now + 1,
      info |-> IF ~estimating /\ saves THEN [info EXCEPT !.uploaded = Stored] ELSE info]

\* A part that a conversion has not completed is waited for.
FallsShort(at, chunk) == estimating /\ at + chunk > length

\* The part read at an offset is the last one.
IsLast(c, n) ==
  n # c.manner.chunk \/ (~estimating /\ PartsOf(c.total, c.manner.chunk) = c.part + 1)

Odd(c) ==
  odd \cup (IF \E s \in server : s.id = c.id /\ s.manner # c.manner THEN {"changed"} ELSE {})

\* The rest of startUploadRequest, which a cancellation does not stop.  Nothing
\* is left to read when a file ends with a part and its end was told after that.
Request ==
  /\ checked /\ checked' = FALSE
  /\ \E c \in IF opened THEN {Saved} ELSE { Opened(expired) : expired \in BOOLEAN } :
       LET n == Least(c.manner.chunk, length - c.at)
           r == [id |-> c.id, part |-> c.part, at |-> c.at, len |-> n, manner |-> c.manner]
       IN
       /\ opened' = TRUE /\ total' = c.total /\ manner' = c.manner
       /\ part' = c.part /\ id' = c.id /\ times' = c.times
       /\ odd' = Odd(c)
       /\ IF FallsShort(c.at, c.manner.chunk)
          THEN /\ info' = c.info /\ uploaded' = c.at
               /\ UNCHANGED <<sending, token, last, failures>>
          ELSE IF n <= 0
          THEN /\ Fails /\ uploaded' = c.at /\ last' = TRUE
               /\ UNCHANGED <<sending, token>>
          ELSE /\ info' = c.info /\ uploaded' = c.at + n
               /\ last' = (last \/ IsLast(c, n))
               /\ sending' = sending \cup {r} /\ token' = TRUE
               /\ UNCHANGED failures
  /\ UNCHANGED <<world, server, state, posts, estimating, finished, late, ahead, bounds>>

\* A part is on the server.
Answer(r) ==
  /\ ~checked
  /\ sending' = sending \ {r} /\ server' = server \cup {r}
  /\ token' = FALSE /\ part' = part + 1
  /\ IF last
     THEN /\ state' = 3 /\ checked' = FALSE
          /\ finished' = finished \cup {[id |-> id, parts |-> part + 1]}
          /\ Cleanup /\ UNCHANGED odd
     ELSE /\ UNCHANGED <<state, finished, info>>
          /\ TryRequest
  /\ UNCHANGED <<world, posts, estimating, opened, total, manner, uploaded, id, last,
                 times, failures, late, ahead, bounds>>

\* A part is refused, or not answered any more.
Reject(r) ==
  /\ ~checked /\ errors < MaxErrors /\ errors' = errors + 1
  /\ sending' = sending \ {r} /\ token' = FALSE
  /\ Fails
  /\ UNCHANGED <<world, server, state, posts, checked, estimating, opened, total, manner,
                 part, uploaded, id, last, times, finished, late, ahead, odd,
                 operations, crashes>>

-----------------------------------------------------------------------------
(* From one operation to the next. *)

NewOperation ==
  /\ state' = 0 /\ posts' = <<>> /\ checked' = FALSE /\ opened' = FALSE
  /\ total' = 0 /\ manner' = Manner(0) /\ part' = 0 /\ uploaded' = 0 /\ id' = 0
  /\ last' = FALSE /\ token' = FALSE /\ times' = 0 /\ sending' = {}
  /\ finished' = {} /\ failures' = 0 /\ late' = FALSE
  /\ operations' = operations + 1

\* The file is sent again after its operation came to an end: the size of a
\* converted file is known by then.
Again ==
  /\ operations < MaxOps /\ ~Live /\ ~checked /\ posts = <<>> /\ sending = {}
  /\ estimate = 0 \/ announced
  /\ NewOperation
  /\ estimating' = FALSE
  /\ UNCHANGED <<world, info, server, ahead, odd, errors, crashes>>

\* The process ends; a conversion that had not ended is done anew.
Crash ==
  /\ crashes < MaxCrashes /\ crashes' = crashes + 1 /\ operations < MaxOps
  /\ NewOperation
  /\ estimating' = (estimate # 0 /\ ~announced)
  /\ length' = IF estimating' THEN 0 ELSE length
  /\ UNCHANGED <<estimate, announced, info, server, ahead, odd, errors>>

-----------------------------------------------------------------------------

Init ==
  /\ estimate \in Estimates
  /\ length = IF estimate = 0 THEN Size ELSE 0
  /\ announced = FALSE /\ info = NoInfo /\ server = {}
  /\ state = 0 /\ posts = <<>> /\ checked = FALSE
  /\ estimating = (estimate # 0) /\ opened = FALSE
  /\ total = 0 /\ manner = Manner(0) /\ part = 0 /\ uploaded = 0 /\ id = 0
  /\ last = FALSE /\ token = FALSE /\ times = 0 /\ sending = {}
  /\ finished = {} /\ failures = 0 /\ late = FALSE /\ ahead = FALSE
  /\ odd = {}
  /\ errors = 0 /\ operations = 1 /\ crashes = 0

Converter == Grow \/ Announce
Loader    == Start \/ Cancel
Stage     == RunStart \/ RunCheck \/ Request \/ \E r \in sending : Answer(r)

Next == Converter \/ Loader \/ Stage \/ (\E r \in sending : Reject(r)) \/ Again \/ Crash

Spec == Init /\ [][Next]_vars

\* The conversion goes on, the operation is started, the stage thread runs what
\* is posted to it, and parts are answered.
Fairness == WF_vars(Converter) /\ WF_vars(Start) /\ WF_vars(Stage)

FairSpec == Spec /\ Fairness

-----------------------------------------------------------------------------
(* Properties. *)

Parts == [id : 0..MaxOps, part : 0..Size, at : 0..Size, len : 1..Size,
          manner : [chunk : 1..2, big : BOOLEAN]]

\* Every variable has values of its type.
TypeOK ==
  /\ estimate \in Estimates /\ length \in 0..Size /\ announced \in BOOLEAN
  /\ info \in [size : 0..Size, id : 0..MaxOps, uploaded : 0..Size]
  /\ server \subseteq Parts /\ sending \subseteq Parts
  /\ state \in 0..3 /\ posts \in Seq({"start", "check", "final"})
  /\ checked \in BOOLEAN /\ estimating \in BOOLEAN /\ opened \in BOOLEAN
  /\ total \in Nat /\ manner \in [chunk : 1..2, big : BOOLEAN]
  /\ part \in Nat /\ uploaded \in 0..Size /\ id \in 0..MaxOps
  /\ last \in BOOLEAN /\ token \in BOOLEAN /\ times \in 0..4
  /\ finished \subseteq [id : 0..MaxOps, parts : Nat] /\ failures \in Nat
  /\ late \in BOOLEAN /\ ahead \in BOOLEAN
  /\ odd \subseteq {"forked", "changed", "revived"}
  /\ errors \in 0..MaxErrors /\ operations \in 1..MaxOps /\ crashes \in 0..MaxCrashes

\* The parts 0 to n - 1 under a name are the file up to an offset, in order and
\* of one manner.
Backed(name, n, upto) ==
  \E m \in [chunk : 1..2, big : BOOLEAN] :
    /\ n = PartsOf(upto, m.chunk)
    /\ \A k \in 0..(n - 1) :
         /\ \E s \in server : s.id = name /\ s.part = k
         /\ \A s \in server : (s.id = name /\ s.part = k) =>
              s.at = k * m.chunk /\ s.len = Least(m.chunk, Size - s.at) /\ s.manner = m

\* An upload reported finished is on the server whole, under the name and with
\* the number of parts reported, whatever was resumed and however the file grew:
\* unless an operation had two requests under way at once, or went on from parts
\* sent in another manner, or went on after it had failed.
FinishedIsWhole ==
  odd = {} => \A f \in finished : Backed(f.id, f.parts, Size)

\* What is stored to be resumed, with a size, is on the server.
ResumeIsBacked ==
  (info.size > 0 /\ info.uploaded > 0 /\ odd = {}) =>
    \E n \in 0..Size : Backed(info.id, n, info.uploaded)

\* An operation that failed does not finish, unless a cancellation came too late
\* for a request.
OneOutcome == (finished # {} /\ failures > 0) => late \/ odd # {}

\* An operation sends one part at a time, unless it was started when the stage
\* thread had yet to look at what its conversion had told it; a file that is
\* there is sent with none of the oddities.
OneAtATime ==
  /\ "forked" \in odd => ahead
  /\ estimate = 0 => odd = {}

\* A started upload ends.
EveryUploadEnds == (state = 1) ~> (~Live \/ state = 0)

\* What an upload keeps in every state: types, the file on the server, what can be
\* resumed, its one outcome, and its one request.
UploadSafe == TypeOK /\ FinishedIsWhole /\ ResumeIsBacked /\ OneOutcome /\ OneAtATime
=============================================================================
