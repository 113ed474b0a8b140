-------------------------- MODULE FileLoadOperation --------------------------
(***************************************************************************)
(* One download at a time into a file: parts asked for in parallel,        *)
(* answered in any order and written in sequence; the decryption vector    *)
(* kept beside the data; resumption from what an earlier operation or an   *)
(* earlier run of the process left on disk.                                *)
(*                                                                         *)
(* All handlers run on the stage thread, but start, which the loader       *)
(* thread runs before any of them.  Sizes and offsets count units of 1024  *)
(* bytes; a part is Chunk units.                                           *)
(***************************************************************************)
EXTENDS Integers, Sequences, FiniteSets

CONSTANTS
  Size,         \* units in the file
  Chunk,        \* downloadChunkSize
  MaxRequests,  \* maxDownloadRequests
  Kinds,        \* kinds of file in use, a subset of AllKinds
  Faults,       \* faults in use, a subset of AllFaults
  MaxFaults,    \* bound: faults
  MaxStarts     \* bound: operations on the file, one after another

\* known: totalBytesCount # 0; secret: the file has a key; moved: it is not
\* in the datacenter its location names; ragged: its last unit is not full.
AllKinds  == [known : BOOLEAN, secret : BOOLEAN, moved : BOOLEAN, ragged : BOOLEAN]
AllFaults == {"error", "throw", "crash", "cancel"}

KindsAssumption == Kinds \subseteq AllKinds /\ Faults \subseteq AllFaults
SizesAssumption ==
  /\ Size \in Nat \ {0} /\ Chunk \in Nat \ {0} /\ MaxRequests \in Nat \ {0}
  /\ MaxFaults \in Nat /\ MaxStarts \in Nat

VARIABLES       \* the file, and what is on disk of it
  kind,         \* never changes
  temp,         \* cacheFileTemp: which of its units are right
  ivFile,       \* cacheIvTemp: the offset its vector is good for
  final         \* cacheFileFinal: {} or {its units}

VARIABLES       \* the operation
  state,        \* "none" before there is one
  downloaded,   \* downloadedBytes
  nextOffset,   \* nextDownloadOffset
  here,         \* datacenter_id is where the file is
  iv,           \* the offset the vector in memory is good for
  stream,       \* fileOutputStream # null, and fiv # null if there is a key
  requests,     \* requestInfos
  delayed       \* delayedRequestInfos

VARIABLES       \* history
  finishes,     \* didFinishLoadingFile, of this operation
  failures,     \* didFailedLoadingFile, of this operation
  resumed,      \* where this operation began
  torn,         \* something stopped a handler between two writes
  limped,       \* an operation finished after it had failed
  starts, faults

disk   == <<temp, ivFile, final>>
parts  == <<requests, delayed, nextOffset>>
past   == <<resumed, starts>>
vars == <<kind, disk, state, downloaded, here, iv, stream, parts, finishes,
          failures, past, torn, limped, faults>>

-----------------------------------------------------------------------------

NoIv    == -1    \* the file of the vector is empty or gone
WrongIv == -2    \* what is left after decrypting with a wrong vector

Requests == [offset : Nat, here : BOOLEAN, copy : Nat]

Least(a, b) == IF a < b THEN a ELSE b

\* How much an answer at this offset holds, and where the next one would start.
PartLen(offset) == Least(Chunk, Size - offset)

\* downloadedBytes % downloadChunkSize = 0; the last unit may not be full.
FullParts(n) == n % Chunk = 0 /\ ~(kind.ragged /\ n = Size)

\* The length of the file on disk, rounded down to full units.
Kept(units) ==
  IF kind.ragged /\ Len(units) = Size THEN Size - 1 ELSE Len(units)

\* n units are written at an offset; they are right or they are not.
Write(units, at, n, right) ==
  [i \in 1..(IF at + n > Len(units) THEN at + n ELSE Len(units)) |->
     IF i \in (at + 1)..(at + n) THEN right ELSE units[i]]

\* (Mutant: decryption leaves the vector.)
AfterUnchanged(n) == iv

\* Decryption with the vector of another offset gives noise, and a vector that
\* is good for nothing.
Right == kind.secret => iv = downloaded
After(n) == IF ~kind.secret THEN iv ELSE IF Right THEN n ELSE WrongIv

\* What the file of the vector holds once a vector is written.
SavedIv(vector) == IF stream /\ kind.secret THEN vector ELSE ivFile

Fault(f) == f \in Faults /\ faults < MaxFaults /\ faults' = faults + 1

-----------------------------------------------------------------------------
(* Pieces of the handlers. *)

\* startDownloadRequest, with the requests rs and the answers kept aside ds.
\* A file of known size is asked for in as many parts as there is room for.
StartDownloadRequest(rs, ds, from) ==
  LET room == MaxRequests - Cardinality(rs) - Cardinality(ds)
      offsets == IF state' # "downloading" \/ room <= 0 THEN {}
                 ELSE IF kind.known
                   THEN { n \in { from + Chunk * k : k \in 0..(room - 1) } : n < Size }
                   ELSE {from}
      copies(n) == { r.copy : r \in { q \in rs \cup ds : q.offset = n } }
      new(n) == [offset |-> n, here |-> here',
                 copy |-> CHOOSE c \in 0..MaxRequests :
                            c \notin copies(n) /\ 0..(c - 1) \subseteq copies(n)]
  IN /\ requests' = rs \cup { new(n) : n \in offsets }
     /\ nextOffset' = from + Chunk * Cardinality(offsets)

\* onFinishLoadingFile, once: the file on disk, units, gets its name.
Finish(rs, units) ==
  /\ requests' = rs /\ UNCHANGED <<nextOffset, failures>>
  /\ IF state = "downloading"
     THEN /\ state' = "finished" /\ stream' = FALSE /\ delayed' = {}
          /\ final' = {units} /\ temp' = <<>> /\ ivFile' = NoIv
          /\ finishes' = finishes + 1
          /\ limped' = (limped \/ failures > 0)
     ELSE UNCHANGED <<state, stream, delayed, disk, finishes, limped>>

\* cleanup and didFailedLoadingFile: the state is left as it is.
Fail ==
  /\ stream' = FALSE /\ delayed' = {}
  /\ failures' = failures + 1

\* The parts kept aside that follow one another from an offset on, one for each.
Follow(n) ==
  LET has(m) == \E d \in delayed : d.offset = m
      k == CHOOSE k \in 0..MaxRequests :
             ~has(n + Chunk * k) /\ \A j \in 0..(k - 1) : has(n + Chunk * j)
  IN { CHOOSE d \in delayed : d.offset = n + Chunk * j : j \in 0..(k - 1) }

-----------------------------------------------------------------------------
(* The operation. *)

\* start, and the runnable it posts.  A file that is there is finished at once,
\* one of another length is deleted; a temporary one is gone on with.  Without
\* its vector a secret file begins anew, but for the next offset to ask.
Start ==
  LET there == { f \in final : kind.known => Len(f) = Size }
      from == Kept(temp)
  IN
  /\ state = "none" \/ finishes + failures > 0
  /\ starts < MaxStarts /\ starts' = starts + 1
  /\ failures' = 0 /\ here' = ~kind.moved /\ delayed' = {}
  /\ UNCHANGED <<kind, torn, limped, faults>>
  /\ IF there # {}
     THEN /\ state' = "finished" /\ finishes' = 1 /\ stream' = FALSE
          /\ final' = there /\ requests' = {}
          /\ downloaded' = 0 /\ nextOffset' = 0 /\ resumed' = 0 /\ iv' = 0
          /\ UNCHANGED <<temp, ivFile>>
     ELSE /\ downloaded' = IF kind.secret /\ ivFile = NoIv THEN 0 ELSE from
          /\ iv' = IF kind.secret /\ ivFile # NoIv THEN ivFile ELSE 0
          /\ resumed' = from
          /\ IF kind.known /\ downloaded' = Size
             THEN /\ state' = "finished" /\ finishes' = 1 /\ stream' = FALSE
                  /\ final' = {temp} /\ temp' = <<>> /\ ivFile' = NoIv
                  /\ requests' = {} /\ nextOffset' = from
             ELSE /\ state' = "downloading" /\ finishes' = 0 /\ stream' = TRUE
                  /\ final' = {}
                  /\ StartDownloadRequest({}, {}, from)
                  /\ UNCHANGED <<temp, ivFile>>

\* cancel: requests whose answers wait on the stage queue are answered anyway.
Cancel ==
  /\ state = "downloading" /\ Fault("cancel")
  /\ state' = "failed"
  /\ Fail
  /\ \E late \in SUBSET requests : requests' = late
  /\ UNCHANGED <<kind, disk, downloaded, here, iv, nextOffset, finishes, past,
                 torn, limped>>

\* An answer that is not the next part is kept aside.
PartDelayed(r) ==
  /\ r.here /\ r.offset # downloaded
  /\ requests' = requests \ {r}
  /\ delayed' = IF state = "downloading" THEN delayed \cup {r} ELSE delayed
  /\ UNCHANGED <<kind, disk, state, downloaded, here, iv, stream, nextOffset,
                 finishes, failures, past, torn, limped, faults>>

\* The next part is written, with those that follow it, and its vector; then
\* more is asked for, or it was the last.
PartWritten(r) ==
  LET first == downloaded + PartLen(downloaded)
      used == Follow(first)
      end == Least(first + Chunk * Cardinality(used), Size)
      units == IF stream THEN Write(temp, downloaded, end - downloaded, Right) ELSE temp
      more == IF kind.known THEN end < Size ELSE FullParts(end)
  IN
  /\ r.here /\ r.offset = downloaded /\ r.offset < Size
  /\ downloaded' = end /\ iv' = After(end)
  /\ UNCHANGED <<kind, here, past, torn, faults>>
  /\ IF more
     THEN /\ state' = state /\ delayed' = delayed \ used
          /\ StartDownloadRequest(requests \ {r}, delayed \ used, nextOffset)
          /\ temp' = units
          /\ ivFile' = SavedIv(After(end))
          /\ UNCHANGED <<final, stream, finishes, failures, limped>>
     ELSE Finish(requests \ {r}, units)

\* The answer to a part that starts where the file ends: it is empty, or says
\* that the offset is invalid, which ends a file of full parts only.
PartBeyond(r) ==
  /\ r.here /\ r.offset >= Size
  /\ \/ /\ r.offset = downloaded
        /\ Finish(requests \ {r}, temp)
     \/ /\ FullParts(downloaded)
        /\ Finish(requests \ {r}, temp)
     \/ /\ ~FullParts(downloaded)
        /\ Fail
        /\ requests' = requests \ {r}
        /\ UNCHANGED <<disk, state, nextOffset, finishes, limped>>
  /\ UNCHANGED <<kind, downloaded, here, iv, past, torn, faults>>

\* (Mutant: the new datacenter is not noted.)
MigratedNowhere(r) ==
  /\ ~r.here
  /\ UNCHANGED <<kind, disk, state, downloaded, here, iv, stream, delayed, finishes,
                 failures, past, torn, limped, faults>>
  /\ StartDownloadRequest(requests \ {r}, delayed, 0)

\* FILE_MIGRATE: what is asked for begins again, what is in flight stays.
Migrated(r) ==
  /\ ~r.here
  /\ here' = TRUE
  /\ UNCHANGED <<kind, disk, state, downloaded, iv, stream, delayed, finishes,
                 failures, past, torn, limped, faults>>
  /\ StartDownloadRequest(requests \ {r}, delayed, 0)

\* Any other error, a limit of retries among them.
PartFails(r) ==
  /\ Fault("error")
  /\ Fail
  /\ requests' = requests \ {r}
  /\ UNCHANGED <<kind, disk, state, downloaded, here, iv, nextOffset, finishes, past,
                 torn, limped>>

\* n units of a part are on disk, their vector is not yet.
HalfWritten(n) ==
  /\ n \in 1..PartLen(downloaded)
  /\ temp' = Write(temp, downloaded, n, Right)
  /\ torn' = TRUE
  /\ UNCHANGED <<ivFile, final>>

\* The disk is full in the middle of a part.
WriteThrows(r) ==
  /\ Fault("throw") /\ stream
  /\ r.here /\ r.offset = downloaded /\ r.offset < Size
  /\ \E n \in 1..Size : HalfWritten(n)
  /\ iv' = After(downloaded + PartLen(downloaded))
  /\ Fail
  /\ requests' = requests \ {r}
  /\ UNCHANGED <<kind, state, downloaded, here, nextOffset, finishes, past, limped>>

\* The process ends: between two handlers, in the middle of a part, or when all
\* is written and the file has not got its name.
Crash ==
  /\ state # "none" /\ Fault("crash")
  /\ \/ UNCHANGED <<disk, torn>>
     \/ /\ stream
        /\ \E r \in requests : r.here /\ r.offset = downloaded
        /\ \E n \in 1..Size : HalfWritten(n)
     \/ /\ stream
        /\ \E r \in requests : r.here /\ r.offset = downloaded
        /\ downloaded + PartLen(downloaded) = Size
        /\ temp' = Write(temp, downloaded, Size - downloaded, Right)
        /\ ivFile' = IF kind.secret THEN After(Size) ELSE ivFile
        /\ torn' = TRUE /\ UNCHANGED final
  /\ state' = "none" /\ stream' = FALSE
  /\ downloaded' = 0 /\ nextOffset' = 0 /\ here' = FALSE /\ iv' = 0
  /\ requests' = {} /\ delayed' = {} /\ finishes' = 0 /\ failures' = 0 /\ resumed' = 0
  /\ UNCHANGED <<kind, starts, limped>>

-----------------------------------------------------------------------------

Init ==
  /\ kind \in Kinds
  /\ temp = <<>> /\ ivFile = NoIv /\ final = {}
  /\ state = "none" /\ downloaded = 0 /\ nextOffset = 0 /\ here = FALSE /\ iv = 0
  /\ stream = FALSE /\ requests = {} /\ delayed = {}
  /\ finishes = 0 /\ failures = 0 /\ resumed = 0
  /\ torn = FALSE /\ limped = FALSE /\ starts = 0 /\ faults = 0

Answer ==
  \E r \in requests : PartDelayed(r) \/ PartWritten(r) \/ PartBeyond(r) \/ Migrated(r)
Failure == \E r \in requests : PartFails(r) \/ WriteThrows(r)

Next == Start \/ Answer \/ Failure \/ Cancel \/ Crash

Spec == Init /\ [][Next]_vars

\* Every request is answered in the end.
Fairness == WF_vars(Answer)

FairSpec == Spec /\ Fairness

-----------------------------------------------------------------------------
(* Properties. *)

\* Every variable has values of its type.
TypeOK ==
  /\ kind \in Kinds
  /\ temp \in Seq(BOOLEAN) /\ ivFile \in Int /\ final \subseteq Seq(BOOLEAN)
  /\ state \in {"none", "downloading", "failed", "finished"}
  /\ downloaded \in 0..Size /\ nextOffset \in Nat /\ here \in BOOLEAN
  /\ iv \in Int /\ stream \in BOOLEAN
  /\ requests \subseteq Requests /\ delayed \subseteq Requests
  /\ finishes \in Nat /\ failures \in Nat /\ resumed \in Nat
  /\ torn \in BOOLEAN /\ limped \in BOOLEAN /\ starts \in Nat /\ faults \in Nat

\* A file that has its name is whole and right, in whatever order its parts
\* came and wherever they were resumed: but for an operation that went on after
\* it had failed, and after something stopped it between the data and the
\* vector of a secret file, or inside a part of a file of unknown size.
Whole == [i \in 1..Size |-> TRUE]
FinalIsWhole ==
  (final # {} /\ ~limped /\ (torn => kind.known /\ ~kind.secret)) => final = {Whole}

\* What is on disk can be resumed: it is right as far as it goes, and the
\* vector is that of its end.
Resumable ==
  ~torn => /\ \A i \in 1..Len(temp) : temp[i]
           /\ (kind.secret /\ temp # <<>>) => ivFile = Len(temp)

\* An operation waits for nothing only if the file moved, for what was asked for
\* twice, or was gone past, fills its room; or if it went on from where something
\* stopped another, without the vector of a secret file or from the middle of a
\* part of a file of unknown size.
Stuck == state = "downloading" /\ requests = {} /\ finishes + failures = 0
StuckIsKnown ==
  Stuck => kind.moved \/ (torn /\ resumed > 0 /\ (kind.secret \/ ~kind.known))

\* What was reported finished is not reported failed: but for a file that moved,
\* of which a part may be asked for twice.
FinishIsLast ==
  [][(finishes > 0 /\ failures = 0 /\ ~kind.moved) => failures' = 0]_vars

\* An operation ends, in one way or another, or is one of those that get stuck.
EveryDownloadEnds ==
  (state = "downloading") ~>
     (finishes + failures > 0 \/ state = "none" \/ Stuck)

\* What a download keeps in every state: types, the file under its name, what can
\* be resumed, and why an operation waits for nothing.
DownloadSafe == TypeOK /\ FinalIsWhole /\ Resumable /\ StuckIsKnown

\* A download ends, and is not reported failed once it was reported finished.
DownloadEnds == EveryDownloadEnds /\ FinishIsLast
=============================================================================
