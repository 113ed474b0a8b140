------------------------------ MODULE MCUploads ------------------------------
(***************************************************************************)
(* Small instances for TLC of FileUploader, the scheduler of the uploads,  *)
(* and of FileUploadOperation, one upload: a behaviour is of one of them,  *)
(* which share no variable, and the other stays as it begins.              *)
(***************************************************************************)
EXTENDS FileUploader

CONSTANTS Size, Estimates, WideFrom, BigFrom, MaxErrors, MaxOps, MaxCrashes  \* of FileUploadOperation
VARIABLES estimate, length, announced, info, server, state, posts, checked, estimating, opened,
          total, manner, part, uploaded, id, last, token, times, sending, finished, failures, late,
          ahead, odd, errors, operations, crashes   \* of it
VARIABLE  scene   \* which of them this behaviour is of

Sender == INSTANCE FileUploadOperation

ASSUME FileAssumption == Sender!SizesAssumption

fileVars == <<estimate, length, announced, info, server, state, posts, checked, estimating, opened,
              total, manner, part, uploaded, id, last, token, times, sending, finished, failures,
              late, ahead, odd, errors, operations, crashes>>

OfLane == scene = "lane" /\ UNCHANGED <<scene, fileVars>>
OfFile == scene = "file" /\ UNCHANGED <<scene, vars>>

\* The files, which are numbers here, are alike: they are first sent in the order
\* of their numbers.
InTurn(f) ==
  \A g \in Files : g < f => (\E o \in Ids : ops[o].file = g)
                          \/ (\E i \in DOMAIN calls : calls[i].what = "upload" /\ calls[i].file = g)

EitherInit ==
  /\ scene \in {"lane", "file"}
  /\ Init /\ Sender!Init
  /\ scene = "lane" => estimate = 0

EitherNext ==
  \/ \E f \in Files : OfLane /\ InTurn(f) /\ CallUpload(f)
  \/ \E f \in Files : OfLane /\ CallCancel(f)
  \/ OfLane /\ Upload
  \/ OfLane /\ Cancel
  \/ OfLane /\ Done
  \/ \E o \in Ids : OfLane /\ Finish(o)
  \/ \E o \in Ids : OfLane /\ Fail(o)
  \/ \E o \in Ids : OfLane /\ Ignored(o)
  \/ OfFile /\ Sender!Grow
  \/ OfFile /\ Sender!Announce
  \/ OfFile /\ Sender!Start
  \/ OfFile /\ Sender!Cancel
  \/ OfFile /\ Sender!RunStart
  \/ OfFile /\ Sender!RunCheck
  \/ OfFile /\ Sender!Request
  \/ \E r \in sending : OfFile /\ Sender!Answer(r)
  \/ \E r \in sending : OfFile /\ Sender!Reject(r)
  \/ OfFile /\ Sender!Again
  \/ OfFile /\ Sender!Crash

EitherSpec ==
  /\ EitherInit /\ [][EitherNext]_<<scene, vars, fileVars>>
  /\ Fairness
  /\ WF_fileVars(OfFile /\ Sender!Converter) /\ WF_fileVars(OfFile /\ Sender!Start)
  /\ WF_fileVars(OfFile /\ Sender!Stage)

\* What FileUploadOperation states of an upload; and that the user hears of every
\* file, and every upload that was started ends.
UploadSafe       == Sender!UploadSafe
EveryUploadHeard == EveryUploadAnswered /\ Sender!EveryUploadEnds
=============================================================================
