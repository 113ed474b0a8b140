----------------------------- MODULE MCDownloads -----------------------------
(***************************************************************************)
(* Small instances for TLC of FileLoader, the scheduler of the downloads,  *)
(* and of FileLoadOperation, one download.  The two share no variable, so  *)
(* that the steps of one commute with those of the other: a behaviour here *)
(* is of one of them, chosen at the beginning, and the other stays as it   *)
(* begins.                                                                 *)
(***************************************************************************)
EXTENDS FileLoader

CONSTANTS Size, Chunk, MaxRequests, Faults, MaxFaults, MaxStarts   \* of FileLoadOperation
VARIABLES kind, temp, ivFile, final, state, downloaded, nextOffset, here, iv, stream, requests,
          delayed, finishes, failures, resumed, torn, limped, starts, faults   \* of it
VARIABLE  scene   \* which of them this behaviour is of

AnyKind == [known : BOOLEAN, secret : BOOLEAN, moved : BOOLEAN, ragged : BOOLEAN]

Download == INSTANCE FileLoadOperation WITH Kinds <- AnyKind

ASSUME DownloadAssumption == Download!KindsAssumption /\ Download!SizesAssumption

downloadVars == <<kind, temp, ivFile, final, state, downloaded, nextOffset, here, iv, stream,
                  requests, delayed, finishes, failures, resumed, torn, limped, starts, faults>>

OfLane == scene = "lane" /\ UNCHANGED <<scene, downloadVars>>
OfFile == scene = "file" /\ UNCHANGED <<scene, vars>>

\* The files, which are numbers here, are alike: they are first loaded in the
\* order of their numbers.
InTurn(f) ==
  \A g \in Files : g < f => (\E o \in Ids : ops[o].file = g)
                          \/ (\E i \in DOMAIN calls : calls[i].what = "load" /\ calls[i].file = g)

\* Bound: no file is cancelled when an operation has reported twice, nor does
\* one fail twice after a file was cancelled.
Undisturbed == cancels = 0 /\ \A o \in Ids : ops[o].reports < 2

EitherInit ==
  /\ scene \in {"lane", "file"}
  /\ Init /\ Download!Init
  /\ scene = "lane" => kind = [known |-> TRUE, secret |-> FALSE, moved |-> FALSE, ragged |-> FALSE]

EitherNext ==
  \/ \E f \in Files, force \in BOOLEAN : OfLane /\ InTurn(f) /\ CallLoad(f, force)
  \/ \E f \in Files : OfLane /\ Undisturbed /\ CallCancel(f)
  \/ OfLane /\ Load
  \/ OfLane /\ Cancel
  \/ OfLane /\ Done
  \/ OfLane /\ FinishPosts
  \/ \E o \in Ids : OfLane /\ Finish(o)
  \/ \E o \in Ids : OfLane /\ (ops[o].reports > 0 => Undisturbed) /\ Fail(o)
  \/ \E o \in Ids : OfLane /\ Cancelled(o)
  \/ OfFile /\ Download!Start
  \/ \E r \in requests : OfFile /\ Download!PartDelayed(r)
  \/ \E r \in requests : OfFile /\ Download!PartWritten(r)
  \/ \E r \in requests : OfFile /\ Download!PartBeyond(r)
  \/ \E r \in requests : OfFile /\ Download!Migrated(r)
  \/ \E r \in requests : OfFile /\ Download!PartFails(r)
  \/ \E r \in requests : OfFile /\ Download!WriteThrows(r)
  \/ OfFile /\ Download!Cancel
  \/ OfFile /\ Download!Crash

\* What does not begin stays as it is: no action of Fairness is possible then.
EitherSpec ==
  EitherInit /\ [][EitherNext]_<<scene, vars, downloadVars>> /\ Fairness /\ Download!Fairness

\* What FileLoadOperation states of a download.
DownloadSafe == Download!DownloadSafe
DownloadEnds == Download!DownloadEnds
=============================================================================
