----------------------------- MODULE MCMessages -----------------------------
(***************************************************************************)
(* Small instances of SendMessages and DeleteTasks for TLC.  The two share *)
(* no variable, so that the steps of one commute with those of the other:  *)
(* a behaviour here is one of either, chosen at the beginning.             *)
(***************************************************************************)
EXTENDS SendMessages, DeletionTimers

CONSTANTS MaxEvents   \* of SendMessages
VARIABLE  scene       \* which of them this behaviour is of

ASSUME Timers!BoundAssumption

OneFile == [m \in Messages |-> 1]

timersVars == <<mids, time, loading, first, timer, stage, tasks, deletions, deadlines, gone, now,
                asked, crossed, crashes>>

Sends   == scene = "sends" /\ UNCHANGED <<scene, timersVars>>
Deletes == scene = "timers" /\ UNCHANGED <<scene, vars>>

Scenes == {"sends", "timers"}

EitherInit ==
  /\ scene \in Scenes
  /\ Init /\ Timers!Init

\* Bound: what the user, the server and the system do to the messages.
Few ==
  count.cancels + count.retries + count.acks + count.crashes + Cardinality(told) < MaxEvents

EitherNext ==
  \/ \E o \in Free : Sends /\ UserSends(o)
  \/ \E m \in Messages : Sends /\ Few /\ UserRetries(m)
  \/ \E m \in Messages : Sends /\ Few /\ UserCancels(m)
  \/ Sends /\ UiRuns
  \/ Sends /\ StorageRuns
  \/ \E o \in Objects : Sends /\ Accepted(o)
  \/ \E o \in Objects : Sends /\ Refused(o)
  \/ \E o \in Objects : Sends /\ Serve(o)
  \/ \E o \in Objects : Sends /\ Few /\ Acknowledge(o)
  \/ \E l \in Locs : Sends /\ UploadEnds(l)
  \/ \E r \in Randoms : Sends /\ Few /\ Difference(r)
  \/ Sends /\ Few /\ Crash
  \/ Deletes /\ Timers!UpdateTimerProc
  \/ Deletes /\ Timers!TimerFires
  \/ Deletes /\ Timers!GetDifference
  \/ Deletes /\ Timers!StageRuns
  \/ Deletes /\ Timers!UiDeletes
  \/ Deletes /\ Timers!StorageRuns
  \/ \E ms \in SUBSET Secrets \ {{}} : \E dates \in [ms -> Timers!Dates] : Deletes /\ Timers!CreateTask(dates)
  \/ Deletes /\ Timers!TimePasses
  \/ Deletes /\ Timers!Crash

EitherFairness ==
  /\ WF_vars(Sends /\ UiRuns) /\ WF_vars(Sends /\ StorageRuns)
  /\ \A o \in Objects : WF_vars(Sends /\ (Accepted(o) \/ Refused(o))) /\ WF_vars(Sends /\ Serve(o))
  /\ \A l \in Locs : WF_vars(Sends /\ UploadEnds(l))
  /\ WF_timersVars(Deletes /\ Timers!UpdateTimerProc) /\ WF_timersVars(Deletes /\ Timers!GetDifference)
  /\ WF_timersVars(Deletes /\ Timers!StageRuns) /\ WF_timersVars(Deletes /\ Timers!UiDeletes)
  /\ WF_timersVars(Deletes /\ Timers!StorageRuns) /\ WF_timersVars(Deletes /\ Timers!TimePasses)

EitherSpec ==
  EitherInit /\ [][EitherNext]_<<scene, vars, timersVars>> /\ EitherFairness

\* Every message that was sent is sent or fails in the end (SendMessages).
EveryMessageEndsHere == scene = "sends" => MessagesEnd
=============================================================================
