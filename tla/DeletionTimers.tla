--------------------------- MODULE DeletionTimers ---------------------------
(***************************************************************************)
(* DeleteTasks beside another component, with constants and variables of   *)
(* its own: the runs take it together with SendMessages, the proofs with   *)
(* UpdatesSync, whose getDifference sets the timers going.                 *)
(***************************************************************************)

CONSTANTS Secrets, MaxTime, MaxKills
VARIABLES mids, time, loading, first, timer, stage, tasks, deletions, deadlines, gone, now,
          asked, crossed, crashes

Timers == INSTANCE DeleteTasks WITH
  Messages <- Secrets, MaxCrash <- MaxKills,
  getting <- loading, storage <- tasks, ui <- deletions, rows <- deadlines

\* The earliest messages with a timer are armed whenever nothing is on its way
\* (DeleteTasks; MessagesController.checkDeletingTask).
TimersSafe == Timers!TimersSafe

\* Every timer runs out, none early, and no row goes before its message
\* (DeleteTasks; MessagesStorage.getNewTask).
TimersRunOut == Timers!TimersRunOut
=============================================================================
