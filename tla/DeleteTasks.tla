----------------------------- MODULE DeleteTasks -----------------------------
(***************************************************************************)
(* The self-destruct timers of secret chats.  MessagesStorage keeps a row  *)
(* of enc_tasks_v2 for every message that has been read, with the time it  *)
(* is to be deleted at; MessagesController holds the earliest of them in   *)
(* memory, waits for its time, deletes the messages, and has the rows      *)
(* removed and the next ones loaded.                                       *)
(*                                                                         *)
(* Three threads take part.  Every step of the cycle ends by posting the   *)
(* next one to the stage queue, the storage queue or the UI thread, and    *)
(* the messages it is about are read from currentDeletingTaskMids when     *)
(* that next step runs.                                                    *)
(***************************************************************************)
EXTENDS Integers, Sequences, FiniteSets, FiniteSetsExt

CONSTANTS
  Messages, \* messages of secret chats that have a timer
  MaxTime,  \* bound: the clock, and the times of deletion
  MaxCrash  \* bound: times the process is killed

BoundAssumption ==
  IsFiniteSet(Messages) /\ MaxTime \in Nat \ {0} /\ MaxCrash \in Nat

Dates == 1..MaxTime
Nobody == {}   \* currentDeletingTaskMids == null

VARIABLES
  mids,    \* currentDeletingTaskMids; Nobody: null
  time,    \* currentDeletingTaskTime; 0: none
  getting, \* gettingNewDeleteTask
  first,   \* firstGettingTask
  timer,   \* when currentDeleteTaskRunnable is to run; 0: none is pending
  stage,   \* what is posted to the stage queue
  storage, \* what is posted to the storage queue
  ui,      \* deletions posted to the UI thread
  rows,    \* enc_tasks_v2: the date of each message; 0: no row
  gone,    \* messages that have been deleted
  now      \* getCurrentTime()

VARIABLES  \* history, read by properties only
  asked,   \* messages createTaskForSecretChat was called for
  crossed, \* messages in a load that was answered while a deletion was under way
  crashes

memory == <<mids, time, getting, first, timer>>
queues == <<stage, storage, ui>>
disk   == <<rows, gone>>
past   == <<asked, crossed, crashes>>
vars == <<memory, queues, disk, now, past>>

Timed == { m \in Messages : rows[m] # 0 }

\* A deletion is under way from the moment its time has come until its rows
\* have been removed and the next ones loaded.
Deleting == ui > 0 \/ \E i \in 1..Len(stage) : stage[i].kind = "reload"

-----------------------------------------------------------------------------
(* MessagesController, on the stage queue. *)

\* checkDeletingTask's condition.
IsDue(runnable, ms, t) == ms # Nobody /\ (runnable \/ (t # 0 /\ t <= now))

\* checkDeletingTask(false), which updateTimerProc calls every second.
UpdateTimerProc ==
  /\ IsDue(FALSE, mids, time)
  /\ time' = 0 /\ timer' = 0
  /\ ui' = ui + 1
  /\ UNCHANGED <<mids, getting, first, stage, storage, disk, now, past>>

\* currentDeleteTaskRunnable, which is checkDeletingTask(true).
TimerFires ==
  /\ timer # 0 /\ timer <= now
  /\ timer' = 0
  /\ IF IsDue(TRUE, mids, time)
     THEN time' = 0 /\ ui' = ui + 1
     ELSE UNCHANGED <<time, ui>>
  /\ UNCHANGED <<mids, getting, first, stage, storage, disk, now, past>>

\* getDifference asks for the tasks the first time it runs.
GetDifference ==
  /\ ~first
  /\ first' = TRUE
  /\ stage' = Append(stage, [kind |-> "get", old |-> Nobody])
  /\ UNCHANGED <<mids, time, getting, timer, storage, ui, disk, now, past>>

\* getNewDeleteTask's runnable.
GetNewDeleteTask(s) ==
  /\ s.kind = "get"
  /\ getting' = TRUE
  /\ stage' = Tail(stage)
  /\ storage' = Append(storage, [kind |-> "getNewTask", old |-> s.old])
  /\ UNCHANGED <<mids, time, first, timer, ui, disk, now, past>>

\* (Mutant: a task that is to run before the one in memory is not asked for.)
NeedsLoadWhenIdle(minDate) == mids = Nobody /\ ~getting

\* didAddedNewTask's condition.
NeedsLoad(minDate) ==
  (mids = Nobody /\ ~getting) \/ (time # 0 /\ minDate < time)

DidAddedNewTask(s) ==
  /\ s.kind = "added"
  /\ stage' = IF NeedsLoad(s.min)
              THEN Append(Tail(stage), [kind |-> "get", old |-> Nobody])
              ELSE Tail(stage)
  /\ UNCHANGED <<memory, storage, ui, disk, now, past>>

\* processLoadedDeleteTask's runnable: the loaded task replaces the one in
\* memory, and is carried out at once or given a runnable of its own.
ProcessLoadedDeleteTask(s) ==
  /\ s.kind = "loaded"
  /\ getting' = FALSE
  /\ mids' = s.mids
  /\ IF s.mids = Nobody
     THEN time' = 0 /\ UNCHANGED <<timer, ui>>
     ELSE IF IsDue(FALSE, s.mids, s.date)
     THEN time' = 0 /\ timer' = 0 /\ ui' = ui + 1
     ELSE time' = s.date /\ timer' = s.date /\ UNCHANGED ui
  /\ stage' = Tail(stage)
  /\ crossed' = IF Deleting THEN crossed \cup s.mids ELSE crossed
  /\ UNCHANGED <<first, storage, disk, now, asked, crashes>>

\* (Mutant: the rows of the messages that were deleted are left.)
ReloadOnly(s) ==
  /\ s.kind = "reload"
  /\ stage' = Append(Tail(stage), [kind |-> "get", old |-> Nobody])
  /\ time' = 0 /\ mids' = Nobody
  /\ UNCHANGED <<getting, first, timer, storage, ui, disk, now, past>>

\* The last step of a deletion: the rows of what is now in
\* currentDeletingTaskMids are to be removed.
Reload(s) ==
  /\ s.kind = "reload"
  /\ stage' = Append(Tail(stage), [kind |-> "get", old |-> mids])
  /\ time' = 0 /\ mids' = Nobody
  /\ UNCHANGED <<getting, first, timer, storage, ui, disk, now, past>>

StageRuns ==
  /\ stage # <<>>
  /\ LET s == Head(stage)
     IN \/ GetNewDeleteTask(s)
        \/ DidAddedNewTask(s)
        \/ ProcessLoadedDeleteTask(s)
        \/ Reload(s)

-----------------------------------------------------------------------------
(* MessagesController, on the UI thread. *)

\* The deletion posted by checkDeletingTask: deleteMessages of what is now in
\* currentDeletingTaskMids, and the reload.
UiDeletes ==
  /\ ui > 0
  /\ ui' = ui - 1
  /\ storage' = IF mids = Nobody THEN storage
                ELSE Append(storage, [kind |-> "delete", mids |-> mids])
  /\ stage' = Append(stage, [kind |-> "reload"])
  /\ UNCHANGED <<memory, disk, now, past>>

-----------------------------------------------------------------------------
(* MessagesStorage. *)

\* A secret chat's messages have been read, here or by the other side: the
\* stage queue or the UI thread calls createTaskForSecretChat.  A message that
\* was read a while ago may be due at once.
CreateTask(dates) ==
  /\ DOMAIN dates \cap asked = {}
  /\ asked' = asked \cup DOMAIN dates
  /\ storage' = Append(storage, [kind |-> "create", dates |-> dates])
  /\ UNCHANGED <<memory, stage, ui, disk, now, crossed, crashes>>

\* createTaskForSecretChat's runnable.  The messages that were deleted in the
\* meantime are not found.
CreateRuns(s) ==
  /\ s.kind = "create"
  /\ LET found == DOMAIN s.dates \ gone
     IN /\ rows' = [ m \in Messages |-> IF m \in found THEN s.dates[m] ELSE rows[m] ]
        /\ stage' = IF found = {} THEN stage
                    ELSE Append(stage, [kind |-> "added",
                                        min |-> Min({ s.dates[m] : m \in found })])
  /\ UNCHANGED gone

\* getNewTask's query: the messages of the smallest date.
Earliest(left) ==
  LET dates == { left[m] : m \in Messages } \ {0}
      date  == IF dates = {} THEN 0 ELSE Min(dates)
  IN [kind |-> "loaded", date |-> date,
      mids |-> { m \in Messages : left[m] # 0 /\ left[m] = date }]

\* getNewTask's runnable.
GetNewTask(s) ==
  /\ s.kind = "getNewTask"
  /\ rows' = [ m \in Messages |-> IF m \in s.old THEN 0 ELSE rows[m] ]
  /\ stage' = Append(stage, Earliest(rows'))
  /\ UNCHANGED gone

\* markMessagesAsDeletedInternal.
DeleteRuns(s) ==
  /\ s.kind = "delete"
  /\ gone' = gone \cup s.mids
  /\ UNCHANGED <<rows, stage>>

StorageRuns ==
  /\ storage # <<>>
  /\ storage' = Tail(storage)
  /\ LET s == Head(storage) IN CreateRuns(s) \/ GetNewTask(s) \/ DeleteRuns(s)
  /\ UNCHANGED <<memory, ui, now, past>>

-----------------------------------------------------------------------------
(* The clock and the process. *)

TimePasses == now < MaxTime /\ now' = now + 1 /\ UNCHANGED <<memory, queues, disk, past>>

\* The process is killed and started again: the database is all that is left.
Crash ==
  /\ crashes < MaxCrash
  /\ crashes' = crashes + 1
  /\ mids' = Nobody /\ time' = 0 /\ getting' = FALSE /\ first' = FALSE /\ timer' = 0
  /\ stage' = <<>> /\ storage' = <<>> /\ ui' = 0
  /\ asked' = Timed \cup gone
  /\ crossed' = {}
  /\ UNCHANGED <<disk, now>>

Init ==
  /\ mids = Nobody /\ time = 0 /\ getting = FALSE /\ first = FALSE /\ timer = 0
  /\ stage = <<>> /\ storage = <<>> /\ ui = 0
  /\ rows = [m \in Messages |-> 0] /\ gone = {}
  /\ now = 1
  /\ asked = {} /\ crossed = {} /\ crashes = 0

Next ==
  \/ UpdateTimerProc \/ TimerFires \/ GetDifference
  \/ StageRuns \/ UiDeletes \/ StorageRuns
  \/ \E ms \in SUBSET Messages \ {{}} : \E dates \in [ms -> Dates] : CreateTask(dates)
  \/ TimePasses \/ Crash

Spec == Init /\ [][Next]_vars

\* The three threads run what they are given and the clock goes on.
Fairness ==
  /\ WF_vars(UpdateTimerProc) /\ WF_vars(GetDifference)
  /\ WF_vars(StageRuns) /\ WF_vars(UiDeletes) /\ WF_vars(StorageRuns)
  /\ WF_vars(TimePasses)

FairSpec == Spec /\ Fairness

-----------------------------------------------------------------------------
(* Properties. *)

StageTask ==
  [kind : {"get"}, old : SUBSET Messages]
  \cup [kind : {"added"}, min : Dates]
  \cup [kind : {"loaded"}, date : 0..MaxTime, mids : SUBSET Messages]
  \cup {[kind |-> "reload"]}

\* The variables have their types, and a time in memory belongs to messages and
\* to a runnable that has not run.
TypeOK ==
  /\ mids \subseteq Messages /\ time \in 0..MaxTime
  /\ getting \in BOOLEAN /\ first \in BOOLEAN /\ timer \in 0..MaxTime
  /\ \A i \in 1..Len(stage) : stage[i] \in StageTask
  /\ \A i \in 1..Len(storage) : storage[i].kind \in {"create", "getNewTask", "delete"}
  /\ ui \in Nat
  /\ rows \in [Messages -> 0..MaxTime] /\ gone \subseteq Messages
  /\ now \in Dates
  /\ asked \subseteq Messages /\ crossed \subseteq Messages /\ crashes \in 0..MaxCrash
  /\ time # 0 => (mids # Nobody /\ timer = time)

\* No message is deleted before its time.  Every deletion is decided on the
\* stage queue and reads what to delete on the UI thread, later; only a load
\* answered in between can put other messages in its way.
NotEarly ==
  [][\A m \in gone' \ gone : (rows[m] # 0 /\ rows[m] <= now) \/ m \in crossed]_vars

\* No message loses its row before it has been deleted: it would be kept for
\* ever.  The rows are removed three posts after the messages are.
DeletedBeforeRow ==
  [][\A m \in Messages : (rows[m] # 0 /\ rows'[m] = 0) => m \in gone \cup crossed]_vars

Quiet == first /\ stage = <<>> /\ storage = <<>> /\ ui = 0

\* Whenever nothing is on its way and messages are waiting for their time, the
\* earliest of them are in memory, with a runnable or a check to come that will
\* delete them, however the loads and the deletions before it crossed.
ArmedForTheEarliest ==
  (Quiet /\ Timed # {}) =>
     /\ mids # Nobody /\ mids \subseteq Timed
     /\ \A m \in mids : rows[m] = Min({ rows[n] : n \in Timed })
     /\ time = Min({ rows[n] : n \in Timed })

\* Every message with a timer is deleted in the end, unless loads crossed.
EveryTimerRunsOut == \A m \in Messages : (rows[m] # 0) ~> m \in gone \cup crossed

\* What the deletion timers keep in every state: types, and the earliest messages
\* armed.
TimersSafe == TypeOK /\ ArmedForTheEarliest

\* Timers run out: every one, none early, and no row without its message.
TimersRunOut == EveryTimerRunsOut /\ NotEarly /\ DeletedBeforeRow
=============================================================================
