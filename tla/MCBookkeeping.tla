---------------------------- MODULE MCBookkeeping ----------------------------
(***************************************************************************)
(* Small instances for TLC of three components the others stand on:        *)
(* DispatchQueue, which runs what is posted, RequestGuids, which remembers *)
(* the requests of every screen, and NotificationCenter, which remembers   *)
(* the observers of every notification.  They share no variable: a         *)
(* behaviour is of one of them, and the others stay as they begin.         *)
(***************************************************************************)
EXTENDS DispatchQueue

CONSTANTS t1, r1              \* of DispatchQueue: who calls first, and with what
CONSTANTS Requests, Screens, Screen   \* of RequestGuids
CONSTANTS Names, Observers, MaxDepth, MaxChanges   \* of NotificationCenter
VARIABLES nextCallToken, read, token, unbound, stage, ui, waiting, running, requestsByGuids,
          requestsByClass, closed, cancelled, answered, loosed, late, early   \* of RequestGuids
VARIABLES observers, broadcasts, addAfterBroadcast, removeAfterBroadcast, wished, undone,
          changes             \* of NotificationCenter
VARIABLE  scene               \* which of them this behaviour is of

Guids  == INSTANCE RequestGuids WITH queue <- waiting
Center == INSTANCE NotificationCenter WITH astray <- undone

ASSUME BookkeepingAssumption == Guids!ScreenAssumption /\ Center!BoundsAssumption

guidVars   == <<nextCallToken, read, token, unbound, stage, ui, waiting, running, requestsByGuids,
                requestsByClass, closed, cancelled, answered, loosed, late, early>>
centerVars == <<observers, broadcasts, addAfterBroadcast, removeAfterBroadcast, wished, undone, changes>>

OfQueue   == scene = "queue" /\ UNCHANGED <<scene, guidVars, centerVars>>
OfScreens == scene = "screens" /\ UNCHANGED <<scene, vars, centerVars>>
OfCenter  == scene = "center" /\ UNCHANGED <<scene, vars, guidVars>>

\* For TLC: two requests of a screen and one of another.
OfScreen == <<"chat", "chat", "profile">>

\* Bound: the first request draws its token first, and its screen is the one that
\* is closed.
InTurn(r) == r # 1 => read[1] # 0

\* Bound: one token at a time waits to be bound.
OneUnbound == unbound = {}

\* The threads that call the queue are alike, and so are the runnables.
OnTurn(t, c) == made = <<>> => t = t1 /\ c.r = r1

Scenes == {"queue", "screens", "center"}

AnyInit ==
  /\ scene \in Scenes
  /\ Init /\ Guids!Init /\ Center!Init

AnyNext ==
  \/ \E t \in Threads : OfQueue /\ Step(t)
  \/ \E t \in Threads : OfQueue /\ WakesByItself(t)
  \/ \E t \in Threads, c \in Calls : OfQueue /\ OnTurn(t, c) /\ Enter(t, c)
  \/ OfQueue /\ CleanupQueue
  \/ OfQueue /\ Run
  \/ OfQueue /\ Loop
  \/ OfQueue /\ TimePasses
  \/ \E r \in Requests : OfScreens /\ InTurn(r) /\ Guids!ReadToken(r)
  \/ \E r \in Requests : OfScreens /\ OneUnbound /\ Guids!WriteToken(r)
  \/ \E r \in Requests : OfScreens /\ Guids!BindToken(r)
  \/ \E r \in Requests : OfScreens /\ Guids!Answer(r)
  \/ OfScreens /\ Guids!Close("chat")
  \/ OfScreens /\ Guids!RunBind
  \/ OfScreens /\ Guids!RunRemove
  \/ OfScreens /\ Guids!RunPerform
  \/ OfScreens /\ Guids!Promote
  \/ OfScreens /\ Guids!RunCancel
  \/ OfScreens /\ Guids!RunCompleted
  \/ OfCenter /\ Center!Call
  \/ OfCenter /\ Center!EndPost
  \/ \E n \in Names : OfCenter /\ Center!Post(n)
  \/ \E n \in Names, o \in Observers : OfCenter /\ Center!AddObserver(o, n)
  \/ \E n \in Names, o \in Observers : OfCenter /\ Center!RemoveObserver(o, n)

AnyFairness ==
  /\ WF_vars(OfQueue /\ Run) /\ WF_vars(OfQueue /\ Loop) /\ WF_vars(OfQueue /\ TimePasses)
  /\ \A t \in Threads : WF_vars(OfQueue /\ Step(t))

AnySpec ==
  AnyInit /\ [][AnyNext]_<<scene, vars, guidVars, centerVars>> /\ AnyFairness

\* What each of them states, of its own behaviours.
GuidsAreSafe    == scene = "screens" => Guids!GuidsSafe
ObserversAreSafe == scene = "center" => Center!ObserversSafe
=============================================================================
