---------------------------- MODULE DispatchQueue ----------------------------
(***************************************************************************)
(* DispatchQueue: a thread that runs what others post to it.  Its Handler  *)
(* exists only once the thread has started; a caller that comes earlier    *)
(* waits on handlerSyncObject, and the thread wakes one of those waiting.  *)
(*                                                                         *)
(* The handler, the looper and the monitor are Android's and Java's; wait  *)
(* may also return without a notify, as Java's documentation allows.       *)
(***************************************************************************)
EXTENDS Integers, Sequences, FiniteSets, FiniteSetsExt, SequencesExt, Selection

CONSTANTS
  Threads,    \* threads that call the queue
  Runnables,
  Delay,      \* the delay of postRunnable(runnable, delay)
  MaxCalls,   \* bound: calls made
  MaxTime,    \* bound: the clock
  MaxSpurious \* bound: waits that return without a notify

ASSUME ParameterAssumption ==
  /\ Delay \in Nat \ {0} /\ MaxCalls \in Nat
  /\ MaxTime \in Nat /\ MaxSpurious \in Nat

Calls == [op : {"post"}, r : Runnables, delay : {0, Delay}]
         \cup [op : {"cancel"}, r : Runnables, delay : {0}]
NoCall == [op |-> "none"]

VARIABLES
  handler, \* handler # null
  call,    \* the call each thread is in
  pc,      \* "out", "checked" (saw no handler), "waiting", "woken", "through"
  queue,   \* the looper's messages, by time: [n, r, when]
  now      \* SystemClock.uptimeMillis

VARIABLES  \* history, read by properties only
  made,    \* calls begun, oldest first: [t, op, r, delay]
  began,   \* messages run, in that order
  removed, \* messages taken out before they ran
  crowd,   \* threads that went on waiting when another was notified
  dropped, \* calls that returned without a handler
  spurious \* threads that were woken by nobody

monitor == <<handler, call, pc>>
past    == <<made, began, removed, crowd, dropped, spurious>>
vars    == <<monitor, queue, now, past>>

Waiting == { t \in Threads : pc[t] = "waiting" }

-----------------------------------------------------------------------------
(* postRunnable and cancelRunnable. *)

\* The first look at the handler, outside the lock.
Enter(t, c) ==
  /\ pc[t] = "out" /\ Len(made) < MaxCalls
  /\ made' = Append(made, [t |-> t, op |-> c.op, r |-> c.r, delay |-> c.delay])
  /\ call' = [call EXCEPT ![t] = [op |-> c.op, r |-> c.r, delay |-> c.delay,
                                  n |-> Len(made')]]
  /\ pc' = [pc EXCEPT ![t] = IF handler THEN "through" ELSE "checked"]
  /\ UNCHANGED <<handler, queue, now, began, removed, crowd, dropped, spurious>>

\* (Mutant: as in sendMessage, nobody looks again inside the lock.)
LockAndWait(t) ==
  /\ pc[t] = "checked"
  /\ pc' = [pc EXCEPT ![t] = "waiting"]
  /\ UNCHANGED <<handler, call, queue, now, past>>

\* The second look, inside the lock, which wait gives back.
Lock(t) ==
  /\ pc[t] = "checked"
  /\ pc' = [pc EXCEPT ![t] = IF handler THEN "through" ELSE "waiting"]
  /\ UNCHANGED <<handler, call, queue, now, past>>

WakeUp(t) ==
  /\ pc[t] = "woken"
  /\ pc' = [pc EXCEPT ![t] = "through"]
  /\ UNCHANGED <<handler, call, queue, now, past>>

\* Handler.postDelayed: behind the messages that are due no later.
Enqueue(q, e) ==
  LET ahead == Cardinality({ i \in 1..Len(q) : q[i].when <= e.when })
  IN SubSeq(q, 1, ahead) \o <<e>> \o SubSeq(q, ahead + 1, Len(q))

Returns(t) == pc' = [pc EXCEPT ![t] = "out"] /\ call' = [call EXCEPT ![t] = NoCall]

\* The last look at the handler, which finds none if wait returned early.
CallDropped(t) ==
  /\ pc[t] = "through" /\ ~handler
  /\ dropped' = dropped \cup {call[t].n}
  /\ Returns(t)
  /\ UNCHANGED <<handler, queue, now, made, began, removed, crowd, spurious>>

Post(t) ==
  /\ pc[t] = "through" /\ handler /\ call[t].op = "post"
  /\ queue' = Enqueue(queue, [n |-> call[t].n, r |-> call[t].r,
                              when |-> now + call[t].delay])
  /\ Returns(t)
  /\ UNCHANGED <<handler, now, made, began, removed, crowd, dropped, spurious>>

\* removeCallbacks: every message of the runnable.
Cancel(t) ==
  /\ pc[t] = "through" /\ handler /\ call[t].op = "cancel"
  /\ queue' = SelectAt(queue, { i \in DOMAIN queue : queue[i].r # call[t].r })
  /\ removed' = removed \cup { e.n : e \in { x \in ToSet(queue) : x.r = call[t].r } }
  /\ Returns(t)
  /\ UNCHANGED <<handler, now, made, began, crowd, dropped, spurious>>

\* cleanupQueue, which logging out calls on the storage queue.
CleanupQueue ==
  /\ handler /\ queue # <<>>
  /\ queue' = <<>>
  /\ removed' = removed \cup { e.n : e \in ToSet(queue) }
  /\ UNCHANGED <<monitor, now, made, began, crowd, dropped, spurious>>

-----------------------------------------------------------------------------
(* The thread of the queue, the monitor and the clock. *)

\* (Mutant: the notify comes before the handler.)
RunNotifyingFirst ==
  /\ ~handler /\ Waiting # {}
  /\ \E t \in Waiting : pc' = [pc EXCEPT ![t] = "woken"]
  /\ UNCHANGED <<handler, call, crowd, queue, now, made, began, removed, dropped, spurious>>

\* run: the handler is made and one waiting thread is notified.
Run ==
  /\ ~handler
  /\ handler' = TRUE
  /\ \/ /\ Waiting = {} /\ UNCHANGED <<pc, crowd>>
     \/ \E t \in Waiting : /\ pc' = [pc EXCEPT ![t] = "woken"]
                           /\ crowd' = Waiting \ {t}
  /\ UNCHANGED <<call, queue, now, made, began, removed, dropped, spurious>>

\* (Mutant: a message whose time is now is not yet due.)
LoopLater ==
  /\ handler /\ queue # <<>> /\ queue[1].when < now
  /\ queue' = Tail(queue)
  /\ began' = Append(began, queue[1].n)
  /\ UNCHANGED <<monitor, now, made, removed, crowd, dropped, spurious>>

\* The looper runs the first message once it is due.
Loop ==
  /\ handler /\ queue # <<>> /\ queue[1].when <= now
  /\ queue' = Tail(queue)
  /\ began' = Append(began, queue[1].n)
  /\ UNCHANGED <<monitor, now, made, removed, crowd, dropped, spurious>>

WakesByItself(t) ==
  /\ pc[t] = "waiting" /\ Cardinality(spurious) < MaxSpurious
  /\ pc' = [pc EXCEPT ![t] = "woken"]
  /\ spurious' = spurious \cup {call[t].n}
  /\ UNCHANGED <<handler, call, queue, now, made, began, removed, crowd, dropped>>

\* Past its bound the clock goes on only while a message waits for its time.
TimePasses ==
  /\ now < MaxTime \/ (queue # <<>> /\ queue[1].when > now)
  /\ now' = now + 1
  /\ UNCHANGED <<monitor, queue, past>>

Init ==
  /\ handler = FALSE
  /\ call = [t \in Threads |-> NoCall] /\ pc = [t \in Threads |-> "out"]
  /\ queue = <<>> /\ now = 0
  /\ made = <<>> /\ began = <<>>
  /\ removed = {} /\ crowd = {} /\ dropped = {} /\ spurious = {}

Step(t) == Lock(t) \/ WakeUp(t) \/ CallDropped(t) \/ Post(t) \/ Cancel(t)

Next ==
  \/ \E t \in Threads : Step(t) \/ WakesByItself(t) \/ \E c \in Calls : Enter(t, c)
  \/ CleanupQueue \/ Run \/ Loop \/ TimePasses

Spec == Init /\ [][Next]_vars

\* Threads that have begun a call go on with it, the queue's thread starts and
\* runs what is due.
Fairness ==
  /\ WF_vars(Run) /\ WF_vars(Loop) /\ WF_vars(TimePasses)
  /\ \A t \in Threads : WF_vars(Step(t))

FairSpec == Spec /\ Fairness

-----------------------------------------------------------------------------
(* Properties. *)

\* The variables have their types, and the messages are in the order of their
\* times.
TypeOK ==
  /\ handler \in BOOLEAN /\ now \in Nat
  /\ \A t \in Threads :
       /\ pc[t] \in {"out", "checked", "waiting", "woken", "through"}
       /\ (pc[t] = "out") <=> (call[t] = NoCall)
  /\ \A i \in 1..Len(queue) :
       /\ queue[i].n \in 1..Len(made) /\ queue[i].r \in Runnables
       /\ \A j \in 1..i : queue[j].when <= queue[i].when
  /\ crowd \subseteq Threads /\ dropped \cup removed \cup spurious \subseteq 1..Len(made)

\* Once the queue has its handler, the only threads that still wait are those
\* that were waiting when another was notified: nobody begins to wait for a
\* notify that has been.
WaitsOnlyInCrowd == handler => Waiting \subseteq crowd

\* A call does nothing only if its thread was woken before there was a handler
\* to call.
DroppedOnlyIfWokenEarly == dropped \subseteq spurious

\* What a thread posts without a delay runs in the order it was posted, unless
\* it was cancelled, cleaned up or dropped.
RunsInOrder ==
  \A i, j \in 1..Len(made) :
     (/\ i < j /\ made[i].t = made[j].t
      /\ made[i].op = "post" /\ made[j].op = "post"
      /\ made[i].delay <= made[j].delay
      /\ j \in ToSet(began))
     => \/ i \in removed \cup dropped
        \/ \E k, l \in 1..Len(began) : k < l /\ began[k] = i /\ began[l] = j

\* A thread that posts a runnable with a delay after it has cancelled the last
\* one, as the delete tasks do, has no more than the one behind it, if no other
\* thread posts that runnable.
OneTimerAtATime ==
  \A j \in 1..Len(made) :
     (/\ made[j].op = "cancel" /\ pc[made[j].t] = "out"
      /\ \A i \in 1..Len(made) : made[i].r = made[j].r => made[i].t = made[j].t)
     => \A e \in ToSet(queue) : e.r = made[j].r => (e.n > j \/ j \in dropped)

\* Every call returns, unless its thread is one of the crowd.
EveryCallReturns ==
  \A t \in Threads : (pc[t] # "out") ~> (pc[t] = "out" \/ t \in crowd)

\* Everything that was put into the queue is run or taken out.
EveryPostRuns ==
  \A n \in 1..MaxCalls : (\E e \in ToSet(queue) : e.n = n) ~> (n \in ToSet(began) \cup removed)

\* What the queue keeps in every state: types, the order of what is posted, one
\* timer at a time, and calls dropped only by threads nobody woke.
QueueSafe == TypeOK /\ RunsInOrder /\ OneTimerAtATime /\ DroppedOnlyIfWokenEarly

\* Every call returns, and everything posted is run or taken out.
QueueMoves == EveryCallReturns /\ EveryPostRuns
=============================================================================
