---------------------------- MODULE RequestGuids ----------------------------
(***************************************************************************)
(* How a screen gets rid of its requests.  performRpc returns a token; the *)
(* screen's caller binds it to the class guid of the screen, and closing   *)
(* the screen cancels every token bound to its guid.  Tokens come from     *)
(* nextCallToken, which any thread increments; the lists belong to the UI  *)
(* thread, the requests to the stage thread, and each thread hears of what *)
(* the other did through its queue.                                        *)
(***************************************************************************)
EXTENDS Integers, Sequences, FiniteSets, SequencesExt, Selection

CONSTANTS
  Requests,   \* requests, each performed once, by a thread of its own
  Screens,    \* class guids
  Screen      \* the screen that performs each request

ScreenAssumption == IsFiniteSet(Requests) /\ Screen \in [Requests -> Screens]

VARIABLES
  nextCallToken,   \* the shared counter
  read,            \* what the thread of each request has read of it; 0: nothing
  token,           \* the token of each request performed; 0: none
  unbound,         \* requests whose thread has the token and has yet to bind it
  stage,           \* runnables of the stage queue
  ui,              \* runnables of the UI thread
  queue,           \* requestQueue
  running,         \* runningRequests
  requestsByGuids, \* the tokens bound to each open screen, in list order
  requestsByClass  \* the screen each token was bound to

VARIABLES     \* history, read by properties only
  closed,     \* screens that were closed
  cancelled,  \* requests cancelRpc took away, with the screen it was done for
  answered,   \* requests whose completion block has run
  loosed,     \* tokens taken from their screen when another request completed
  late,       \* tokens that were to be bound when the screen was closed
  early       \* tokens removed before they were bound

stageVars == <<queue, running>>
uiVars    == <<requestsByGuids, requestsByClass>>
tokens    == <<nextCallToken, read, token, unbound>>
history   == <<closed, cancelled, answered, loosed, late, early>>
vars == <<tokens, stage, ui, stageVars, uiVars, history>>

Tokens == 1..(2 * Cardinality(Requests))

-----------------------------------------------------------------------------
(* performRpc, on any thread: the counter is read and written, and the      *)
(* request posted.  Then the thread binds the token it has got.             *)

ReadToken(r) ==
  /\ token[r] = 0 /\ read[r] = 0 /\ Screen[r] \notin closed
  /\ read' = [read EXCEPT ![r] = nextCallToken]
  /\ UNCHANGED <<nextCallToken, token, unbound, stage, ui, stageVars, uiVars, history>>

WriteToken(r) ==
  /\ token[r] = 0 /\ read[r] # 0
  /\ nextCallToken' = read[r] + 1
  /\ token' = [token EXCEPT ![r] = read[r]]
  /\ stage' = Append(stage, [op |-> "perform", r |-> r])
  /\ unbound' = unbound \cup {r}
  /\ UNCHANGED <<read, ui, stageVars, uiVars, history>>

\* bindRequestToGuid.
BindToken(r) ==
  /\ r \in unbound
  /\ unbound' = unbound \ {r}
  /\ ui' = Append(ui, [op |-> "bind", token |-> token[r], guid |-> Screen[r]])
  /\ UNCHANGED <<nextCallToken, read, token, stage, stageVars, uiVars, history>>

-----------------------------------------------------------------------------
(* The UI thread. *)

\* bindRequestToGuid's runnable.
RunBind ==
  /\ ui # <<>> /\ Head(ui).op = "bind"
  /\ ui' = Tail(ui)
  /\ LET t == Head(ui).token
         g == Head(ui).guid
     IN IF g \in closed
        THEN late' = late \cup {t} /\ UNCHANGED uiVars
        ELSE /\ requestsByGuids' = [requestsByGuids EXCEPT ![g] = Append(@, t)]
             /\ requestsByClass' = [requestsByClass EXCEPT ![t] = {g}]
             /\ UNCHANGED late
  /\ UNCHANGED <<tokens, stage, stageVars, closed, cancelled, answered, loosed, early>>

\* ArrayList.remove: the first of the elements equal to t goes.
WithoutFirst(list, t) ==
  SelectAt(list, { i \in DOMAIN list : list[i] = t => \E j \in 1..(i - 1) : list[j] = t })

\* removeRequestInClass's runnable.
RunRemove ==
  /\ ui # <<>> /\ Head(ui).op = "remove"
  /\ ui' = Tail(ui)
  /\ LET t == Head(ui).token IN
       /\ requestsByGuids' = [g \in Screens |->
            IF g \in requestsByClass[t] \ closed
            THEN WithoutFirst(requestsByGuids[g], t) ELSE requestsByGuids[g]]
       /\ early' = IF requestsByClass[t] = {} THEN early \cup {t} ELSE early
  /\ UNCHANGED <<tokens, stage, stageVars, requestsByClass, closed, cancelled, answered,
                 loosed, late>>

Cancels(ts, g) == [i \in 1..Len(ts) |-> [op |-> "cancel", token |-> ts[i], guid |-> g]]

\* cancelRpcsForClassGuid, when the screen is destroyed.
Close(g) ==
  /\ g \notin closed
  /\ closed' = closed \cup {g}
  /\ stage' = stage \o Cancels(requestsByGuids[g], g)
  /\ requestsByGuids' = [requestsByGuids EXCEPT ![g] = <<>>]
  /\ UNCHANGED <<tokens, ui, stageVars, requestsByClass, cancelled, answered, loosed,
                 late, early>>

-----------------------------------------------------------------------------
(* The stage thread. *)

\* performRpc's runnable.
RunPerform ==
  /\ stage # <<>> /\ Head(stage).op = "perform"
  /\ stage' = Tail(stage)
  /\ queue' = Append(queue, Head(stage).r)
  /\ UNCHANGED <<tokens, ui, running, uiVars, history>>

\* A pass gives a queued request a slot.
Promote ==
  /\ queue # <<>>
  /\ queue' = Tail(queue) /\ running' = Append(running, Head(queue))
  /\ UNCHANGED <<tokens, stage, ui, uiVars, history>>

\* The first request of a list with a token, if there is one.
FirstWith(list, t) ==
  { list[i] : i \in { i \in DOMAIN list : /\ token[list[i]] = t
                                         /\ \A j \in 1..(i - 1) : token[list[j]] # t } }

Without(list, gone) == SelectAt(list, { i \in DOMAIN list : list[i] \notin gone })

\* (Mutant: the first running request is taken.)
RunCancelFirst ==
  /\ stage # <<>> /\ Head(stage).op = "cancel"
  /\ stage' = Tail(stage)
  /\ LET gone == { running[i] : i \in DOMAIN running \cap {1} }
     IN /\ running' = Without(running, gone)
        /\ cancelled' = cancelled \cup { <<r, Head(stage).guid>> : r \in gone }
  /\ UNCHANGED <<tokens, ui, queue, uiVars, closed, answered, loosed, late, early>>

\* cancelRpc's runnable: the first queued and the first running request with
\* the token go; for the latter a rpc_drop_answer is performed.
RunCancel ==
  /\ stage # <<>> /\ Head(stage).op = "cancel"
  /\ stage' = Tail(stage)
  /\ LET t    == Head(stage).token
         sent == FirstWith(running, t)
         gone == FirstWith(queue, t) \cup sent
     IN /\ queue' = Without(queue, gone)
        /\ running' = Without(running, gone)
        /\ cancelled' = cancelled \cup { <<r, Head(stage).guid>> : r \in gone }
        /\ nextCallToken' = IF sent # {} THEN nextCallToken + 1 ELSE nextCallToken
  /\ UNCHANGED <<read, token, unbound, ui, uiVars, closed, answered, loosed, late, early>>

\* A request is answered: its block runs, its removal is posted.
Answer(r) ==
  /\ r \in ToSet(running) \ answered
  /\ answered' = answered \cup {r}
  /\ stage' = Append(stage, [op |-> "completed", r |-> r])
  /\ UNCHANGED <<tokens, ui, stageVars, uiVars, closed, cancelled, loosed, late, early>>

Removals(list) == [i \in 1..Len(list) |-> [op |-> "remove", token |-> token[list[i]]]]

\* rpcCompleted's runnable: removeRequestInClass is called for every running
\* request that is looked at, which is all of them.
RunCompleted ==
  /\ stage # <<>> /\ Head(stage).op = "completed"
  /\ stage' = Tail(stage)
  /\ ui' = ui \o Removals(running)
  /\ running' = Without(running, {Head(stage).r})
  /\ loosed' = loosed \cup { token[r] : r \in ToSet(running) \ {Head(stage).r} }
  /\ UNCHANGED <<tokens, queue, uiVars, closed, cancelled, answered, late, early>>

-----------------------------------------------------------------------------

Init ==
  /\ nextCallToken = 1
  /\ read = [r \in Requests |-> 0] /\ token = [r \in Requests |-> 0]
  /\ unbound = {}
  /\ stage = <<>> /\ ui = <<>> /\ queue = <<>> /\ running = <<>>
  /\ requestsByGuids = [g \in Screens |-> <<>>]
  /\ requestsByClass = [t \in Tokens |-> {}]
  /\ closed = {} /\ cancelled = {} /\ answered = {}
  /\ loosed = {} /\ late = {} /\ early = {}

Next ==
  \/ \E r \in Requests : ReadToken(r) \/ WriteToken(r) \/ BindToken(r) \/ Answer(r)
  \/ \E g \in Screens : Close(g)
  \/ RunBind \/ RunRemove
  \/ RunPerform \/ Promote \/ RunCancel \/ RunCompleted

Spec == Init /\ [][Next]_vars

-----------------------------------------------------------------------------
(* Properties. *)

TypeOK ==
  /\ nextCallToken \in Nat \ {0}
  /\ read \in [Requests -> Tokens \cup {0}] /\ token \in [Requests -> Tokens \cup {0}]
  /\ unbound \subseteq Requests /\ queue \in Seq(Requests) /\ running \in Seq(Requests)
  /\ ToSet(queue) \cap ToSet(running) = {}
  /\ \A g \in Screens : ToSet(requestsByGuids[g]) \subseteq Tokens
  /\ requestsByClass \in [Tokens -> SUBSET Screens]
  /\ answered \subseteq Requests /\ closed \subseteq Screens

\* The counter was read, or set back, between another's reading and writing it.
Shared(r) == \E q \in Requests \ {r} : token[q] = token[r] /\ token[r] # 0

\* Closing a screen cancels no request of another screen, unless two threads
\* drew the same token.
OnlyItsOwn ==
  \A c \in cancelled : Screen[c[1]] = c[2] \/ Shared(c[1])

Idle == unbound = {} /\ stage = <<>> /\ ui = <<>>

\* Once a screen is closed and all threads have caught up, a request of it
\* is still queued or running only if its token was shared, was bound too late,
\* or was taken from the screen when some other request completed.
ClosedScreenIsQuiet ==
  Idle => \A r \in ToSet(queue) \cup ToSet(running) :
    Screen[r] \in closed =>
      Shared(r) \/ token[r] \in late \/ token[r] \in loosed

\* The list of an open screen holds no token of a request that has ended,
\* unless its removal ran before it was bound, or the token was shared.
NoLeftovers ==
  Idle => \A g \in Screens \ closed : \A t \in ToSet(requestsByGuids[g]) :
    \/ \E r \in ToSet(queue) \cup ToSet(running) : token[r] = t
    \/ t \in early
    \/ \E r \in Requests : token[r] = t /\ Shared(r)

\* What the binding of requests to screens keeps in every state: types, requests
\* of other screens, quiet after a screen is closed, and no leftovers before.
GuidsSafe == TypeOK /\ OnlyItsOwn /\ ClosedScreenIsQuiet /\ NoLeftovers
=============================================================================
