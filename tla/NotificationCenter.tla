-------------------------- MODULE NotificationCenter --------------------------
(***************************************************************************)
(* Observers of notifications.  A broadcast holds the lock and calls the   *)
(* observers one by one; what they do there (post again, add and remove    *)
(* observers) happens inside it, and additions and removals wait for its   *)
(* end, one of each kind for each notification.                            *)
(***************************************************************************)
EXTENDS Integers, Sequences, FiniteSets, SequencesExt, Selection

CONSTANTS
  Names, Observers,
  MaxDepth,     \* bound: broadcasts inside one another
  MaxChanges    \* bound: calls of addObserver and removeObserver

BoundsAssumption == MaxDepth \in Nat /\ MaxChanges \in Nat

VARIABLES
  observers,              \* the list of each notification
  broadcasts,             \* those under way: their notification, observers called,
                          \* and (history) the list they began with
  addAfterBroadcast, removeAfterBroadcast   \* for each notification nobody or one observer
VARIABLES                 \* history
  wished,                 \* who should be registered, by the last call for each
  astray,                 \* pairs of which a waiting change was lost or undone
  changes

vars == <<observers, broadcasts, addAfterBroadcast, removeAfterBroadcast, wished, astray, changes>>

NoChange == [n \in Names |-> {}]

-----------------------------------------------------------------------------
(* The list with and without the observers of a set (of one, or of none).   *)
Removed(list, os) == SelectAt(list, { i \in DOMAIN list : list[i] \notin os })

Added(list, os) == list \o SetToSeq(os \ ToSet(list))

Post(n) ==
  /\ Len(broadcasts) < MaxDepth
  /\ broadcasts' = Append(broadcasts, [name |-> n, called |-> 0, list |-> observers[n]])
  /\ UNCHANGED <<observers, addAfterBroadcast, removeAfterBroadcast, wished, astray, changes>>

(* The innermost broadcast calls the next observer. *)
Call ==
  /\ broadcasts # <<>>
  /\ Last(broadcasts).called < Len(observers[Last(broadcasts).name])
  /\ broadcasts' = [broadcasts EXCEPT ![Len(broadcasts)].called = @ + 1]
  /\ UNCHANGED <<observers, addAfterBroadcast, removeAfterBroadcast, wished, astray, changes>>

(* What waited, once no broadcast is under way: first removals, then additions. *)
(* (Mutant: additions before removals.) *)
ChangedAddedFirst(n) == Removed(Added(observers[n], addAfterBroadcast[n]), removeAfterBroadcast[n])

Changed(n) == Added(Removed(observers[n], removeAfterBroadcast[n]), addAfterBroadcast[n])

EndPost ==
  /\ broadcasts # <<>>
  /\ Last(broadcasts).called = Len(observers[Last(broadcasts).name])
  /\ broadcasts' = Front(broadcasts)
  /\ IF broadcasts' = <<>>
       THEN /\ observers' = [n \in Names |-> Changed(n)]
            /\ addAfterBroadcast' = NoChange /\ removeAfterBroadcast' = NoChange
       ELSE UNCHANGED <<observers, addAfterBroadcast, removeAfterBroadcast>>
  /\ UNCHANGED <<wished, astray, changes>>

(* A change that waits takes the place of one waiting for another observer; *)
(* a removal is undone by an addition that waits, and so done in vain.      *)
Lost(waiting, n, o) == {n} \X (waiting[n] \ {o})
InVain(n, o) == {n} \X (addAfterBroadcast[n] \cap {o})

AddObserver(o, n) ==
  /\ changes < MaxChanges
  /\ changes' = changes + 1
  /\ wished' = [wished EXCEPT ![n] = @ \cup {o}]
  /\ IF broadcasts # <<>>
       THEN /\ addAfterBroadcast' = [addAfterBroadcast EXCEPT ![n] = {o}]
            /\ astray' = (astray \ {<<n, o>>}) \cup Lost(addAfterBroadcast, n, o)
            /\ UNCHANGED observers
       ELSE /\ observers' = [observers EXCEPT ![n] = Added(@, {o})]
            /\ astray' = astray \ {<<n, o>>}
            /\ UNCHANGED addAfterBroadcast
  /\ UNCHANGED <<broadcasts, removeAfterBroadcast>>

RemoveObserver(o, n) ==
  /\ changes < MaxChanges
  /\ changes' = changes + 1
  /\ wished' = [wished EXCEPT ![n] = @ \ {o}]
  /\ IF broadcasts # <<>>
       THEN /\ removeAfterBroadcast' = [removeAfterBroadcast EXCEPT ![n] = {o}]
            /\ astray' = (astray \ {<<n, o>>}) \cup Lost(removeAfterBroadcast, n, o) \cup InVain(n, o)
            /\ UNCHANGED observers
       ELSE /\ observers' = [observers EXCEPT ![n] = Removed(@, {o})]
            /\ astray' = astray \ {<<n, o>>}
            /\ UNCHANGED removeAfterBroadcast
  /\ UNCHANGED <<broadcasts, addAfterBroadcast>>

-----------------------------------------------------------------------------
Init ==
  /\ observers = [n \in Names |-> <<>>] /\ broadcasts = <<>>
  /\ addAfterBroadcast = NoChange /\ removeAfterBroadcast = NoChange
  /\ wished = [n \in Names |-> {}] /\ astray = {} /\ changes = 0

Next ==
  \/ Call \/ EndPost
  \/ \E n \in Names : Post(n) \/ \E o \in Observers : AddObserver(o, n) \/ RemoveObserver(o, n)

Spec == Init /\ [][Next]_vars

-----------------------------------------------------------------------------
Pairs == Names \X Observers

TypeOK ==
  /\ observers \in [Names -> Seq(Observers)]
  /\ broadcasts \in Seq([name : Names, called : Nat, list : Seq(Observers)])
  /\ \A i \in DOMAIN broadcasts : broadcasts[i].called <= Len(observers[broadcasts[i].name])
  /\ addAfterBroadcast \in [Names -> SUBSET Observers]
  /\ removeAfterBroadcast \in [Names -> SUBSET Observers]
  /\ wished \in [Names -> SUBSET Observers]
  /\ astray \subseteq Pairs /\ changes \in Nat

(* Outside broadcasts the observers are those the calls made, but for an    *)
(* observer whose change, asked inside a broadcast, was lost to another of  *)
(* the same notification or undone by its own addition.                     *)
AsWished ==
  broadcasts = <<>> =>
    \A n \in Names, o \in Observers :
      <<n, o>> \notin astray => (o \in ToSet(observers[n]) <=> o \in wished[n])

(* An observer is in a list once: it is called once for a notification.     *)
CalledOnce == \A n \in Names : IsInjective(observers[n])

(* No list is changed by what is called out of a broadcast that walks it:   *)
(* the iteration of postNotificationName would fail.                        *)
NotChangedUnderway ==
  \A i \in DOMAIN broadcasts : observers[broadcasts[i].name] = broadcasts[i].list

(* What the center keeps in every state: types, the lists the calls made,   *)
(* an observer once in each, and none changed while it is walked.           *)
ObserversSafe == TypeOK /\ AsWished /\ CalledOnce /\ NotChangedUnderway
=============================================================================
