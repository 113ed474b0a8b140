----------------------------- MODULE SendChain -----------------------------
(***************************************************************************)
(* How ConnectionsManager keeps the messages a user sends in order.  Each  *)
(* sending request is wrapped in invokeAfterMsg with the message id of the *)
(* send before it, and the server runs it once that one has succeeded.     *)
(* processRequestQueue works out which send is "before": the previous one  *)
(* of the same pass, or else the running send with the greatest id that is *)
(* not in the pass.                                                        *)
(*                                                                         *)
(* One datacenter and its generic connection, sends only, numbered in the  *)
(* order the user wrote them; RpcEngine has the engine's other paths.      *)
(***************************************************************************)
EXTENDS Integers, Sequences, FiniteSets, FiniteSetsExt, Selection

CONSTANTS
  MaxSends,   \* bound: messages the user sends
  MaxChannel, \* bound: TCP connections established
  MaxRetry,   \* bound: answers that ask for another attempt
  MaxLost     \* bound: server sessions lost

ASSUME BoundAssumption ==
  /\ MaxSends \in Nat \ {0} /\ MaxChannel \in Nat \ {0}
  /\ MaxRetry \in Nat /\ MaxLost \in Nat

Sends == 1..MaxSends

VARIABLES
  queue,    \* requestQueue
  running,  \* runningRequests, in list order
  msgId,    \* runningMessageId of each send; 0: none
  token,    \* transportChannelToken of each send
  due,      \* sends whose retry timeouts have elapsed
  leaving,  \* rpcCompleted runnables posted: ids
  lastId,   \* lastOutgoingMessageId
  channel,  \* channelToken of the connection; 0: not connected
  opened,   \* nextChannelToken - 1
  notice    \* tcpConnectionConnected is posted and has not run

VARIABLES   \* the server and the network, external to the source
  wire,     \* messages on their way over the channel, oldest first
  after,    \* what each received message id waits for; 0: nothing
  outcome,  \* answers of the server: "ok", "fail" or "retry", by message id
  owner,    \* the send each id belongs to
  lost,     \* ids of a session the server lost
  announce, \* new_session_created to be delivered: first_msg_id, or 0
  inbox     \* ids whose answers the client has not processed

VARIABLES   \* history, read by properties only
  asked,    \* sends performRpc was called for
  executed, \* sends the server has carried out, in that order
  done,     \* what the completion block of each send was told
  wiped,    \* sends that lost their id while they were running
  early,    \* sends sent again before the new connection was reported
  losses    \* sessions the server has lost

engine  == <<queue, running, msgId, token, due, lastId>>
network == <<channel, opened>>
server  == <<after, outcome, owner, lost>>
past    == <<asked, executed, done, wiped, early, losses>>
vars == <<engine, leaving, network, notice, wire, server, announce, inbox, past>>

Ids(s) == { s[i] : i \in 1..Len(s) }

-----------------------------------------------------------------------------
(* processRequestQueue. *)

\* A running send goes again when the pass forces it, or when it is due and
\* was not yet sent on the channel that is connected.
SendsAgain(r, tokens, dues, forced) ==
  channel # 0 /\ (forced \/ (r \in dues /\ tokens[r] # channel))

\* lastSendMessageRpcId as the pass begins: the greatest id of the running
\* sends that are not in the pass.
Before(rest, ids) == Max({0} \cup { ids[r] : r \in rest })

\* (Mutant: all sends of a pass follow the same one.)
ChainedToFirst(pass, rest, ids) ==
  [ i \in 1..Len(pass) |->
      [id |-> ids[pass[i]], r |-> pass[i], after |-> Before(rest, ids)] ]

\* The messages of a pass, each after the one before it.
Chained(pass, rest, ids) ==
  [ i \in 1..Len(pass) |->
      [id |-> ids[pass[i]], r |-> pass[i],
       after |-> IF i = 1 THEN Before(rest, ids) ELSE ids[pass[i - 1]]] ]

\* The whole call, from the values the calling handler has computed.
ProcessRequestQueue(q, run, ids, tokens, dues, forced) ==
  LET again    == SelectAt(run, { i \in DOMAIN run : SendsAgain(run[i], tokens, dues, forced) })
      promoted == IF channel = 0 THEN <<>> ELSE q
      pass     == again \o promoted
      fresh    == SelectAt(pass, { i \in DOMAIN pass : ids[pass[i]] = 0 })
      newIds   == [ r \in Sends |->
                      IF r \in Ids(fresh)
                      THEN lastId + (CHOOSE i \in 1..Len(fresh) : fresh[i] = r)
                      ELSE ids[r] ]
  IN /\ queue'   = IF channel = 0 THEN q ELSE <<>>
     /\ running' = run \o promoted
     /\ msgId'   = newIds
     /\ token'   = [ r \in Sends |-> IF r \in Ids(pass) THEN channel ELSE tokens[r] ]
     /\ due'     = dues \ Ids(pass)
     /\ lastId'  = lastId + Len(fresh)
     /\ wire'    = wire \o Chained(pass, Ids(run) \ Ids(again), newIds)
     /\ early'   = IF notice /\ ~forced THEN early \cup Ids(again) ELSE early

AsItIs(forced) == ProcessRequestQueue(queue, running, msgId, token, due, forced)

-----------------------------------------------------------------------------
(* The client. *)

\* performRpc's runnable.
Perform ==
  /\ asked < MaxSends
  /\ asked' = asked + 1
  /\ ProcessRequestQueue(Append(queue, asked + 1), running, msgId, token, due, FALSE)
  /\ UNCHANGED <<leaving, network, notice, server, announce, inbox, executed, done,
                 wiped, losses>>

\* The stageRunnable, and what else makes a pass of its own.
Tick ==
  /\ AsItIs(FALSE)
  /\ UNCHANGED <<leaving, network, notice, server, announce, inbox, asked, executed,
                 done, wiped, losses>>

\* The clock passes the retry timeouts of a running send.
TimePasses(r) ==
  /\ r \in Ids(running) \ due
  /\ due' = due \cup {r}
  /\ UNCHANGED <<queue, running, msgId, token, lastId, leaving, network, notice, wire,
                 server, announce, inbox, past>>

\* connectedClient: the channel is there at once, its report is a runnable.
Connect ==
  /\ channel = 0 /\ opened < MaxChannel
  /\ opened' = opened + 1 /\ channel' = opened + 1
  /\ notice' = TRUE
  /\ UNCHANGED <<engine, leaving, wire, server, announce, inbox, past>>

\* handleDisconnect: what was on its way is gone.
Disconnect ==
  /\ channel # 0 /\ opened < MaxChannel
  /\ channel' = 0 /\ wire' = <<>>
  /\ UNCHANGED <<engine, leaving, opened, notice, server, announce, inbox, past>>

\* tcpConnectionConnected: all that is running goes again.
RunConnected ==
  /\ notice
  /\ notice' = FALSE
  /\ AsItIs(TRUE)
  /\ UNCHANGED <<leaving, network, server, announce, inbox, asked, executed, done,
                 wiped, losses>>

\* rpc_result, and the pass that ends its processing.
RunResult(id) ==
  /\ id \in inbox /\ channel # 0
  /\ inbox' = inbox \ {id}
  /\ LET found == { r \in Ids(running) : msgId[r] = id }
         again == outcome[id] = "retry"
         wipe  == IF again THEN found ELSE {}
     IN /\ done' = [ r \in Sends |-> IF r \in found /\ ~again
                                     THEN outcome[id] ELSE done[r] ]
        /\ leaving' = IF again /\ found # {} THEN leaving ELSE leaving \cup {id}
        /\ wiped' = wiped \cup wipe
        /\ ProcessRequestQueue(queue, running,
             [ r \in Sends |-> IF r \in wipe THEN 0 ELSE msgId[r] ],
             [ r \in Sends |-> IF r \in wipe THEN 0 ELSE token[r] ], due, FALSE)
  /\ UNCHANGED <<network, notice, server, announce, asked, executed, losses>>

\* rpcCompleted's runnable.
RunCompleted(id) ==
  /\ id \in leaving
  /\ leaving' = leaving \ {id}
  /\ running' = SelectAt(running, { i \in DOMAIN running : msgId[running[i]] # id })
  /\ UNCHANGED <<queue, msgId, token, due, lastId, network, notice, wire, server,
                 announce, inbox, past>>

\* (Mutant: the sends keep their ids.)
NewSessionKeepsIds ==
  /\ announce # 0 /\ channel # 0
  /\ announce' = 0
  /\ UNCHANGED <<engine, leaving, network, notice, wire, server, inbox, past>>

\* new_session_created: the running sends older than its first message lose
\* their ids; they go again with the next pass.
RunNewSession ==
  /\ announce # 0 /\ channel # 0
  /\ announce' = 0
  /\ LET wipe == { r \in Ids(running) : msgId[r] < announce } IN
       /\ msgId' = [ r \in Sends |-> IF r \in wipe THEN 0 ELSE msgId[r] ]
       /\ token' = [ r \in Sends |-> IF r \in wipe THEN 0 ELSE token[r] ]
       /\ due'   = due \cup wipe
       /\ wiped' = wiped \cup wipe
  /\ UNCHANGED <<queue, running, lastId, leaving, network, notice, wire, server, inbox,
                 asked, executed, done, early, losses>>

-----------------------------------------------------------------------------
(* The server. *)

Received == DOMAIN after
Answered == DOMAIN outcome
Pending  == Received \ (Answered \cup lost)

\* The next message arrives; a message id it already has is ignored.
Receive ==
  /\ wire # <<>>
  /\ wire' = Tail(wire)
  /\ LET m == Head(wire) IN
       IF m.id \in Received THEN UNCHANGED <<after, owner>>
       ELSE /\ after' = [ i \in Received \cup {m.id} |->
                            IF i = m.id THEN m.after ELSE after[i] ]
            /\ owner' = [ i \in Received \cup {m.id} |->
                            IF i = m.id THEN m.r ELSE owner[i] ]
  /\ UNCHANGED <<engine, leaving, network, notice, outcome, lost, announce, inbox, past>>

Say(id, what) ==
  /\ outcome' = [ i \in Answered \cup {id} |-> IF i = id THEN what ELSE outcome[i] ]
  /\ inbox' = inbox \cup {id}

\* What the message waits for has succeeded, or it waits for nothing.
Ready(id) ==
  after[id] = 0 \/ (after[id] \in Answered /\ outcome[after[id]] = "ok")

\* A message it carried out under another id is known by its random_id.
Execute(id) ==
  /\ id \in Pending /\ Ready(id)
  /\ Say(id, "ok")
  /\ executed' = IF owner[id] \in Ids(executed) THEN executed
                 ELSE Append(executed, owner[id])
  /\ UNCHANGED <<engine, leaving, network, notice, wire, after, owner, lost, announce,
                 asked, done, wiped, early, losses>>

\* An error that is not final: 500, or 420 FLOOD_WAIT.
AskAgain(id) ==
  /\ id \in Pending /\ Ready(id)
  /\ Cardinality({ i \in Answered : outcome[i] = "retry" }) < MaxRetry
  /\ Say(id, "retry")
  /\ UNCHANGED <<engine, leaving, network, notice, wire, after, owner, lost, announce,
                 past>>

\* Messages that wait for one another.
Circle ==
  { id \in Pending : \E S \in SUBSET Pending :
      id \in S /\ \A x \in S : after[x] \in S }

\* The message waits for one that failed, that was lost, or for itself.
Hopeless(id) ==
  \/ after[id] \in Answered /\ outcome[after[id]] # "ok"
  \/ after[id] \in lost
  \/ /\ after[id] \notin {0} \cup Received
     /\ \A r \in Sends : msgId[r] # after[id]
     /\ \A i \in 1..Len(wire) : wire[i].id # after[id]
  \/ id \in Circle

\* The wait of such a message fails.
WaitFails(id) ==
  /\ id \in Pending /\ ~Ready(id) /\ Hopeless(id)
  /\ Say(id, "fail")
  /\ UNCHANGED <<engine, leaving, network, notice, wire, after, owner, lost, announce,
                 past>>

\* The server loses its session with the messages it has not answered, and
\* announces the new one with the first message it gets.
LoseSession ==
  /\ wire # <<>> /\ announce = 0 /\ losses < MaxLost
  /\ Head(wire).id \notin Received
  /\ \E id \in Pending : id < Head(wire).id
  /\ losses' = losses + 1
  /\ lost' = lost \cup { id \in Pending : id < Head(wire).id }
  /\ announce' = Head(wire).id
  /\ UNCHANGED <<engine, leaving, network, notice, wire, after, outcome, owner, inbox,
                 asked, executed, done, wiped, early>>

-----------------------------------------------------------------------------

Init ==
  /\ queue = <<>> /\ running = <<>>
  /\ msgId = [r \in Sends |-> 0] /\ token = [r \in Sends |-> 0] /\ due = {}
  /\ leaving = {} /\ lastId = 0
  /\ channel = 0 /\ opened = 0 /\ notice = FALSE
  /\ wire = <<>> /\ after = <<>> /\ outcome = <<>> /\ owner = <<>> /\ lost = {}
  /\ announce = 0 /\ inbox = {}
  /\ asked = 0 /\ executed = <<>> /\ done = [r \in Sends |-> "none"]
  /\ wiped = {} /\ early = {} /\ losses = 0

Stage ==
  \/ \E id \in leaving : RunCompleted(id)
  \/ RunNewSession
  \/ \E id \in inbox : RunResult(id)
  \/ RunConnected \/ Tick

Server ==
  \/ Receive
  \/ \E id \in Pending : Execute(id) \/ WaitFails(id)

Next ==
  \/ Perform \/ Stage \/ Server
  \/ \E r \in Sends : TimePasses(r)
  \/ Connect \/ Disconnect
  \/ \E id \in Pending : AskAgain(id)
  \/ LoseSession

Spec == Init /\ [][Next]_vars

\* The stage thread and its timers run, a connection is tried again until it is
\* there, and the server works on what it receives.
Works ==
  \/ \E r \in Sends : TimePasses(r)
  \/ Connect \/ Server \/ Stage

Fairness == WF_vars(Works)

FairSpec == Spec /\ Fairness

-----------------------------------------------------------------------------
(* Properties. *)

TypeOK ==
  /\ queue \in Seq(Sends) /\ running \in Seq(Sends)
  /\ msgId \in [Sends -> Nat] /\ token \in [Sends -> 0..MaxChannel]
  /\ due \subseteq Sends /\ leaving \subseteq 1..lastId
  /\ lastId \in Nat /\ channel \in {0, opened} /\ opened \in 0..MaxChannel
  /\ notice \in BOOLEAN
  /\ \A i \in 1..Len(wire) :
       wire[i] \in [id : 1..lastId, r : Sends, after : 0..lastId]
  /\ Received \subseteq 1..lastId /\ DOMAIN owner = Received
  /\ Answered \subseteq Received /\ lost \subseteq Received /\ inbox \subseteq Answered
  /\ done \in [Sends -> {"none", "ok", "fail"}]

\* The messages arrive in the order the user wrote them, with two exceptions.
\* One whose id was taken away (an answer asked to try again, or a session was
\* lost) has a new id when it goes again, greater than those of messages
\* written after it: they may overtake it and, as the greatest id is taken for
\* the last message, later ones may overtake them.  And a pass that runs in the
\* time between the channel token being set by the network thread and the
\* report of the connection on the stage thread may leave out one before it.
InOrder ==
  \A i, j \in 1..Len(executed) :
    i < j /\ executed[i] > executed[j] =>
      early # {} \/ \E r \in wiped : r <= executed[j]

\* The server never finds messages waiting for one another, unless a message
\* was sent again in that time, alone: its pass makes it wait for the later one.
CircleOnlyEarly == Circle # {} => early # {}

\* No message is refused here for what it says.  The user sees one fail only
\* because the server asked for another attempt of it or of one written before
\* it, because of a lost session, or for a circle.
FailsOnlyBehind ==
  \A r \in Sends : done[r] = "fail" =>
    \/ early # {} \/ lost # {}
    \/ \E i \in Answered : outcome[i] = "retry" /\ owner[i] <= r

\* Every message the user sends is carried out or reported as failed.
EverySendEnds == \A r \in Sends : asked >= r ~> done[r] # "none"

\* What the chain keeps in every state: types, the order of the messages, no
\* circle of messages waiting for one another, and failures only behind one.
ChainSafe == TypeOK /\ InOrder /\ CircleOnlyEarly /\ FailsOnlyBehind
=============================================================================
