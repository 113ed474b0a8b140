----------------------------- MODULE RpcEngine -----------------------------
(***************************************************************************)
(* The request engine of ConnectionsManager: the life of an RPC from       *)
(* performRpc to its completion block, over the connections of one         *)
(* datacenter.                                                             *)
(*                                                                         *)
(* All state below belongs to the "stage" thread (Utilities.stageQueue),   *)
(* except the channel tokens, which the network thread writes.  Other      *)
(* threads only post runnables, so an action of this module is either one  *)
(* such post or the execution, from start to end, of the runnable at the   *)
(* head of the stage queue.                                                *)
(*                                                                         *)
(* requestQueue and runningRequests are ArrayLists that only grow at the   *)
(* end and keep their order.  Within a class, requests leave the first for *)
(* the second in the order they arrived, and no other order counts:        *)
(* classes have slots and connections of their own.  Both lists are sets   *)
(* here, ordered by arrival.                                               *)
(***************************************************************************)
EXTENDS Integers, Sequences, FiniteSets

CONSTANTS
  Requests,    \* the requests the application performs, each once
  Classes,     \* transport classes in use, a subset of AllClasses
  Class,       \* the class of each request
  Limit,       \* running requests allowed per class (60, 5 and 5 in the code)
  RetryMax,    \* attempts a download gets before it fails (3 in the code)
  MaxStage,    \* bound: runnables other threads may pile up on the stage queue
  MaxId,       \* bound: no server fault once this many message ids are used
  MaxChannel,  \* bound: TCP connections that may be established
  MaxReset,    \* bound: server sessions lost, messages refused and logouts
  MaxCancel    \* bound: requests that are cancelled

AllClasses == {"generic", "download", "upload"}

ASSUME ClassAssumption ==
  /\ Classes \subseteq AllClasses
  /\ Class \in [Requests -> Classes]
  /\ Limit \in [Classes -> Nat \ {0}]
ASSUME FiniteAssumption == IsFiniteSet(Requests)
ASSUME BoundAssumption ==
  /\ RetryMax \in Nat \ {0}
  /\ MaxStage \in Nat /\ MaxId \in Nat /\ MaxChannel \in Nat
  /\ MaxReset \in Nat /\ MaxCancel \in Nat

VARIABLES
  stage,       \* runnables posted to the stage queue, oldest first
  queue,       \* requestQueue
  running,     \* runningRequests
  arrival,     \* position in which a request entered requestQueue; 0: not yet
  msgId,       \* runningMessageId; 0: none assigned
  chan,        \* transportChannelToken: the channel it was last sent on
  due,         \* its retry timeouts have elapsed
  retry,       \* retryCount, which only downloads read
  wait,        \* requests answered by FLOOD_WAIT: RPCRequest.wait
  completed,   \* requests whose RPCRequest.completed is set
  lastId,      \* lastOutgoingMessageId
  channel,     \* channelToken of each class's connection; 0: not connected
  lastChannel, \* nextChannelToken - 1
  session,     \* the session id of the connections, as a generation number
  seenAnswers, \* processedMessageIds: ids of the answers processed
  seenSessions \* processedSessionChanges: server sessions already announced

VARIABLES      \* the server and the network, external to the source
  wire,        \* every message handed to a connection, by channel
  answered,    \* the server's answers, at most one for each message id
  refused,     \* message ids the server will never answer
  announced    \* new_session_created announcements made

VARIABLES      \* history, read by properties only
  asked,       \* requests performRpc was called for
  revoked,     \* requests cancelRpc was called for
  calls,       \* times each completion block has run
  overtaken    \* requests reset or failed between completion and removal

engineVars == <<queue, running, arrival, msgId, chan, due, retry, wait,
                completed, lastId, session, seenAnswers, seenSessions>>
netVars    == <<channel, lastChannel>>
serverVars == <<answered, refused, announced>>
callerVars == <<asked, revoked>>
histVars   == <<calls, overtaken>>
vars == <<stage, engineVars, netVars, wire, serverVars, callerVars, histVars>>

-----------------------------------------------------------------------------
(* Runnables. *)

Outcomes == {"ok", "fail", "retry", "flood"}

Runnables ==
  [op : {"perform", "cancel", "cancelIfNotSent"}, r : Requests]
    \cup [op : {"answer"}, sess : Nat, id : Nat, out : Outcomes]
    \cup [op : {"newSession"}, sess : Nat, cls : Classes, u : Nat, first : Nat]
    \cup [op : {"badMsg", "badSalt"}, sess : Nat]
    \cup [op : {"rpcCompleted"}, id : Nat]
    \cup [op : {"connected"}, cls : Classes]
    \cup [op : {"cleanUp", "drop"}]

Messages  == [id : Nat, r : Requests, sess : Nat, chan : Nat]
Answers   == [id : Nat, out : Outcomes]
Announces == [sess : Nat, cls : Classes, u : Nat, first : Nat]

Room == Len(stage) < MaxStage

\* Another thread posts a runnable.
Post(runnable) == stage' = Append(stage, runnable)

\* The stage thread runs the runnable at the head, which posts the others.
HeadIs(ops) == stage # <<>> /\ Head(stage).op \in ops
RunPosting(runnables) == stage' = Tail(stage) \o runnables
Run == RunPosting(<<>>)

-----------------------------------------------------------------------------
(* processRequestQueue. *)

\* (Mutant: the clock alone, two ids may be equal.)
NumberingsByClock(fresh) ==
  [fresh -> (lastId + 1)..(lastId + Cardinality(fresh))]

\* The ways to number the requests of fresh by generateMessageId: one id each,
\* those of a class in the order they arrived.
Numberings(fresh) ==
  { f \in [fresh -> (lastId + 1)..(lastId + Cardinality(fresh))] :
      \A x, y \in fresh :
        /\ x # y => f[x] # f[y]
        /\ Class[x] = Class[y] /\ arrival'[x] < arrival'[y] => f[x] < f[y] }

\* A running request is sent again when the call forces its class, or when it
\* is due and was not yet sent on the channel that is now connected.
SendsAgain(r, ids, chans, dues, forced) ==
  /\ channel[Class[r]] # 0
  /\ \/ Class[r] \in forced
     \/ dues[r] /\ chans[r] # channel[Class[r]]

\* A download's last attempt; one told to wait does not get another.
OutOfRetries(r) ==
  Class[r] = "download" /\ (retry[r] + 1 >= RetryMax \/ r \in wait')

\* (Mutant: requests already running are not counted.)
GetsSlotOfQueued(r, q, run) ==
  /\ Class[r] = "generic" => channel[Class[r]] # 0
  /\ Cardinality({x \in q : Class[x] = Class[r] /\ arrival'[x] <= arrival'[r]})
       <= Limit[Class[r]]

\* A queued request gets one of the slots of its class that run leaves free.
GetsSlot(r, q, run) ==
  /\ Class[r] = "generic" => channel[Class[r]] # 0
  /\ Cardinality({x \in q : Class[x] = Class[r] /\ arrival'[x] <= arrival'[r]})
       + Cardinality({x \in run : Class[x] = Class[r]}) <= Limit[Class[r]]

\* (Mutant: every transmission gets an id of its own.)
NewIdEachTime(r, ids) == TRUE

\* A request keeps its id when it is sent again, unless the id was wiped.
NeedsId(r, ids) == ids[r] = 0

\* The whole call, from the values the calling handler has already computed:
\* queued and running requests, their ids, channels and timeouts, and the
\* completion counts.  forced: the classes to be sent again regardless.
ProcessRequestQueue(q, run, ids, chans, dues, done, forced) ==
  LET again    == { r \in run : SendsAgain(r, ids, chans, dues, forced) }
      expired  == { r \in again : OutOfRetries(r) }
      left     == run \ expired
      promoted == { r \in q : GetsSlot(r, q, left) }
      sent     == (again \ expired) \cup promoted
      fresh    == promoted \cup { r \in again \ expired : NeedsId(r, ids) }
  IN \E new \in Numberings(fresh) :
       /\ queue'   = q \ promoted
       /\ running' = left \cup promoted
       /\ msgId'   = [r \in Requests |-> IF r \in fresh THEN new[r] ELSE ids[r]]
       /\ chan'    = [r \in Requests |->
                        IF r \in sent THEN channel[Class[r]] ELSE chans[r]]
       /\ due'     = [r \in Requests |-> dues[r] /\ r \notin sent]
       /\ retry'   = [r \in Requests |->
                        IF r \in again /\ Class[r] = "download"
                        THEN retry[r] + 1 ELSE retry[r]]
       /\ calls'   = [r \in Requests |->
                        IF r \in expired THEN done[r] + 1 ELSE done[r]]
       /\ overtaken' = overtaken \cup (expired \cap completed')
       /\ lastId'  = lastId + Cardinality(fresh)
       /\ wire'    = wire \cup
            { [id |-> msgId'[r], r |-> r, sess |-> session,
               chan |-> channel[Class[r]]] : r \in sent }

\* The call made with the requests as they are.
ProcessAsIs(forced) ==
  ProcessRequestQueue(queue, running, msgId, chan, due, calls, forced)

\* (Mutant: the channel token survives.)
ForgetIdsOnly(lost) ==
  /\ msgId' = [r \in Requests |-> IF r \in lost THEN 0 ELSE msgId[r]]
  /\ due'  = [r \in Requests |-> due[r] \/ r \in lost]
  /\ overtaken' = overtaken \cup (lost \cap completed)
  /\ UNCHANGED chan

\* A request list whose ids, channels and start times are wiped.
Forget(lost) ==
  /\ msgId' = [r \in Requests |-> IF r \in lost THEN 0 ELSE msgId[r]]
  /\ chan'  = [r \in Requests |-> IF r \in lost THEN 0 ELSE chan[r]]
  /\ due'   = [r \in Requests |-> due[r] \/ r \in lost]
  /\ overtaken' = overtaken \cup (lost \cap completed)


-----------------------------------------------------------------------------
(* Calls from other threads: each posts a runnable. *)

PerformRpc(r) ==
  /\ r \notin asked /\ Room
  /\ asked' = asked \cup {r}
  /\ Post([op |-> "perform", r |-> r])
  /\ UNCHANGED <<engineVars, netVars, wire, serverVars, revoked, histVars>>

CancelRpc(r, ifNotSent) ==
  /\ r \in asked \ revoked /\ Room /\ Cardinality(revoked) < MaxCancel
  /\ revoked' = revoked \cup {r}
  /\ Post([op |-> IF ifNotSent THEN "cancelIfNotSent" ELSE "cancel", r |-> r])
  /\ UNCHANGED <<engineVars, netVars, wire, serverVars, asked, histVars>>

\* Logging out.  The application waits for one cleanUp before the next.
CleanUp ==
  /\ session < MaxReset /\ Room
  /\ \A i \in 1..Len(stage) : stage[i].op # "cleanUp"
  /\ Post([op |-> "cleanUp"])
  /\ UNCHANGED <<engineVars, netVars, wire, serverVars, callerVars, histVars>>

-----------------------------------------------------------------------------
(* The network thread. *)

\* TcpConnection.connectedClient: a new channel token, then the delegate call.
Connect(cls) ==
  /\ channel[cls] = 0 /\ lastChannel < MaxChannel /\ Room
  /\ lastChannel' = lastChannel + 1
  /\ channel' = [channel EXCEPT ![cls] = lastChannel + 1]
  /\ Post([op |-> "connected", cls |-> cls])
  /\ UNCHANGED <<engineVars, wire, serverVars, callerVars, histVars>>

\* TcpConnection.handleDisconnect and suspendConnection: the channel is gone;
\* what was sent on it may or may not have arrived.
Disconnect(cls) ==
  /\ channel[cls] # 0
  /\ lastChannel + Cardinality({c \in Classes : channel[c] = 0}) < MaxChannel
  /\ channel' = [channel EXCEPT ![cls] = 0]
  /\ UNCHANGED <<stage, engineVars, lastChannel, wire, serverVars, callerVars, histVars>>

-----------------------------------------------------------------------------
(* The server.  It answers a message id once, and may repeat the answer; it *)
(* may lose its session, refuse a message or ask for another salt.          *)

Answered(id) == \E a \in answered : a.id = id

ServerAnswer(m, out) ==
  /\ channel[Class[m.r]] # 0 /\ Room
  /\ m.id \notin refused
  /\ IF Answered(m.id) THEN [id |-> m.id, out |-> out] \in answered
     ELSE out \in {"retry", "flood"} => lastId < MaxId
  /\ answered' = answered \cup {[id |-> m.id, out |-> out]}
  /\ Post([op |-> "answer", sess |-> m.sess, id |-> m.id, out |-> out])
  /\ UNCHANGED <<engineVars, netVars, wire, refused, announced, callerVars, histVars>>

\* The same, when the connection m came by is gone, and the answer with it.
ServerAnswerLost(m, out) ==
  /\ m.chan # channel[Class[m.r]] /\ m.id \notin refused /\ ~Answered(m.id)
  /\ out \in {"retry", "flood"} => lastId < MaxId
  /\ answered' = answered \cup {[id |-> m.id, out |-> out]}
  /\ UNCHANGED <<stage, engineVars, netVars, wire, refused, announced, callerVars,
                 histVars>>

\* The runnable that delivers an announcement.
NewSession(note) ==
  [op |-> "newSession", sess |-> note.sess, cls |-> note.cls,
   u |-> note.u, first |-> note.first]

\* The server lost its session: it forgets the unanswered messages older than
\* m, the first it received in the new one, and announces that.
ServerNewSession(m) ==
  LET cls  == Class[m.r]
      note == [sess |-> m.sess, cls |-> cls,
               u |-> Cardinality(announced) + 1, first |-> m.id]
  IN /\ m.sess = session /\ channel[cls] # 0 /\ Room
     /\ Cardinality(announced) < MaxReset /\ lastId < MaxId
     /\ m.id \notin refused
     /\ announced' = announced \cup {note}
     /\ refused' = refused \cup
          { w.id : w \in { x \in wire : /\ Class[x.r] = cls /\ x.id < m.id
                                        /\ ~Answered(x.id) } }
     /\ Post(NewSession(note))
     /\ UNCHANGED <<engineVars, netVars, wire, answered, callerVars, histVars>>

\* An announcement that was not acknowledged is sent again.
ServerRepeatsNewSession(note) ==
  /\ channel[note.cls] # 0 /\ Room
  /\ Post(NewSession(note))
  /\ UNCHANGED <<engineVars, netVars, wire, serverVars, callerVars, histVars>>

\* bad_msg_notification: the message is refused for its id or sequence number.
ServerBadMsg(m) ==
  /\ m.sess = session /\ channel[Class[m.r]] # 0 /\ Room
  /\ session < MaxReset /\ lastId < MaxId
  /\ ~Answered(m.id) /\ m.id \notin refused
  /\ refused' = refused \cup {m.id}
  /\ Post([op |-> "badMsg", sess |-> m.sess])
  /\ UNCHANGED <<engineVars, netVars, wire, answered, announced, callerVars, histVars>>

\* bad_server_salt: the message is to be sent again, with another salt.
ServerBadSalt(m) ==
  /\ m.sess = session /\ channel[Class[m.r]] # 0 /\ Room
  /\ m.chan = channel[Class[m.r]]
  /\ ~Answered(m.id) /\ m.id \notin refused
  /\ Post([op |-> "badSalt", sess |-> m.sess])
  /\ UNCHANGED <<engineVars, netVars, wire, serverVars, callerVars, histVars>>

-----------------------------------------------------------------------------
(* Runnables executed by the stage thread. *)

\* performRpc's runnable.
RunPerform ==
  /\ HeadIs({"perform"}) /\ Run
  /\ LET r == Head(stage).r IN
       /\ arrival' = [arrival EXCEPT
            ![r] = Cardinality({x \in Requests : arrival[x] # 0}) + 1]
       /\ UNCHANGED <<wait, completed>>
       /\ ProcessRequestQueue(queue \cup {r}, running, msgId, chan, due, calls, {})
  /\ UNCHANGED <<session, seenAnswers, seenSessions, netVars, serverVars,
                 callerVars>>

\* cancelRpc's runnable.  Cancelling a running generic request also performs a
\* rpc_drop_answer, which no completion block waits for.
RunCancel ==
  /\ HeadIs({"cancel", "cancelIfNotSent"})
  /\ LET r    == Head(stage).r
         sent == r \in running /\ Head(stage).op = "cancel"
     IN /\ queue' = queue \ {r}
        /\ running' = IF sent THEN running \ {r} ELSE running
        /\ RunPosting(IF sent /\ Class[r] = "generic" THEN <<[op |-> "drop"]>>
                      ELSE <<>>)
  /\ UNCHANGED <<arrival, msgId, chan, due, retry, wait, completed, lastId, session,
                 seenAnswers, seenSessions, netVars, wire, serverVars, callerVars,
                 calls, overtaken>>

\* The runnable that queues the rpc_drop_answer takes no slot and is never
\* retried: its effect on the requests is that of the call that ends it.
RunDrop ==
  /\ HeadIs({"drop"}) /\ Run
  /\ UNCHANGED <<arrival, wait, completed>>
  /\ ProcessAsIs({})
  /\ UNCHANGED <<session, seenAnswers, seenSessions, netVars, serverVars,
                 callerVars>>

\* tcpConnectionConnected: everything running on that class is sent again.
RunConnected ==
  /\ HeadIs({"connected"}) /\ Run
  /\ UNCHANGED <<arrival, wait, completed>>
  /\ ProcessAsIs({Head(stage).cls})
  /\ UNCHANGED <<session, seenAnswers, seenSessions, netVars, serverVars,
                 callerVars>>

\* The once-a-second stageRunnable.
Tick ==
  /\ UNCHANGED <<stage, arrival, wait, completed>>
  /\ ProcessAsIs({})
  /\ UNCHANGED <<session, seenAnswers, seenSessions, netVars, serverVars,
                 callerVars>>

\* The clock passes the retry timeouts of a running request.
TimePasses(r) ==
  /\ r \in running /\ ~due[r]
  /\ due' = [due EXCEPT ![r] = TRUE]
  /\ UNCHANGED <<stage, queue, running, arrival, msgId, chan, retry, wait, completed,
                 lastId, session, seenAnswers, seenSessions, netVars, wire,
                 serverVars, callerVars, histVars>>

\* (Mutant: a repeated message is processed again.)
OtherSession(d) == d.sess # session

\* Packets of another session, and messages already processed, are dropped.
IgnoredAnswer(d) == d.sess # session \/ d.id \in seenAnswers

RunIgnoredAnswer ==
  /\ HeadIs({"answer"}) /\ Run
  /\ IgnoredAnswer(Head(stage))
  /\ UNCHANGED <<engineVars, netVars, wire, serverVars, callerVars, histVars>>

\* (Mutant: nobody posts the removal.)
NoRemoval(id) == <<>>

\* rpcCompleted: posts the removal of the request with that id.
RpcCompleted(id) == <<[op |-> "rpcCompleted", id |-> id]>>

\* rpc_result that settles its request, if that is still running: the
\* completion block runs, and the request's removal is posted.
RunResult ==
  /\ HeadIs({"answer"})
  /\ Head(stage).out \in {"ok", "fail"}
  /\ ~IgnoredAnswer(Head(stage))
  /\ LET id    == Head(stage).id
         found == { r \in running : msgId[r] = id }
     IN /\ RunPosting(RpcCompleted(id))
        /\ seenAnswers' = seenAnswers \cup {id}
        /\ completed' = completed \cup found
        /\ UNCHANGED <<arrival, wait>>
        /\ ProcessRequestQueue(queue, running, msgId, chan, due,
             [r \in Requests |-> IF r \in found THEN calls[r] + 1 ELSE calls[r]], {})
  /\ UNCHANGED <<session, seenSessions, netVars, serverVars, callerVars>>

\* rpc_result with an error to be retried (500 and negative codes, or 420
\* FLOOD_WAIT): the request stays, without an id, until it is sent again.
RunRetryLater ==
  /\ HeadIs({"answer"})
  /\ Head(stage).out \in {"retry", "flood"}
  /\ ~IgnoredAnswer(Head(stage))
  /\ LET id    == Head(stage).id
         found == { r \in running : msgId[r] = id }
         flood == Head(stage).out = "flood"
     IN /\ RunPosting(IF found = {} THEN RpcCompleted(id) ELSE <<>>)
        /\ seenAnswers' = seenAnswers \cup {id}
        /\ wait' = IF flood THEN wait \cup found ELSE wait
        /\ UNCHANGED <<arrival, completed>>
        /\ ProcessRequestQueue(queue, running,
             [r \in Requests |-> IF r \in found THEN 0 ELSE msgId[r]],
             [r \in Requests |-> IF r \in found THEN 0 ELSE chan[r]],
             [r \in Requests |-> due[r] /\ ~(flood /\ r \in found)],
             calls, {})
  /\ UNCHANGED <<session, seenSessions, netVars, serverVars, callerVars>>

\* rpcCompleted's runnable.
RunRpcCompleted ==
  /\ HeadIs({"rpcCompleted"}) /\ Run
  /\ running' = { r \in running : msgId[r] # Head(stage).id }
  /\ UNCHANGED <<queue, arrival, msgId, chan, due, retry, wait, completed, lastId,
                 session, seenAnswers, seenSessions, netVars, wire, serverVars,
                 callerVars, histVars>>

\* new_session_created: the server forgot what was sent before first.
RunNewSession ==
  /\ HeadIs({"newSession"}) /\ Run
  /\ LET d     == Head(stage)
         known == d.sess # session \/ d.u \in seenSessions
         lost  == { r \in running : Class[r] = d.cls /\ msgId[r] < d.first }
     IN /\ Forget(IF known THEN {} ELSE lost)
        /\ seenSessions' = IF known THEN seenSessions ELSE seenSessions \cup {d.u}
  /\ UNCHANGED <<queue, running, arrival, retry, wait, completed, lastId, session,
                 seenAnswers, netVars, wire, serverVars, callerVars, calls>>

\* recreateSessions: new session ids, and nothing processed in them.
RecreateSessions ==
  /\ session' = session + 1
  /\ seenAnswers' = {}
  /\ seenSessions' = {}

\* bad_msg_notification: the clock is corrected and every connection of the
\* datacenter starts a new session.
RunBadMsg ==
  /\ HeadIs({"badMsg"}) /\ Run
  /\ IF Head(stage).sess # session
     THEN UNCHANGED <<engineVars, histVars>>
     ELSE /\ RecreateSessions
          /\ Forget(running)
          /\ UNCHANGED <<queue, running, arrival, retry, wait, completed, lastId, calls>>
  /\ UNCHANGED <<netVars, wire, serverVars, callerVars>>

\* bad_server_salt: everything running is sent again.
RunBadSalt ==
  /\ HeadIs({"badSalt"}) /\ Run
  /\ IF Head(stage).sess # session
     THEN UNCHANGED <<engineVars, wire, histVars>>
     ELSE /\ UNCHANGED <<arrival, wait, completed>>
          /\ ProcessAsIs(Classes)
          /\ UNCHANGED <<session, seenAnswers, seenSessions>>
  /\ UNCHANGED <<netVars, serverVars, callerVars>>

\* (Mutant: only the queued are told.)
FailQueued(rs) == [r \in Requests |-> IF r \in rs \ running THEN calls[r] + 1 ELSE calls[r]]

\* The completion block of every request of rs runs, with an error.
FailAll(rs) == [r \in Requests |-> IF r \in rs THEN calls[r] + 1 ELSE calls[r]]

\* cleanUp's runnable: every request fails with an error, at once.
RunCleanUp ==
  /\ HeadIs({"cleanUp"}) /\ Run
  /\ RecreateSessions
  /\ queue' = {} /\ running' = {}
  /\ calls' = FailAll(queue \cup running)
  /\ overtaken' = overtaken \cup (running \cap completed)
  /\ UNCHANGED <<arrival, msgId, chan, due, retry, wait, completed, lastId,
                 netVars, wire, serverVars, callerVars>>

-----------------------------------------------------------------------------

Init ==
  /\ stage = <<>>
  /\ queue = {} /\ running = {}
  /\ arrival = [r \in Requests |-> 0]
  /\ msgId = [r \in Requests |-> 0]
  /\ chan = [r \in Requests |-> 0]
  /\ due = [r \in Requests |-> FALSE]
  /\ retry = [r \in Requests |-> 0]
  /\ wait = {} /\ completed = {}
  /\ lastId = 0
  /\ channel = [c \in Classes |-> 0]
  /\ lastChannel = 0
  /\ session = 0 /\ seenAnswers = {} /\ seenSessions = {}
  /\ wire = {} /\ answered = {} /\ refused = {} /\ announced = {}
  /\ asked = {} /\ revoked = {}
  /\ calls = [r \in Requests |-> 0]
  /\ overtaken = {}

Callers ==
  \/ \E r \in Requests : PerformRpc(r)
  \/ \E r \in Requests, ifNotSent \in BOOLEAN : CancelRpc(r, ifNotSent)
  \/ CleanUp

Network == \E cls \in Classes : Connect(cls) \/ Disconnect(cls)

Server ==
  \/ \E m \in wire, out \in Outcomes :
       ServerAnswer(m, out) \/ ServerAnswerLost(m, out)
  \/ \E m \in wire : ServerNewSession(m) \/ ServerBadMsg(m) \/ ServerBadSalt(m)
  \/ \E note \in announced : ServerRepeatsNewSession(note)

RunHead ==
  \/ RunPerform \/ RunCancel \/ RunDrop \/ RunConnected
  \/ RunIgnoredAnswer \/ RunResult \/ RunRetryLater \/ RunRpcCompleted
  \/ RunNewSession \/ RunBadMsg \/ RunBadSalt \/ RunCleanUp

Next ==
  \/ Callers \/ Network \/ Server \/ RunHead \/ Tick
  \/ \E r \in Requests : TimePasses(r)

Spec == Init /\ [][Next]_vars


(* Properties. *)

\* Every variable has values of its type.
TypeOK ==
  /\ stage \in Seq(Runnables)
  /\ queue \subseteq Requests /\ running \subseteq Requests
  /\ arrival \in [Requests -> Nat]
  /\ msgId \in [Requests -> Nat]
  /\ chan \in [Requests -> Nat]
  /\ due \in [Requests -> BOOLEAN]
  /\ retry \in [Requests -> Nat]
  /\ wait \subseteq Requests /\ completed \subseteq Requests
  /\ lastId \in Nat
  /\ channel \in [Classes -> Nat] /\ lastChannel \in Nat
  /\ session \in Nat /\ seenAnswers \subseteq Nat /\ seenSessions \subseteq Nat
  /\ wire \subseteq Messages /\ answered \subseteq Answers
  /\ refused \subseteq Nat
  /\ announced \subseteq Announces /\ IsFiniteSet(announced)
  /\ asked \subseteq Requests /\ revoked \subseteq Requests
  /\ overtaken \subseteq Requests
  /\ calls \in [Requests -> Nat]

\* A message id names one request for ever, so that a rpc_result, which names
\* only the id, completes the request it answers, however late it comes.
IdNamesOneRequest ==
  /\ \A m, n \in wire : m.id = n.id => m.r = n.r
  /\ \A r \in running : msgId[r] # 0 =>
       \E m \in wire : m.id = msgId[r] /\ m.r = r

\* Why the promise of RpcService holds: a request is on one list at most and
\* arrived once, its runnables are those its caller posted, and whoever answers
\* or removes a message id means the request that was sent under it.
OnOneList ==
  /\ queue \cap running = {}
  /\ \A r \in queue \cup running : arrival[r] # 0
ArrivesOnce ==
  /\ \A r \in Requests : arrival[r] # 0 => r \in asked
  /\ \A r \in Requests : arrival[r] <= Cardinality({x \in Requests : arrival[x] # 0})
  /\ \A r, x \in Requests : arrival[r] # 0 /\ arrival[r] = arrival[x] => r = x
PostedRight(d) ==
  /\ d.op = "perform" => d.r \in asked /\ arrival[d.r] = 0
  /\ d.op \in {"cancel", "cancelIfNotSent"} => d.r \in revoked
  /\ d.op \in {"answer", "rpcCompleted"} => d.id \in 1..lastId
  /\ d.op = "rpcCompleted" => \A r \in running : msgId[r] = d.id => calls[r] > 0
StageRight ==
  /\ \A i \in 1..Len(stage) : PostedRight(stage[i])
  /\ \A i, j \in 1..Len(stage) :
       /\ stage[i].op = "perform" /\ stage[j].op = "perform"
       /\ stage[i].r = stage[j].r
       => i = j
IdsIssued ==
  /\ \A r \in Requests : msgId[r] <= lastId
  /\ \A m \in wire : m.id \in 1..lastId
Inv == TypeOK /\ OnOneList /\ ArrivesOnce /\ StageRight /\ IdsIssued /\ IdNamesOneRequest

\* A completion block runs once, unless the request is caught in the window
\* between its completion and its removal, which rpcCompleted posts: a session
\* reset, a download's last attempt or cleanUp there runs the block again.
CompletesOnce ==
  \A r \in Requests : calls[r] > 1 => r \in overtaken

\* A completed request that kept its id is on its way out: its removal is
\* already on the stage queue, so it cannot hold a slot of its class for ever.
CompletedIsRemoved ==
  \A r \in (running \cap completed) \ overtaken :
    \E i \in 1..Len(stage) :
      stage[i].op = "rpcCompleted" /\ stage[i].id = msgId[r]

\* The server settles a request under one message id only, as long as it
\* neither loses its session nor refuses a message and nobody logs out: no
\* reconnection, salt change or timeout makes it execute a request twice.
ExecutesOnce ==
  session = 0 /\ announced = {} =>
    \A a, b \in answered : \A m, n \in wire :
      /\ a.out \in {"ok", "fail"} /\ b.out \in {"ok", "fail"}
      /\ m.id = a.id /\ n.id = b.id /\ m.r = n.r
      => a.id = b.id

\* No class ever has more running requests than its limit, through timeouts,
\* resends and completions: a full class delays the queue, never overflows.
SlotsRespected ==
  \A c \in Classes : Cardinality({r \in running : Class[r] = c}) <= Limit[c]

\* The engine keeps the promise RpcService makes: whatever is resent, reset,
\* refused, answered late or cancelled, an accepted request stays pending until
\* its block has run or its caller withdrew it, and then never comes back.
Service == INSTANCE RpcService WITH
             accepted <- { r \in Requests : arrival[r] # 0 },
             pending  <- queue \cup running
KeepsPromise == Service!Spec

-----------------------------------------------------------------------------
(* Progress. *)

\* The stage and network threads keep running, the clock advances, a lost
\* connection is made again, and the server answers what it received on a
\* channel that is still up.
Fairness ==
  /\ WF_vars(RunHead)
  /\ WF_vars(Tick)
  /\ \A r \in Requests : WF_vars(TimePasses(r))
  /\ \A c \in Classes : SF_vars(Connect(c))
  /\ \A r \in Requests :
       SF_vars(\E m \in wire : /\ m.r = r /\ m.id = msgId[r]
                               /\ m.chan = channel[Class[r]]
                               /\ \E out \in Outcomes : ServerAnswer(m, out))

FairSpec == Spec /\ Fairness

\* A request the application performed is completed or cancelled in the end.
EverySettled ==
  \A r \in Requests : (r \in asked) ~> (calls[r] > 0 \/ r \in revoked)

=============================================================================
