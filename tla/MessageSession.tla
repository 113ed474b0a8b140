--------------------------- MODULE MessageSession ---------------------------
(***************************************************************************)
(* What a connection keeps of its session with the server                  *)
(* (ConnectionContext) and how ConnectionsManager uses it for the packets  *)
(* that arrive: which messages are processed, which are only confirmed,    *)
(* and when the confirmations leave.                                       *)
(*                                                                         *)
(* A packet is one message or a container of several.  Messages with an    *)
(* odd sequence number (here: Messages) are to be confirmed, and the       *)
(* server repeats them until they are; containers, notifications and       *)
(* descriptions of answers are not.  Packets are taken in order, on the    *)
(* stage thread, one runnable each.                                        *)
(***************************************************************************)
EXTENDS Integers, Sequences, FiniteSets, SequencesExt

CONSTANTS
  MaxMessages,  \* bound: messages the server has to confirm
  Answers,      \* those that answer a request of the client
  Unreadable,   \* those the client has no constructor for
  Kept,         \* ids remembered before some are forgotten (1224 in the code)
  Forgotten,    \* ids forgotten then (225 in the code)
  MaxPackets,   \* bound: packets on their way when the server sends one
  MaxId,        \* bound: ids of the server
  MaxDrops,     \* bound: connections lost
  MaxSessions   \* bound: sessions of the client

Messages == 1..MaxMessages

MessagesAssumption ==
  /\ MaxMessages \in Nat \ {0}
  /\ Answers \subseteq Messages /\ Unreadable \subseteq Messages
WindowAssumption == Kept \in Nat /\ Forgotten \in 1..(Kept + 1)
BoundAssumption ==
  /\ MaxPackets \in Nat /\ MaxId \in Nat /\ MaxDrops \in Nat /\ MaxSessions \in Nat \ {0}

VARIABLES
  session,   \* sessionId, as a generation number
  processed, \* processedMessageIds, oldest first
  toConfirm, \* messagesIdsForConfirmation
  wanted,    \* answers whose requests are still running
  resent     \* answers asked for less than a minute ago: lastResendTime

VARIABLES    \* the network and the server, external to the source
  open,      \* the connection is established
  down,      \* packets on their way to the stage thread
  up,        \* confirmations and requests on their way to the server
  theirs,    \* the session the server knows
  sentIn,    \* the session each message was first sent in; 0: not yet
  confirmed, \* messages the server knows to be confirmed
  lastId     \* ids given to containers and service messages

VARIABLES    \* history, read by properties only
  drops,     \* connections lost
  times,     \* how often each message was processed
  forgot,    \* messages whose ids were dropped from processedMessageIds
  excused,   \* answers confirmed when their request was no longer running
  mixed      \* messages taken after a refusal in the same container

client  == <<session, processed, toConfirm, wanted, resent>>
server  == <<theirs, sentIn, confirmed, lastId>>
history == <<drops, times, forgot, excused, mixed>>
vars == <<client, open, down, up, server, history>>

-----------------------------------------------------------------------------
(* ConnectionContext.  A context is a record of its three lists, with what  *)
(* the handler at work has done so far.                                     *)

Context ==
  [session |-> session, processed |-> processed, toConfirm |-> toConfirm,
   wanted |-> wanted, resent |-> resent, calls |-> times, forgot |-> forgot,
   excused |-> excused, mixed |-> mixed, asks |-> {}]

\* (Mutant: the list is emptied for each message.)
AddProcessedMessageIdAlone(c, id) ==
  [c EXCEPT !.processed = <<id>>]

AddProcessedMessageId(c, id) ==
  IF Len(c.processed) > Kept
  THEN [c EXCEPT
         !.processed = Append(SubSeq(@, Forgotten + 1, Len(@)), id),
         !.forgot = @ \cup ToSet(SubSeq(c.processed, 1, Forgotten))]
  ELSE [c EXCEPT !.processed = Append(@, id)]

IsMessageIdProcessed(c, id) == id \in ToSet(c.processed)

AddMessageToConfirm(c, m) == [c EXCEPT !.toConfirm = @ \cup {m}]

\* recreateSession.
RecreateSession(c) ==
  [c EXCEPT !.session = @ + 1, !.processed = <<>>, !.toConfirm = {}]

-----------------------------------------------------------------------------
(* processMessage, as far as it concerns the session. *)

\* An update, or an answer: its request is done with.
ProcessReadable(c, m) ==
  [c EXCEPT !.calls[m] = @ + 1, !.wanted = @ \ {m}]

\* bad_msg_notification of the codes that end the session; every request gets
\* another id.
ProcessBadMsg(c) ==
  [RecreateSession(c) EXCEPT !.wanted = {}]

\* msg_detailed_info: an answer is ready for a request.  If that is running the
\* answer is asked for, once a minute; if not it is confirmed unseen.
ProcessDetailedInfo(c, m) ==
  IF m \in c.wanted
  THEN IF m \in c.resent THEN c
       ELSE [c EXCEPT !.resent = @ \cup {m}, !.asks = @ \cup {m}]
  ELSE AddMessageToConfirm([c EXCEPT !.excused = @ \cup {m}], m)

Process(c, p) ==
  CASE p.kind = "message" -> IF p.m \in Unreadable THEN c ELSE ProcessReadable(c, p.m)
    [] p.kind = "badMsg"  -> ProcessBadMsg(c)
    [] p.kind = "info"    -> ProcessDetailedInfo(c, p.m)

\* One message of a container: it is confirmed, and processed unless it was.
ProcessInner(c, p) ==
  LET noted == IF p.kind # "message" THEN c
               ELSE AddMessageToConfirm(
                      [c EXCEPT !.mixed = IF sentIn[p.m] # c.session THEN @ \cup {p.m}
                                          ELSE @], p.m)
  IN IF IsMessageIdProcessed(noted, p.id) THEN noted
     ELSE AddProcessedMessageId(Process(noted, p), p.id)

\* Its messages one after the other; the server puts two in one.
ProcessContainer(c, inner) == ProcessInner(ProcessInner(c, inner[1]), inner[2])

-----------------------------------------------------------------------------
(* The client. *)

Become(c) ==
  /\ session' = c.session /\ processed' = c.processed /\ toConfirm' = c.toConfirm
  /\ wanted' = c.wanted /\ resent' = c.resent
  /\ times' = c.calls /\ forgot' = c.forgot /\ excused' = c.excused
  /\ mixed' = c.mixed

Letter(c, acks, asks) == [session |-> c.session, acks |-> acks, asks |-> asks]

\* What leaves with the confirmations; a lost connection loses it.
Send(letters) == up' = IF open THEN up \o letters ELSE up

\* generateConfirmationRequest, and the packet it leaves in.
Confirmations(c) == IF c.toConfirm = {} THEN <<>> ELSE <<Letter(c, c.toConfirm, {})>>
WithoutConfirmations(c) == [c EXCEPT !.toConfirm = {}]

\* Requests for resending go at once; they do not carry confirmations.
Questions(c) == IF c.asks = {} THEN <<>> ELSE <<Letter(c, {}, c.asks)>>

\* tcpConnectionReceivedData for a packet of another session.
ReceiveForeign ==
  /\ down # <<>> /\ Head(down).session # session
  /\ down' = Tail(down)
  /\ UNCHANGED <<client, open, up, server, history>>

\* (Mutant: a repeated message is not confirmed again.)
ReceiveAgainUnconfirmed ==
  /\ down # <<>> /\ Head(down).session = session
  /\ IsMessageIdProcessed(Context, Head(down).id)
  /\ down' = Tail(down)
  /\ Send(Confirmations(Context))
  /\ Become(WithoutConfirmations(Context))
  /\ UNCHANGED <<open, server, drops>>

\* A packet of one message that was processed before: confirmed at once.
ReceiveAgain ==
  /\ down # <<>> /\ Head(down).session = session
  /\ IsMessageIdProcessed(Context, Head(down).id)
  /\ down' = Tail(down)
  /\ LET c == IF Head(down).kind = "message"
              THEN AddMessageToConfirm(Context, Head(down).m) ELSE Context
     IN /\ Send(Confirmations(c))
        /\ Become(WithoutConfirmations(c))
  /\ UNCHANGED <<open, server, drops>>

\* The id of a message that cannot be read is not kept.
Receive ==
  /\ down # <<>> /\ Head(down).session = session
  /\ ~IsMessageIdProcessed(Context, Head(down).id)
  /\ down' = Tail(down)
  /\ LET p     == Head(down)
         noted == IF p.kind = "message" THEN AddMessageToConfirm(Context, p.m)
                  ELSE Context
         c     == IF p.kind = "container" THEN ProcessContainer(noted, p.inner)
                  ELSE Process(noted, p)
     IN /\ Send(Questions(c))
        /\ Become(IF p.kind = "message" /\ p.m \in Unreadable THEN c
                  ELSE AddProcessedMessageId(c, p.id))
  /\ UNCHANGED <<open, server, drops>>

\* processRequestQueue looks for confirmations of generic connections only: a
\* media connection never takes this step, and nothing may rest on it.
Tick ==
  /\ open /\ toConfirm # {}
  /\ Send(Confirmations(Context))
  /\ Become(WithoutConfirmations(Context))
  /\ UNCHANGED <<open, down, server, drops>>

\* A request that is sent takes the confirmations along.
SendRequest ==
  /\ toConfirm # {}
  /\ Send(Confirmations(Context))
  /\ Become(WithoutConfirmations(Context))
  /\ UNCHANGED <<open, down, server, drops>>

\* The request of an answer is cancelled, or goes again under another id.
ForgetRequest(m) ==
  /\ m \in wanted
  /\ wanted' = wanted \ {m}
  /\ UNCHANGED <<session, processed, toConfirm, resent, open, down, up, server, history>>

\* A minute has passed since the answer was asked for.
MinutePasses(m) ==
  /\ m \in resent
  /\ resent' = resent \ {m}
  /\ UNCHANGED <<session, processed, toConfirm, wanted, open, down, up, server, history>>

\* recreateSessions by a logout, a move or a bad_msg_notification elsewhere.
Recreate ==
  /\ session < MaxSessions
  /\ Become([RecreateSession(Context) EXCEPT !.wanted = {}])
  /\ UNCHANGED <<open, down, up, server, drops>>

-----------------------------------------------------------------------------
(* The network and the server. *)

\* What is on its way may be lost; packets the stage thread has got are not.
Drop ==
  /\ open /\ drops < MaxDrops
  /\ open' = FALSE /\ drops' = drops + 1 /\ up' = <<>>
  /\ \E n \in 0..Len(down) : down' = SubSeq(down, 1, n)
  /\ UNCHANGED <<client, server, times, forgot, excused, mixed>>

Reopen ==
  /\ ~open
  /\ open' = TRUE
  /\ UNCHANGED <<client, down, up, server, history>>

\* A letter of the current session, or of a later one that replaces it.
TakeLetter ==
  /\ up # <<>>
  /\ up' = Tail(up)
  /\ LET l == Head(up) IN
       /\ theirs' = IF l.session > theirs THEN l.session ELSE theirs
       /\ confirmed' = confirmed \cup { m \in l.acks : sentIn[m] = l.session }
  /\ UNCHANGED <<client, open, down, sentIn, lastId, history>>

Put(p) == open /\ Len(down) + Len(up) < MaxPackets /\ down' = Append(down, p)

Packet(kind, id, m, inner) ==
  [session |-> theirs, kind |-> kind, id |-> id, m |-> m, inner |-> inner]
Inner(kind, id, m) == [kind |-> kind, id |-> id, m |-> m]

\* A message of the session may go for the first time or again.
MayGo(m) == sentIn[m] = 0 \/ (sentIn[m] = theirs /\ m \notin confirmed)
InOrder(m) == \A k \in 1..(m - 1) : sentIn[k] # 0
Going(ms) ==
  sentIn' = [k \in Messages |-> IF k \in ms /\ sentIn[k] = 0 THEN theirs ELSE sentIn[k]]

SendAlone(m) ==
  /\ MayGo(m) /\ InOrder(m) /\ (m \notin Answers \/ m \in wanted \/ sentIn[m] # 0)
  /\ Put(Packet("message", m, m, <<>>))
  /\ Going({m})
  /\ UNCHANGED <<client, open, up, theirs, confirmed, lastId, history>>

\* A container of two: messages, or a refusal and a message.
SendContainer(k, m) ==
  /\ lastId < MaxId
  /\ k < m /\ MayGo(m) /\ InOrder(m) /\ (m \notin Answers \/ m \in wanted \/ sentIn[m] # 0)
  /\ \/ k = 0 /\ session < MaxSessions /\ theirs = session
     \/ k # 0 /\ MayGo(k) /\ sentIn[k] # 0
  /\ LET first == IF k = 0 THEN Inner("badMsg", MaxMessages + lastId + 1, 0)
                  ELSE Inner("message", k, k)
     IN Put(Packet("container", MaxMessages + lastId + 2, 0,
                   <<first, Inner("message", m, m)>>))
  /\ lastId' = lastId + 2
  /\ Going({m})
  /\ UNCHANGED <<client, open, up, theirs, confirmed, history>>

\* Instead of an answer, its description.
SendInfo(m) ==
  /\ m \in Answers /\ sentIn[m] = theirs /\ m \notin confirmed /\ lastId < MaxId
  /\ Put(Packet("info", MaxMessages + lastId + 1, m, <<>>))
  /\ lastId' = lastId + 1
  /\ UNCHANGED <<client, open, up, theirs, sentIn, confirmed, history>>

-----------------------------------------------------------------------------

Init ==
  /\ session = 1 /\ processed = <<>> /\ toConfirm = {} /\ wanted = Answers /\ resent = {}
  /\ open = TRUE /\ down = <<>> /\ up = <<>>
  /\ theirs = 1 /\ sentIn = [m \in Messages |-> 0] /\ confirmed = {} /\ lastId = 0
  /\ drops = 0 /\ times = [m \in Messages |-> 0]
  /\ forgot = {} /\ excused = {} /\ mixed = {}

Client == ReceiveForeign \/ ReceiveAgain \/ Receive
Repeats == \E m \in Messages : SendAlone(m)

Next ==
  \/ Client \/ Repeats \/ Tick \/ SendRequest \/ Recreate
  \/ Drop \/ Reopen \/ TakeLetter
  \/ \E m \in Messages : ForgetRequest(m) \/ MinutePasses(m) \/ SendInfo(m)
  \/ \E m \in Messages, k \in 0..MaxMessages : SendContainer(k, m)

Spec == Init /\ [][Next]_vars

\* The stage thread takes what arrives, a lost connection comes back, and the
\* server repeats by itself what is not confirmed.
Fairness ==
  /\ WF_vars(Client) /\ WF_vars(Reopen) /\ WF_vars(TakeLetter)
  /\ \A m \in Messages : SF_vars(SendAlone(m))

FairSpec == Spec /\ Fairness

-----------------------------------------------------------------------------
(* Properties. *)

TypeOK ==
  /\ session \in 1..MaxSessions /\ theirs \in 1..session
  /\ processed \in Seq(1..(MaxMessages + MaxId + 2)) /\ Len(processed) <= Kept + 1
  /\ toConfirm \subseteq Messages /\ wanted \subseteq Answers /\ resent \subseteq Answers
  /\ sentIn \in [Messages -> 0..MaxSessions] /\ confirmed \subseteq Messages
  /\ times \in [Messages -> Nat]

\* A message is processed once, however often the server repeats it, alone or
\* in containers, unless its id was among those forgotten, or it follows in one
\* container the refusal that emptied the lists.
ProcessedOnce ==
  \A m \in Messages : times[m] > 1 => m \in forgot \cup mixed

\* What the server knows to be confirmed was processed, could not be read, or
\* answered a request that was no longer running.
ConfirmedIsProcessed ==
  \A m \in confirmed : times[m] > 0 \/ m \in Unreadable \/ m \in excused

\* Confirmations are of messages of the session they leave in, with the same
\* exception.
ConfirmsItsSession ==
  \A m \in toConfirm : sentIn[m] = session \/ m \in mixed

\* A message the server sent in a session that lasts comes to be confirmed,
\* whatever packets and confirmations are lost.
EveryMessageConfirmed ==
  \A m \in Messages : sentIn[m] # 0 ~> m \in confirmed \/ sentIn[m] # session

\* What a session keeps in every state: types, each message processed once, and
\* confirmed when it was, in its own session.
SessionSafe == TypeOK /\ ProcessedOnce /\ ConfirmedIsProcessed /\ ConfirmsItsSession
=============================================================================
