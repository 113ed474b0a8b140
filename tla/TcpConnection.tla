----------------------------- MODULE TcpConnection -----------------------------
(***************************************************************************)
(* The connections of one datacenter.  Everything they do is done on the   *)
(* network thread: the tasks the other threads schedule, in their order,   *)
(* and between them what the sockets report.  A connection that failed is  *)
(* tried again by a timer, whose thread schedules a task as well.          *)
(*                                                                         *)
(* The bytes are in PacketReader; here data is right or refused.           *)
(***************************************************************************)
EXTENDS Integers, Sequences, FiniteSets, SequencesExt

CONSTANTS
  Conns, Generic,   \* the connections; those of class RPCRequestClassGeneric
  Addresses, Good,  \* number of addresses and ports; those the server answers at
  MaxTasks,         \* bound: tasks that wait when another thread schedules one
  MaxDrops,         \* bound: failures of a socket the server did not refuse
  MaxSuspends,      \* bound: calls of suspendConnection
  MaxOffline        \* bound: losses of the network

ASSUME ConnsAssumption == Generic \subseteq Conns
ASSUME AddressesAssumption == Addresses \in Nat \ {0} /\ Good \subseteq 0..(Addresses - 1)
ASSUME BoundsAssumption == {MaxTasks, MaxDrops, MaxSuspends, MaxOffline} \subseteq Nat

VARIABLES
  con,        \* the connections
  address,    \* Datacenter.currentAddressNum and currentPortNum, which they share
  tasks,      \* PyroSelector.tasks
  tokens,     \* nextChannelToken, less one
  online      \* ConnectionsManager.isNetworkOnline()
VARIABLES     \* history
  asked,      \* connections somebody asked for since their suspension was asked
  overtaken,  \* those a timer or the network thread posted a task for behind it
  wanted,     \* those a connect was scheduled for and that were not given up since
  drops, suspends, outages

vars == <<con, address, tasks, tokens, online, asked, overtaken, wanted, drops, suspends, outages>>
history == <<asked, overtaken, wanted, drops, suspends, outages>>

States == {"Idle", "Connecting", "Reconnecting", "Connected", "Suspended"}

(* The client of a connection: none, opened, up, or closed by an error,     *)
(* which it may hear of once more before its key is taken out ("closing").  *)
Connections ==
  [state : States, client : {"none", "open", "up", "closing", "closed"}, at : 0..(Addresses - 1),
   channelToken : Nat, wasConnected : BOOLEAN, hasSomeData : BOOLEAN,
   failed : Nat, willRetry : {1, 5}, timer : BOOLEAN, firstPacket : BOOLEAN,
   header : {"none", "written", "wrong"}]   \* what the socket's bytes begin with

Alive(c) == con[c].client \in {"open", "up"}
Task(what, c) == [what |-> what, conn |-> c]
Waits(what, c) == Contains(tasks, Task(what, c))

(* Closed keys are taken out before the next task is run. *)
Selected(k) == [c \in Conns |-> IF k[c].client = "closing" THEN [k[c] EXCEPT !.client = "closed"] ELSE k[c]]

-----------------------------------------------------------------------------
(* Other threads. *)

Schedules == Len(tasks) < MaxTasks

\* connect(): does nothing without a network
AskConnect(c) ==
  /\ Schedules
  /\ online
  /\ tasks' = Append(tasks, Task("connect", c))
  /\ asked' = asked \cup {c} /\ wanted' = wanted \cup {c}
  /\ UNCHANGED <<con, address, tokens, online, overtaken, drops, suspends, outages>>

AskSend(c) ==
  /\ Schedules
  /\ tasks' = Append(tasks, Task("send", c))
  /\ asked' = asked \cup {c}
  /\ UNCHANGED <<con, address, tokens, online, overtaken, wanted, drops, suspends, outages>>

AskSuspend(c) ==
  /\ Schedules /\ suspends < MaxSuspends
  /\ tasks' = Append(tasks, Task("suspend", c))
  /\ asked' = asked \ {c} /\ overtaken' = overtaken \ {c}
  /\ suspends' = suspends + 1
  /\ UNCHANGED <<con, address, tokens, online, wanted, drops, outages>>

\* the timer's thread; the timer is periodic
Fire(c) ==
  /\ con[c].timer /\ Len(tasks) <= MaxTasks
  /\ tasks' = Append(tasks, Task("timer", c))
  /\ overtaken' = IF Waits("suspend", c) THEN overtaken \cup {c} ELSE overtaken
  /\ UNCHANGED <<con, address, tokens, online, asked, wanted, drops, suspends, outages>>

NetworkChanges ==
  /\ online => outages < MaxOffline
  /\ online' = ~online
  /\ outages' = IF online THEN outages + 1 ELSE outages
  /\ UNCHANGED <<con, address, tasks, tokens, asked, overtaken, wanted, drops, suspends>>

-----------------------------------------------------------------------------
(* The network thread's tasks. *)

Run(what, c) == tasks # <<>> /\ Head(tasks) = Task(what, c)

(* connect() called by the network thread, with what it leaves of the tasks. *)
CallConnect(c, rest) ==
  /\ tasks' = IF online THEN Append(rest, Task("connect", c)) ELSE rest
  /\ overtaken' = IF online /\ Contains(rest, Task("suspend", c))
                    THEN overtaken \cup {c} ELSE overtaken
  /\ wanted' = IF online THEN wanted \cup {c} ELSE wanted \ {c}

(* (Mutant: it stays.) *)
NextAddressSame == address

\* nextAddressOrPort
NextAddress == (address + 1) % Addresses

(* A failure counted: too many in a row, or told so, try the next address.  *)
Failed(k, retries) == [k EXCEPT !.failed = @ + 1,
                                !.willRetry = IF k.failed = 0 THEN retries ELSE @]
Exhausted(k) == online /\ k.failed > k.willRetry
MovesOn(c, k, moves) ==
  /\ con' = [Selected(con) EXCEPT ![c] = IF moves THEN [k EXCEPT !.failed = 0] ELSE k]
  /\ address' = IF moves THEN NextAddress ELSE address

(* (Mutant: a connection about to be tried again is taken for one on its way.) *)
RunConnectKnownToo(c) ==
  /\ Run("connect", c)
  /\ con[c].state \in {"Connected", "Connecting", "Reconnecting"}
  /\ tasks' = Tail(tasks) /\ con' = Selected(con)
  /\ UNCHANGED <<address, tokens, online>> /\ UNCHANGED history

RunConnectKnown(c) ==
  /\ Run("connect", c)
  /\ con[c].state \in {"Connected", "Connecting"} /\ con[c].client # "none"
  /\ tasks' = Tail(tasks) /\ con' = Selected(con)
  /\ UNCHANGED <<address, tokens, online>> /\ UNCHANGED history

Connects(c) ==
  /\ Run("connect", c)
  /\ ~(con[c].state \in {"Connected", "Connecting"} /\ con[c].client # "none")
  /\ tasks' = Tail(tasks)

RunConnect(c) ==
  /\ Connects(c)
  /\ con' = [Selected(con) EXCEPT ![c] =
               [@ EXCEPT !.state = "Connecting", !.client = "open", !.at = address, !.timer = FALSE,
                         !.firstPacket = TRUE, !.header = "none",
                         !.wasConnected = FALSE, !.hasSomeData = FALSE]]
  /\ UNCHANGED <<address, tokens, online>> /\ UNCHANGED history

\* handleConnectionError: the socket cannot even be opened
RunConnectThrows(c) ==
  /\ Connects(c) /\ drops < MaxDrops
  /\ drops' = drops + 1
  /\ LET k == Failed([con[c] EXCEPT !.state = "Reconnecting", !.client = "none", !.timer = TRUE,
                        !.firstPacket = TRUE, !.wasConnected = FALSE, !.hasSomeData = FALSE], 1) IN
       MovesOn(c, k, Exhausted(k))
  /\ UNCHANGED <<tokens, online, asked, overtaken, wanted, suspends, outages>>

\* suspendConnectionInternal
Suspended(k) ==
  IF k.state \in {"Idle", "Suspended"} THEN [k EXCEPT !.timer = FALSE]
  ELSE [k EXCEPT !.timer = FALSE, !.state = "Suspended", !.client = "none", !.firstPacket = TRUE,
                 !.channelToken = 0, !.wasConnected = FALSE]

RunSuspend(c) ==
  /\ Run("suspend", c)
  /\ con' = [Selected(con) EXCEPT ![c] = Suspended(@)]
  /\ tasks' = Tail(tasks)
  /\ wanted' = IF \E what \in {"connect", "timer"} : Contains(Tail(tasks), Task(what, c))
                 THEN wanted ELSE wanted \ {c}
  /\ UNCHANGED <<address, tokens, online, asked, overtaken, drops, suspends, outages>>

RunTimer(c) ==
  /\ Run("timer", c)
  /\ con' = [Selected(con) EXCEPT ![c].timer = FALSE]
  /\ CallConnect(c, Tail(tasks))
  /\ UNCHANGED <<address, tokens, online, asked, drops, suspends, outages>>

\* sendData: what the socket's bytes begin with
Sent(k) ==
  IF k.client \notin {"open", "up"} THEN k
  ELSE [k EXCEPT !.header = IF @ = "none" THEN (IF k.firstPacket THEN "written" ELSE "wrong")
                            ELSE IF k.firstPacket THEN "wrong" ELSE @,
                 !.firstPacket = FALSE]

RunSend(c) ==
  /\ Run("send", c)
  /\ con' = [Selected(con) EXCEPT ![c] = Sent(@)]
  /\ IF con[c].state \in {"Idle", "Reconnecting", "Suspended"} \/ con[c].client = "none"
       THEN CallConnect(c, Tail(tasks))
       ELSE tasks' = Tail(tasks) /\ UNCHANGED <<overtaken, wanted>>
  /\ UNCHANGED <<address, tokens, online, asked, drops, suspends, outages>>

-----------------------------------------------------------------------------
(* What the sockets report. *)

\* connectedClient
Connected(c) ==
  /\ con[c].client = "open" /\ con[c].at \in Good
  /\ tokens' = tokens + 1
  /\ con' = [con EXCEPT ![c] = [@ EXCEPT !.client = "up", !.state = "Connected",
                                         !.channelToken = tokens', !.wasConnected = TRUE]]
  /\ UNCHANGED <<address, tasks, online>> /\ UNCHANGED history

\* handleDisconnect
Disconnected(c, timedOut) ==
  LET switch == con[c].wasConnected /\ ~con[c].hasSomeData /\ timedOut
      k == [con[c] EXCEPT !.timer = FALSE, !.firstPacket = TRUE, !.channelToken = 0, !.wasConnected = FALSE,
                          !.client = IF @ = "closing" THEN "closed" ELSE "closing",
                          !.state = IF @ = "Suspended" THEN @ ELSE "Idle"]
      again == Failed([k EXCEPT !.timer = TRUE], IF k.hasSomeData THEN 5 ELSE 1) IN
  IF c \in Generic /\ k.state = "Idle"
    THEN /\ MovesOn(c, again, Exhausted(again) \/ (online /\ switch))
         /\ UNCHANGED wanted
    ELSE /\ con' = [con EXCEPT ![c] = k]
         /\ wanted' = wanted \ {c}
         /\ UNCHANGED address

Refused(c) ==     \* nobody at the address
  /\ con[c].client = "open" /\ con[c].at \notin Good
  /\ \E timedOut \in BOOLEAN : Disconnected(c, timedOut)
  /\ UNCHANGED <<tasks, tokens, online, asked, overtaken, drops, suspends, outages>>

Dropped(c) ==
  /\ Alive(c) /\ con[c].at \in Good /\ drops < MaxDrops
  /\ drops' = drops + 1
  /\ \E timedOut \in BOOLEAN : Disconnected(c, timedOut)
  /\ UNCHANGED <<tasks, tokens, online, asked, overtaken, suspends, outages>>

\* a write fails on a socket that has been silent for long: it times out as well
TimesOutToo(c) ==
  /\ con[c].client = "closing" /\ con[c].at \in Good
  /\ Disconnected(c, TRUE)
  /\ UNCHANGED <<tasks, tokens, online, asked, overtaken, drops, suspends, outages>>

\* receivedData
Heard(k) == [k EXCEPT !.failed = 0, !.hasSomeData = TRUE]

ReceivedData(c) ==
  /\ con[c].client = "up"
  /\ con' = [con EXCEPT ![c] = Heard(@)]
  /\ UNCHANGED <<address, tasks, tokens, online>> /\ UNCHANGED history

\* reconnect()
ReceivedBadData(c) ==
  /\ con[c].client = "up" /\ drops < MaxDrops
  /\ drops' = drops + 1
  /\ con' = [con EXCEPT ![c] = [Suspended(Heard(@)) EXCEPT !.state = "Reconnecting"]]
  /\ CallConnect(c, tasks)
  /\ UNCHANGED <<address, tokens, online, asked, suspends, outages>>

-----------------------------------------------------------------------------
Init ==
  /\ con = [c \in Conns |->
       [state |-> "Idle", client |-> "none", at |-> 0, channelToken |-> 0, wasConnected |-> FALSE,
        hasSomeData |-> FALSE, failed |-> 0, willRetry |-> 5, timer |-> FALSE, firstPacket |-> FALSE,
        header |-> "none"]]
  /\ address \in 0..(Addresses - 1)
  /\ tasks = <<>> /\ tokens = 0 /\ online \in BOOLEAN
  /\ asked = {} /\ overtaken = {} /\ wanted = {}
  /\ drops = 0 /\ suspends = 0 /\ outages = 0

RunHead(c) ==
  \/ RunConnectKnown(c) \/ RunConnect(c) \/ RunConnectThrows(c)
  \/ RunSuspend(c) \/ RunTimer(c) \/ RunSend(c)

Next ==
  \/ NetworkChanges
  \/ \E c \in Conns :
       \/ AskConnect(c) \/ AskSend(c) \/ AskSuspend(c) \/ Fire(c)
       \/ RunHead(c)
       \/ Connected(c) \/ Refused(c) \/ Dropped(c) \/ TimesOutToo(c)
       \/ ReceivedData(c) \/ ReceivedBadData(c)

Spec == Init /\ [][Next]_vars

(* The network thread runs, timers fire, and a socket that is opened comes  *)
(* up where the server answers and fails elsewhere.                         *)
Fairness ==
  /\ \A c \in Conns :
       /\ WF_vars(RunHead(c)) /\ WF_vars(Fire(c))
       /\ WF_vars(Connected(c)) /\ WF_vars(Refused(c))

FairSpec == Spec /\ Fairness

-----------------------------------------------------------------------------
TypeOK ==
  /\ con \in [Conns -> Connections]
  /\ address \in 0..(Addresses - 1)
  /\ tasks \in Seq([what : {"connect", "send", "suspend", "timer"}, conn : Conns])
  /\ tokens \in Nat /\ online \in BOOLEAN
  /\ asked \subseteq Conns /\ overtaken \subseteq Conns /\ wanted \subseteq Conns
  /\ drops \in Nat /\ suspends \in Nat /\ outages \in Nat

(* The token of the channel, which the stage thread goes by, is set exactly *)
(* while the socket is up.                                                  *)
TokenIsLive ==
  \A c \in Conns :
    /\ con[c].channelToken # 0 <=> con[c].client = "up"
    /\ con[c].state = "Connected" <=> con[c].client = "up"

(* The bytes of a socket begin with the header of the protocol and do not   *)
(* repeat it, whatever became of the sockets before.                        *)
HeaderOnce == \A c \in Conns : con[c].header # "wrong"

(* A generic connection somebody wanted is up, on its way, or will be tried *)
(* again: the timer is not lost in the overlap of tasks and failures.       *)
RetryArmed ==
  \A c \in wanted :
    Alive(c) \/ con[c].timer \/ \E what \in {"connect", "timer"} : Waits(what, c)

(* A connection suspended opens no socket before somebody asks for it, but  *)
(* when, on the way to the suspension, a timer fires behind it or the       *)
(* network thread posts a connect behind it: for a timer that had fired,    *)
(* data to send, or bytes refused.                                          *)
SuspendHolds ==
  \A c \in Conns : Alive(c) => c \in asked \/ c \in overtaken \/ Waits("suspend", c)

(* No timer runs beside a socket: it would be for another attempt.          *)
TimerMeansDown == \A c \in Conns : con[c].timer => ~Alive(c)

(* To the request engine the connections are channels: each with a token of *)
(* its own, never reused, and none between two of them.                     *)
AsChannels == INSTANCE Channels WITH
  Ends <- Conns, channel <- [c \in Conns |-> con[c].channelToken], last <- tokens
KeepsChannels == AsChannels!Spec

(* A generic connection that is wanted comes up, though all addresses but   *)
(* one are dead, unless it is suspended or the network is lost meanwhile.   *)
ComesBack == \A c \in Generic : c \in wanted ~> con[c].client = "up" \/ c \notin wanted

(* What a connection keeps in every state: types, its token, the header of  *)
(* each socket, the timer for its next attempt, and its suspension.         *)
ConnectionSafe ==
  TypeOK /\ TokenIsLive /\ HeaderOnce /\ RetryArmed /\ SuspendHolds /\ TimerMeansDown

(* A connection comes back, and is to the engine one channel after another. *)
ConnectionKept == ComesBack /\ KeepsChannels
=============================================================================
