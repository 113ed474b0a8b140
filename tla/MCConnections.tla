---------------------------- MODULE MCConnections ----------------------------
(***************************************************************************)
(* Small instances for TLC of TcpConnection, of PacketReader, which cuts   *)
(* the stream of a connection into packets, and of Handshake, which makes  *)
(* the key of a datacenter over a connection it models by itself.  They    *)
(* share no variable: a behaviour is of one of them, and the others stay   *)
(* as they begin.                                                          *)
(***************************************************************************)
EXTENDS TcpConnection

CONSTANTS Actions, First, MaxAttempts, MaxCuts, MaxRefusals   \* of Handshake
CONSTANTS Streams, Classes, Scrap, MaxTaken,                  \* of PacketReader
          MaxItems            \* bound: items of a stream; fewer when buffers are taken
VARIABLES act, delegate, authKey, stage, threads, again, network, selecting, socket, toServer,
          toClient, sessions, keys, nonces, secrets, cuts, refusals, odd, crashed, written  \* of it
VARIABLES stream, got, pc, heap, pool, rest, last, buf, later, packets, acks, kept, astray,
          taken               \* of PacketReader
VARIABLE  scene   \* what this behaviour is of

\* A stream: an acknowledgement, packets with a length of one byte and of four,
\* and at its end perhaps a length that cannot be; no more than two packets.
Items == { [kind |-> "ack", words |-> 0], [kind |-> "short", words |-> 1],
           [kind |-> "short", words |-> 2], [kind |-> "long", words |-> 1] }
AnyStreams ==
  UNION { [1..k -> Items] \cup { Append(s, [kind |-> "bad", words |-> 1]) : s \in [1..(k - 1) -> Items] }
          : k \in {MaxItems - 1, MaxItems} }

ItemStreams ==
  { s \in AnyStreams : Len(s) = 3 => \E i \in 1..3 : s[i].kind \in {"ack", "bad"} }

Reader == INSTANCE PacketReader

Keys == INSTANCE Handshake WITH
  MaxDrops <- MaxCuts, tasks <- network, drops <- cuts

ASSUME Keys!FirstAssumption /\ Keys!BoundsAssumption
ASSUME Reader!ItemsAssumption /\ Reader!CapacitiesAssumption

keyVars == <<act, delegate, authKey, stage, threads, again, network, selecting, socket, toServer,
             toClient, sessions, keys, nonces, secrets, cuts, refusals, odd, crashed, written>>

readerVars == <<stream, got, pc, heap, pool, rest, last, buf, later, packets, acks, kept, astray,
                taken>>

\* The scenes: the generic connection alone, with more troubles; all connections;
\* one handshake; two of them over one connection, which stays; a stream of packets.
Scenes == {"one", "all", "key", "two keys", "stream"}

OfConns  == scene \in {"one", "all"} /\ UNCHANGED <<scene, keyVars, readerVars>>
OfKey    == scene \in {"key", "two keys"} /\ UNCHANGED <<scene, vars, readerVars>>
OfStream == scene = "stream" /\ UNCHANGED <<scene, vars, keyVars>>

\* Bounds: the connections that are asked for, the troubles they have.
Used == IF scene = "one" THEN Generic ELSE Conns
Few  == drops + suspends + outages < (IF scene = "one" THEN 3 ELSE 1)

\* Bounds: losses and refusals together, when they happen; attempts of two handshakes.
Calm == IF scene = "key" THEN cuts' + refusals' <= 2 ELSE cuts' + refusals' = 0 /\ nonces' <= 4

EitherInit ==
  /\ scene \in Scenes
  /\ Init /\ Keys!Init /\ Reader!Init
  /\ scene \in {"key", "two keys", "stream"} => address = 0 /\ online
  /\ scene # "stream" => stream = [i \in 1..MaxItems |-> [kind |-> "ack", words |-> 0]]

EitherNext ==
  \/ OfConns /\ (online => Few) /\ NetworkChanges
  \/ \E c \in Used : OfConns /\ AskConnect(c)
  \/ \E c \in Used : OfConns /\ AskSend(c)
  \/ \E c \in Used : OfConns /\ Few /\ AskSuspend(c)
  \/ \E c \in Conns : OfConns /\ Fire(c)
  \/ \E c \in Conns : OfConns /\ RunConnectKnown(c)
  \/ \E c \in Conns : OfConns /\ RunConnect(c)
  \/ \E c \in Conns : OfConns /\ Few /\ RunConnectThrows(c)
  \/ \E c \in Conns : OfConns /\ RunSuspend(c)
  \/ \E c \in Conns : OfConns /\ RunTimer(c)
  \/ \E c \in Conns : OfConns /\ RunSend(c)
  \/ \E c \in Conns : OfConns /\ Connected(c)
  \/ \E c \in Conns : OfConns /\ Refused(c)
  \/ \E c \in Conns : OfConns /\ Few /\ Dropped(c)
  \/ \E c \in Conns : OfConns /\ TimesOutToo(c)
  \/ \E c \in Conns : OfConns /\ ReceivedData(c)
  \/ \E c \in Conns : OfConns /\ Few /\ ReceivedBadData(c)
  \/ OfKey /\ Keys!RunStage /\ Calm
  \/ OfKey /\ Keys!ConnectAgain
  \/ OfKey /\ Keys!Factor
  \/ OfKey /\ Keys!RunTask
  \/ OfKey /\ Keys!Select
  \/ OfKey /\ Keys!Connected
  \/ OfKey /\ Keys!ReceiveData
  \/ OfKey /\ Keys!Drop /\ Calm
  \/ OfKey /\ Keys!Serve /\ Calm
  \/ \E a \in Actions : OfKey /\ scene = "two keys" /\ Keys!BeginAnother(a) /\ Calm
  \/ \E n \in 1..(Len(Reader!Bytes) - got) : OfStream /\ Reader!ReceiveFirst(n)
  \/ \E n \in 1..(Len(Reader!Bytes) - got) : OfStream /\ Reader!ReceiveMore(n)
  \/ \E n \in 1..(Len(Reader!Bytes) - got) : OfStream /\ Reader!ReceiveBody(n)
  \/ OfStream /\ Reader!EndLoop
  \/ OfStream /\ Reader!Ack
  \/ OfStream /\ Reader!ScrapOfAck
  \/ OfStream /\ Reader!ScrapOfHeader
  \/ OfStream /\ Reader!BadLength
  \/ OfStream /\ Reader!NeedsBody
  \/ OfStream /\ Reader!Packet
  \/ OfStream /\ Reader!Wild
  \/ \E c \in Classes : OfStream /\ Len(stream) < MaxItems /\ Reader!Take(c)

KeyFairness ==
  /\ WF_keyVars(OfKey /\ Keys!RunStage) /\ WF_keyVars(OfKey /\ Keys!ConnectAgain)
  /\ WF_keyVars(OfKey /\ Keys!Factor) /\ WF_keyVars(OfKey /\ Keys!RunTask)
  /\ WF_keyVars(OfKey /\ Keys!Select) /\ WF_keyVars(OfKey /\ Keys!Connected)
  /\ WF_keyVars(OfKey /\ Keys!ReceiveData) /\ WF_keyVars(OfKey /\ Keys!Serve)

\* No task waits and no timer runs at the beginning: a connection that does not
\* begin can do nothing that Fairness would ask of it.
EitherSpec ==
  /\ EitherInit /\ [][EitherNext]_<<scene, vars, keyVars, readerVars>>
  /\ Fairness /\ KeyFairness

\* What PacketReader and Handshake state of their own.
StreamIsSafe == scene = "stream" => Reader!StreamSafe
KeySafe == Keys!KeySafe
KeyComes ==
  /\ (scene = "key") => Keys!EveryHandshakeEnds
  /\ Keys!CrossedStays
=============================================================================
