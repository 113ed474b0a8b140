----------------------------- MODULE MCSessions -----------------------------
(***************************************************************************)
(* Small instances for TLC of SessionClock and of MessageSession, which    *)
(* look at a session from its two sides: what the server takes, and what   *)
(* it repeats.  They share no variable: a behaviour is of one of them, and *)
(* the other stays as it begins.                                           *)
(***************************************************************************)
EXTENDS SessionClock, SessionMessages

CONSTANTS main, push, other, dc1, dc2, r, s, f
VARIABLE  scene   \* what this behaviour is of

OfDc  == main :> dc1 @@ push :> dc1 @@ other :> dc2
OnTheir == r :> main @@ f :> main @@ s :> other
Off   == {-3, 0, 3}

sessionVars == <<session, processed, toConfirm, running, resent, open, packets, letters, theirs,
                 sentIn, confirmed, lastId, losses, times, forgot, excused, mixed>>

\* The scenes: the clock and one connection; a push connection beside it; a
\* connection to another datacenter beside it; the messages of sessions; those
\* of one session, which lasts.
Scenes == {"clock", "push", "other", "messages", "lasting"}
ClockScenes == {"clock", "push", "other"}

OfClock   == scene \in ClockScenes /\ UNCHANGED <<scene, sessionVars>>
OfSession == scene \notin ClockScenes /\ UNCHANGED <<scene, vars>>

\* Bound: in the last scene one session and one id that is not a message's.
Lasting == scene = "lasting" => session' = 1 /\ lastId' <= 2

\* Bounds: what may be sent in a scene, and how many troubles it has.
Used == CASE scene = "push" -> {r} [] scene = "other" -> {r, s, f} [] OTHER -> {r, f}
Few  == drops' + changes' + packed' + now' <= (CASE scene = "other" -> 4 [] scene = "push" -> 5 [] OTHER -> 6)

EitherInit ==
  /\ scene \in Scenes
  /\ Init /\ Session!Init
  /\ salts[dc2] = {}
  /\ scene = "clock" => skew # -3
  /\ scene = "push"  => skew = 0 /\ salts[dc1] # {}
  /\ scene = "other" => skew = 3 /\ salts[dc1] # {}
  /\ scene \notin ClockScenes => skew = 0 /\ salts[dc1] = {}

EitherNext ==
  \/ \E q \in Used : OfClock /\ SendRequest(q)
  \/ OfClock /\ Timeout(f)
  \/ OfClock /\ scene = "push" /\ req[r].state # "done" /\ SendPing(push)
  \/ \E c \in Conns : OfClock /\ Receive(c)
  \/ \E c \in Conns : OfClock /\ Serve(c) /\ Few
  \/ OfClock /\ scene = "clock" /\ Drop(main) /\ Few
  \/ OfClock /\ Tick /\ Few
  \/ OfClock /\ ChangeClock /\ Few
  \/ OfSession /\ Session!ReceiveForeign
  \/ OfSession /\ Session!ReceiveAgain
  \/ OfSession /\ Session!Receive
  \/ OfSession /\ Session!Tick
  \/ OfSession /\ Session!SendRequest
  \/ OfSession /\ Session!Recreate /\ Lasting
  \/ OfSession /\ Session!Drop
  \/ OfSession /\ Session!Reopen
  \/ OfSession /\ Session!TakeLetter
  \/ \E m \in Session!Messages : OfSession /\ Session!SendAlone(m)
  \/ \E m \in Session!Messages : OfSession /\ Session!ForgetRequest(m)
  \/ \E m \in Session!Messages : OfSession /\ Session!MinutePasses(m)
  \/ \E m \in Session!Messages : OfSession /\ Session!SendInfo(m) /\ Lasting
  \/ \E m \in Session!Messages, k \in 0..MaxMessages : OfSession /\ Session!SendContainer(k, m) /\ Lasting

\* Only the first scene is asked to come to an end.
ClockFairness ==
  /\ WF_vars(OfClock /\ Tick)
  /\ WF_vars(OfClock /\ SendRequest(r)) /\ WF_vars(OfClock /\ SendRequest(f))
  /\ WF_vars(OfClock /\ Timeout(f))
  /\ WF_vars(OfClock /\ Receive(main)) /\ WF_vars(OfClock /\ Serve(main))

\* The client takes the packets one by one: nothing else does, but for a loss,
\* of which there are MaxLosses.  This is the fairness of Session!Client, in a
\* form that TLC evaluates quickly.
TakesPacket == packets # <<>> /\ packets' = Tail(packets)

SessionFairness ==
  /\ WF_packets(OfSession /\ TakesPacket) /\ WF_sessionVars(OfSession /\ Session!Reopen)
  /\ WF_sessionVars(OfSession /\ Session!TakeLetter)
  /\ \A m \in 1..MaxMessages : SF_sessionVars(OfSession /\ Session!SendAlone(m))

EitherSpec ==
  /\ EitherInit /\ [][EitherNext]_<<scene, vars, sessionVars>>
  /\ ClockFairness /\ SessionFairness

\* What the clocks state, of their own behaviours.
ClockIsSafe == scene \in ClockScenes => ClockSafe

\* Every request of the first scene is accepted in the end.
RequestsAccepted == scene = "clock" => <>(req[r].state = "done")

\* A message of a session that lasts comes to be confirmed.
MessagesConfirmed == scene = "lasting" => Session!EveryMessageConfirmed
=============================================================================
