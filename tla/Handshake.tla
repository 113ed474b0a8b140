------------------------------- MODULE Handshake -------------------------------
(***************************************************************************)
(* The exchange that gives a datacenter its key: HandshakeAction, with the  *)
(* connection it talks over.  Three questions, each answered once:          *)
(*                                                                          *)
(*     req_pq  ->  resPQ  ->  (factors, in a thread of its own)             *)
(*             ->  req_DH_params  ->  server_DH_params_ok                   *)
(*             ->  set_client_DH_params  ->  dh_gen_ok                      *)
(*                                                                          *)
(* The handlers run on the stage thread; the network thread does the tasks  *)
(* it is given and posts what the socket reports, to whom was the delegate  *)
(* then.  Random numbers are fresh numbers.  The server answers a repeated  *)
(* req_DH_params with the same parameters, so a key is told by the secret   *)
(* of the client alone.                                                     *)
(***************************************************************************)
EXTENDS Naturals, Sequences, FiniteSets, SequencesExt

CONSTANTS
  Actions,     \* handshakes begun with the datacenter, the first one first
  First,
  MaxAttempts, \* bound: values of authNonce
  MaxDrops,    \* bound: times the network drops the connection
  MaxRefusals  \* bound: questions the server refuses without a reason the model knows

FirstAssumption == First \in Actions
BoundsAssumption == {MaxDrops, MaxRefusals} \subseteq Nat /\ MaxAttempts \in Nat \ {0}

VARIABLES
  act,       \* the actions
  delegate,  \* datacenter.connection.delegate
  authKey,   \* datacenter.authKey
  stage,     \* stageQueue
  threads,   \* threads that factor
  again,     \* a connect() is due in a second
  tasks,     \* PyroSelector.tasks
  selecting, \* the network thread is done with the tasks and waits for the socket
  socket, toServer, toClient,
  sessions,  \* the server's: for each nonce, one for each server_nonce
  keys,      \* the keys the server holds
  nonces, secrets, drops, refusals,  \* counters
  odd, crashed, written              \* history; written: to this socket

vars == <<act, delegate, authKey, stage, threads, again, tasks, selecting, socket, toServer, toClient,
          sessions, keys, nonces, secrets, drops, refusals, odd, crashed, written>>
client == <<act, delegate, authKey, threads, again, nonces, secrets, odd, crashed>>
wire == <<socket, toServer, toClient, written>>
server == <<sessions, keys, refusals>>

Nothing == [what |-> "nothing"]
ReqPQ(n) == [what |-> "req_pq", nonce |-> n]
ResPQ(n, s) == [what |-> "resPQ", nonce |-> n, server |-> s]
(* good: what was factored is the pq of this nonce and this server_nonce. *)
ReqDH(n, s, x, g) == [what |-> "req_DH_params", nonce |-> n, server |-> s, new |-> x, good |-> g]
DHParams(n, s, x) == [what |-> "DH_params_ok", nonce |-> n, server |-> s, new |-> x]
DHFail == [what |-> "DH_params_fail"]
SetDH(n, s, x, b) == [what |-> "set_client_DH_params", nonce |-> n, server |-> s, new |-> x, b |-> b]
DHGen(n, s, x, b, r) == [what |-> "dh_gen", nonce |-> n, server |-> s, new |-> x, b |-> b, result |-> r]
Ack == [what |-> "msgs_ack"]
Junk == [what |-> "junk"]

ToA(a, m) == [run |-> "received", act |-> a, msg |-> m]
Run(r, a) == [run |-> r, act |-> a, msg |-> Nothing]

(* What the network thread posts when the delegate is d. *)
Report(r, d) == IF d \in Actions THEN <<Run(r, d)>> ELSE <<>>

Fresh == [begun |-> FALSE, nonce |-> 0, server |-> 0, new |-> 0, key |-> 0, processedPQRes |-> FALSE,
          pq |-> Nothing, dh |-> Nothing, set |-> Nothing, wasDisconnect |-> FALSE, delegate |-> TRUE]

-----------------------------------------------------------------------------
(* The stage thread. *)

Suspend == [do |-> "suspend", msg |-> Nothing, freed |-> FALSE]
Connect == [do |-> "connect", msg |-> Nothing, freed |-> FALSE]
Send(m) == [do |-> "send", msg |-> m, freed |-> FALSE]

(* Buffers are given back to the pool although the network thread may still  *)
(* have to copy them.                                                        *)
Freed(q, ms) == [i \in DOMAIN q |-> IF q[i].msg \in ms \ {Nothing} THEN [q[i] EXCEPT !.freed = TRUE] ELSE q[i]]

(* beginHandshake, and what is sent to the network thread before its question. *)
BeginHandshake(a, before) ==
  /\ nonces < MaxAttempts
  /\ nonces' = nonces + 1
  /\ delegate' = a
  /\ act' = [act EXCEPT ![a] = [Fresh EXCEPT !.begun = TRUE, !.nonce = nonces', !.pq = ReqPQ(nonces'),
                                             !.wasDisconnect = act[a].wasDisconnect, !.delegate = act[a].delegate]]
  /\ tasks' = Freed(tasks, {act[a].pq, act[a].dh, act[a].set})
              \o before \o <<Send(ReqPQ(nonces'))>>
  /\ UNCHANGED <<authKey, secrets>>

ReceiveResPQ(a, m) ==
  IF act[a].processedPQRes
  THEN /\ tasks' = Append(tasks, Send(Ack))
       /\ UNCHANGED <<act, delegate, authKey, threads, nonces, secrets>>
  ELSE IF m.nonce # act[a].nonce
  THEN BeginHandshake(a, <<>>) /\ UNCHANGED threads
  ELSE /\ act' = [act EXCEPT ![a].processedPQRes = TRUE, ![a].server = m.server]
       /\ threads' = Append(threads, <<a, m.nonce, m.server>>)
       /\ UNCHANGED <<delegate, authKey, tasks, nonces, secrets>>

(* (Mutant: the request is given back, the next one is not kept.) *)
FactoredNotKept(a, m) ==
  LET d == ReqDH(act[a].nonce, act[a].server, secrets + 1, m = <<act[a].nonce, act[a].server>>)
  IN /\ secrets' = secrets + 1
     /\ act' = [act EXCEPT ![a].new = secrets', ![a].pq = Nothing]
     /\ tasks' = Freed(tasks, {act[a].pq}) \o <<Send(Ack), Send(d)>>
     /\ UNCHANGED <<delegate, authKey, threads, nonces>>

(* The last part of a factorization. *)
Factored(a, m) ==
  LET d == ReqDH(act[a].nonce, act[a].server, secrets + 1, m = <<act[a].nonce, act[a].server>>)
  IN /\ secrets' = secrets + 1
     /\ act' = [act EXCEPT ![a].new = secrets', ![a].pq = Nothing, ![a].dh = d]
     /\ tasks' = Freed(tasks, {act[a].pq}) \o <<Send(Ack), Send(d)>>
     /\ UNCHANGED <<delegate, authKey, threads, nonces>>

ReceiveDHParams(a, m) ==
  IF m.server # act[a].server \/ m.new # act[a].new \/ m.nonce # act[a].nonce
  THEN BeginHandshake(a, <<>>) /\ UNCHANGED threads
  ELSE LET s == SetDH(m.nonce, m.server, m.new, secrets + 1)
       IN /\ secrets' = secrets + 1
          /\ act' = [act EXCEPT ![a].key = secrets', ![a].dh = Nothing, ![a].set = s]
          /\ tasks' = Freed(tasks, {act[a].dh}) \o <<Send(Ack), Send(s)>>
          /\ UNCHANGED <<delegate, authKey, threads, nonces>>

(* It has the nonces of this attempt. *)
Answers(a, m) == m.nonce = act[a].nonce /\ m.server = act[a].server

(* (Mutant: the key is left out of the hash.) *)
HashOfNonce(a, m) == m.new = act[a].new

(* The hash of the new nonce and of the key, one for each answer. *)
HashIsRight(a, m) == m.new = act[a].new /\ m.b = act[a].key

ReceiveDHGen(a, m) ==
  IF ~Answers(a, m)
  THEN BeginHandshake(a, <<>>) /\ stage' = Tail(stage) /\ UNCHANGED threads
  ELSE IF m.result = "ok" /\ HashIsRight(a, m)
  THEN /\ act' = [act EXCEPT ![a].dh = Nothing, ![a].set = Nothing]
       /\ delegate' = "none"
       /\ tasks' = Append(Freed(tasks, {act[a].dh, act[a].set}), Send(Ack))
       /\ stage' = Append(Tail(stage), Run("completed", a))
       /\ UNCHANGED <<authKey, threads, nonces, secrets>>
  ELSE BeginHandshake(a, <<Send(Ack)>>) /\ stage' = Tail(stage) /\ UNCHANGED threads

(* An answer to req_DH_params with no new nonce to read it, or to            *)
(* set_client_DH_params with no key to compare: an exception nobody catches. *)
Throws(a, m) ==
  \/ m.what = "DH_params_ok" /\ act[a].new = 0
  \/ m.what = "dh_gen" /\ Answers(a, m) /\ act[a].key = 0

Received(a, m) ==
  IF Throws(a, m)
  THEN crashed' = TRUE /\ UNCHANGED <<act, delegate, authKey, stage, threads, tasks, nonces, secrets>>
  ELSE /\ UNCHANGED crashed
       /\ IF m.what = "dh_gen" THEN ReceiveDHGen(a, m)
          ELSE /\ stage' = Tail(stage)
               /\ CASE m.what = "resPQ" -> ReceiveResPQ(a, m)
                    [] m.what = "DH_params_ok" -> ReceiveDHParams(a, m)
                    [] m.what = "DH_params_fail" -> BeginHandshake(a, <<>>) /\ UNCHANGED threads

Refused(m) == m.what = "DH_params_fail" \/ (m.what = "dh_gen" /\ m.result # "ok")

(* What tcpConnectionConnected sends again: the first question kept. *)
Kept(a) == IF act[a].pq # Nothing THEN act[a].pq ELSE IF act[a].dh # Nothing THEN act[a].dh ELSE act[a].set

RunStage ==
  /\ ~crashed /\ stage # <<>>
  /\ LET r == Head(stage)  a == r.act  done == stage' = Tail(stage)
     IN \/ /\ r.run = "received"
           /\ Received(a, r.msg)
           /\ odd' = IF Refused(r.msg) THEN odd \cup {"refused"} ELSE odd
           /\ UNCHANGED again
        \/ /\ r.run = "closed"
           /\ act' = [act EXCEPT ![a].wasDisconnect = TRUE]
           /\ again' = TRUE
           /\ done
           /\ UNCHANGED <<delegate, authKey, threads, tasks, nonces, secrets, odd, crashed>>
        \/ /\ r.run = "connected"
           /\ tasks' = IF act[a].wasDisconnect /\ Kept(a) # Nothing THEN Append(tasks, Send(Kept(a))) ELSE tasks
           /\ done
           /\ UNCHANGED <<act, delegate, authKey, threads, again, nonces, secrets, odd, crashed>>
        \/ /\ r.run = "factored"
           /\ Factored(a, r.msg)
           /\ done
           /\ UNCHANGED <<again, odd, crashed>>
        \/ /\ r.run = "completed"
           /\ authKey' = act[a].key
           /\ delegate' = IF act[a].delegate THEN "manager" ELSE delegate
           /\ stage' = IF act[a].delegate THEN Append(Tail(stage), Run("removed", a)) ELSE Tail(stage)
           /\ UNCHANGED <<act, threads, again, tasks, nonces, secrets, odd, crashed>>
        \/ /\ r.run = "removed"
           /\ act' = [act EXCEPT ![a].delegate = FALSE]
           /\ done
           /\ UNCHANGED <<delegate, authKey, threads, again, tasks, nonces, secrets, odd, crashed>>
  /\ UNCHANGED <<selecting, wire, server, drops>>

(* connect() of tcpConnectionClosed, a second later. *)
ConnectAgain ==
  /\ ~crashed /\ again
  /\ again' = FALSE
  /\ tasks' = Append(tasks, Connect)
  /\ UNCHANGED <<act, delegate, authKey, stage, threads, selecting, wire, server, nonces, secrets, drops, odd, crashed>>

(* A thread is done, and posts the rest. *)
Factor ==
  /\ ~crashed
  /\ \E i \in DOMAIN threads :
       /\ stage' = Append(stage, [run |-> "factored", act |-> threads[i][1], msg |-> Tail(threads[i])])
       /\ threads' = RemoveAt(threads, i)
  /\ UNCHANGED <<act, delegate, authKey, again, tasks, selecting, wire, server, nonces, secrets, drops, odd, crashed>>

(* authorizeOnMovingDatacenter begins a handshake whether or not another one *)
(* is under way.                                                             *)
BeginAnother(a) ==
  /\ ~crashed /\ ~act[a].begun /\ authKey = 0
  /\ BeginHandshake(a, <<Suspend, Connect>>)
  /\ odd' = odd \cup {"second"}
  /\ UNCHANGED <<stage, threads, again, selecting, wire, server, drops, crashed>>

-----------------------------------------------------------------------------
(* The network thread. *)

Lose == socket' = "down" /\ toServer' = <<>> /\ toClient' = <<>> /\ written' = {}

(* A buffer given back may hold the next question of its size by now, or what *)
(* another connection is about to send.                                       *)
Refilled(m) == {q \in UNION {{act[a].pq, act[a].dh, act[a].set} : a \in Actions} : q.what = m.what}

(* The answer to the question m has come, or nobody asks it any more. *)
Answered(m) ==
  \/ \A a \in Actions : act[a].dh # m
  \/ \E i \in DOMAIN stage : stage[i].run = "received" /\ stage[i].msg = DHParams(m.nonce, m.server, m.new)

RunTask ==
  /\ ~crashed /\ ~selecting /\ tasks # <<>>
  /\ LET t == Head(tasks)
     IN \/ /\ t.do = "suspend"
           /\ IF socket = "down" THEN UNCHANGED <<wire, stage>>
              ELSE Lose /\ stage' = stage \o Report("closed", delegate)
           /\ tasks' = Tail(tasks) /\ UNCHANGED odd
        \/ /\ t.do = "connect"
           /\ socket' = IF socket = "down" THEN "opening" ELSE socket
           /\ tasks' = Tail(tasks)
           /\ UNCHANGED <<toServer, toClient, written, stage, odd>>
        \/ /\ t.do = "send" /\ socket = "down"
           /\ tasks' = Append(Tail(tasks), Connect)
           /\ UNCHANGED <<wire, stage, odd>>
        \/ /\ t.do = "send" /\ socket # "down"
           /\ \E m \in IF t.freed THEN {t.msg, Junk} \cup Refilled(t.msg) ELSE {t.msg} :
                /\ toServer' = Append(toServer, m)
                /\ written' = written \cup {m}
                /\ odd' = IF m.what = "req_DH_params" /\ (m \in written \/ Answered(m))
                          THEN odd \cup {"twice"} ELSE odd
           /\ tasks' = Tail(tasks)
           /\ UNCHANGED <<socket, toClient, stage>>
  /\ UNCHANGED <<act, delegate, authKey, threads, again, nonces, secrets, crashed, selecting, server, drops>>

(* PyroSelector.select: all the tasks, then what the socket has to say. *)
Select ==
  /\ ~crashed /\ selecting = (tasks # <<>>)
  /\ selecting' = ~selecting
  /\ UNCHANGED <<client, stage, tasks, wire, server, drops>>

Connected ==
  /\ ~crashed /\ selecting /\ socket = "opening"
  /\ selecting' = FALSE
  /\ socket' = "up"
  /\ stage' = stage \o Report("connected", delegate)
  /\ UNCHANGED <<client, tasks, toServer, toClient, server, drops, written>>

(* What has come is read at once. *)
ReceiveData ==
  /\ ~crashed /\ selecting /\ toClient # <<>>
  /\ selecting' = FALSE
  /\ toClient' = <<>>
  /\ stage' = IF delegate \in Actions THEN stage \o [i \in DOMAIN toClient |-> ToA(delegate, toClient[i])] ELSE stage
  /\ UNCHANGED <<client, tasks, socket, toServer, server, drops, written>>

Drop ==
  /\ ~crashed /\ selecting /\ socket # "down" /\ drops < MaxDrops
  /\ selecting' = FALSE
  /\ drops' = drops + 1
  /\ Lose
  /\ stage' = stage \o Report("closed", delegate)
  /\ UNCHANGED <<client, tasks, server>>

-----------------------------------------------------------------------------
(* The server. *)

Answer(m) == toClient' = Append(toClient, m)

HasSession(m) == m.server \in DOMAIN sessions[m.nonce]

AnswerReqPQ(m) ==
  /\ sessions' = [sessions EXCEPT ![m.nonce] = Append(@, [new |-> 0, b |-> 0])]
  /\ Answer(ResPQ(m.nonce, Len(sessions'[m.nonce])))
  /\ UNCHANGED <<keys, refusals>>

AnswerReqDH(m) ==
  IF m.good /\ HasSession(m)
  THEN \/ /\ sessions' = [sessions EXCEPT ![m.nonce][m.server].new = m.new]
          /\ Answer(DHParams(m.nonce, m.server, m.new))
          /\ UNCHANGED <<keys, refusals>>
       \/ /\ refusals < MaxRefusals
          /\ refusals' = refusals + 1
          /\ Answer(DHFail)
          /\ UNCHANGED <<keys, sessions>>
  ELSE /\ toClient' \in {toClient, Append(toClient, DHFail)}
       /\ UNCHANGED server

(* The first b makes the key.  Another one is taken as well, or refused. *)
AnswerSetDH(m) ==
  LET b == sessions[m.nonce][m.server].b
  IN \/ /\ b \in {0, m.b}
        /\ sessions' = [sessions EXCEPT ![m.nonce][m.server].b = m.b]
        /\ keys' = keys \cup {m.b}
        /\ Answer(DHGen(m.nonce, m.server, m.new, m.b, "ok"))
        /\ UNCHANGED refusals
     \/ /\ b \notin {0, m.b}
        /\ \/ Answer(DHGen(m.nonce, m.server, m.new, m.b, "fail")) /\ UNCHANGED keys
           \/ Answer(DHGen(m.nonce, m.server, m.new, m.b, "ok")) /\ keys' = keys \cup {m.b}
        /\ UNCHANGED <<sessions, refusals>>
     \/ /\ b = 0 /\ refusals < MaxRefusals
        /\ refusals' = refusals + 1
        /\ Answer(DHGen(m.nonce, m.server, m.new, m.b, "retry"))
        /\ UNCHANGED <<sessions, keys>>

Serve ==
  /\ socket = "up" /\ toServer # <<>>
  /\ toServer' = Tail(toServer)
  /\ LET m == Head(toServer)
     IN \/ m.what = "req_pq" /\ AnswerReqPQ(m)
        \/ m.what = "req_DH_params" /\ AnswerReqDH(m)
        \/ m.what = "set_client_DH_params" /\ AnswerSetDH(m)
        \/ m.what \in {"msgs_ack", "junk"} /\ UNCHANGED <<toClient, server>>
  /\ UNCHANGED <<client, stage, tasks, selecting, socket, drops, written>>

-----------------------------------------------------------------------------
(* execute() of the first action: the connection was never open before. *)
Init ==
  /\ act = [a \in Actions |-> IF a = First THEN [Fresh EXCEPT !.begun = TRUE, !.nonce = 1, !.pq = ReqPQ(1)] ELSE Fresh]
  /\ delegate = First /\ authKey = 0
  /\ stage = <<>> /\ threads = <<>> /\ again = FALSE
  /\ tasks = <<Suspend, Connect, Send(ReqPQ(1))>> /\ selecting = FALSE
  /\ socket = "down" /\ toServer = <<>> /\ toClient = <<>>
  /\ sessions = [n \in 1..MaxAttempts |-> <<>>] /\ keys = {}
  /\ nonces = 1 /\ secrets = 0 /\ drops = 0 /\ refusals = 0
  /\ odd = {} /\ crashed = FALSE /\ written = {}

Next ==
  \/ RunStage \/ ConnectAgain \/ Factor
  \/ \E a \in Actions : BeginAnother(a)
  \/ RunTask \/ Select \/ Connected \/ ReceiveData \/ Drop \/ Serve

Spec == Init /\ [][Next]_vars

(* The threads go on, a connection comes about, the server answers. *)
Fairness ==
  /\ WF_vars(RunStage) /\ WF_vars(ConnectAgain) /\ WF_vars(Factor)
  /\ WF_vars(RunTask) /\ WF_vars(Select) /\ WF_vars(Connected) /\ WF_vars(ReceiveData) /\ WF_vars(Serve)

FairSpec == Spec /\ Fairness

-----------------------------------------------------------------------------
Questions ==
  {Nothing} \cup [what : {"req_pq"}, nonce : 1..MaxAttempts]
  \cup [what : {"req_DH_params"}, nonce : 1..MaxAttempts, server : Nat, new : Nat, good : BOOLEAN]
  \cup [what : {"set_client_DH_params"}, nonce : 1..MaxAttempts, server : Nat, new : Nat, b : Nat]

(* The state has its shape, and the nonce of an action is one it drew: what   *)
(* it keeps to send again was made for it.                                    *)
TypeOK ==
  /\ \A a \in Actions :
       /\ act[a].nonce \in 0..nonces /\ act[a].begun = (act[a].nonce # 0)
       /\ act[a].pq \in {Nothing, ReqPQ(act[a].nonce)}
       /\ act[a].dh \in Questions /\ act[a].set \in Questions
       /\ \A q \in {act[a].dh, act[a].set} : q # Nothing => q.nonce = act[a].nonce
       /\ {act[a].processedPQRes, act[a].wasDisconnect, act[a].delegate} \subseteq BOOLEAN
  /\ delegate \in Actions \cup {"none", "manager"}
  /\ authKey \in 0..secrets /\ keys \subseteq 1..secrets
  /\ \A i \in DOMAIN stage : stage[i].act \in Actions
  /\ \A i \in DOMAIN tasks : tasks[i].do \in {"suspend", "connect", "send"} /\ tasks[i].freed \in BOOLEAN
  /\ socket \in {"down", "opening", "up"} /\ (socket = "down" => toServer = <<>> /\ toClient = <<>>)
  /\ {again, crashed, selecting} \subseteq BOOLEAN /\ odd \subseteq {"refused", "twice", "second"}

(* The key the datacenter is given is one the server holds.                   *)
KeyAgreed == authKey # 0 => authKey \in keys

(* An action that is not done keeps a question to send when the connection    *)
(* comes back: no loss leaves it with nothing to say.  It is done when the    *)
(* datacenter has the key, which a second handshake may take away again.      *)
Waits(r, a) == \E i \in DOMAIN stage : stage[i].run = r /\ stage[i].act = a
KeepsAQuestion ==
  \A a \in Actions :
    act[a].begun /\ Kept(a) = Nothing =>
      \/ Waits("completed", a) \/ authKey # 0
      \/ "second" \in odd /\ (~act[a].delegate \/ Waits("removed", a))

(* What is on its way to a, or will be asked, or was.                         *)
OnTheWay(a) ==
  { tasks[i].msg : i \in { j \in DOMAIN tasks : ~tasks[j].freed } }
  \cup ToSet(toServer) \cup ToSet(toClient)
  \cup { stage[i].msg : i \in { j \in DOMAIN stage : stage[j].run = "received" /\ stage[j].act = a } }

(* The answers (or questions) of an earlier attempt are on their way.         *)
IsPQ(m)     == m.what \in {"req_pq", "resPQ"}
Stale(m, a) == IsPQ(m) /\ m.nonce # act[a].nonce
Crossed     == \E a \in Actions : delegate = a /\ \E m \in OnTheWay(a) : Stale(m, a)

(* Two attempts are on their way at once only if req_DH_params went out twice *)
(* on one channel or again after it was answered, the server refused          *)
(* something, or a second handshake was begun.                                *)
CrossesOnlyIfOdd == Crossed => odd # {}

(* Nothing is thrown unless the server refused a question it also answered,   *)
(* or two handshakes read the answers of each other.                          *)
ThrowsOnlyIfOdd == crashed => odd \cap {"refused", "second"} # {}

(* The answer of an attempt given up makes a new attempt, whose answer comes  *)
(* when the next has begun: two attempts of one handshake that crossed go on  *)
(* for ever, until the connection is lost, or the buffer of a question is     *)
(* given back before it was written, or the question was asked twice, so that *)
(* its answer comes ahead of an earlier one.                                  *)
Lost      == socket # "up" \/ \E i \in DOMAIN stage : stage[i].run = "closed"
GivenBack == \E i \in DOMAIN tasks : tasks[i].freed
AskedTwice ==
  \E a \in Actions : act[a].processedPQRes /\ \E m \in OnTheWay(a) : IsPQ(m) /\ m.nonce = act[a].nonce
CrossedStays ==
  [][Crossed => (Crossed \/ Lost \/ GivenBack \/ AskedTwice \/ crashed)' \/ "second" \in odd]_vars

(* A handshake comes to its key, or two attempts of it cross, or it throws.   *)
EveryHandshakeEnds == <>(authKey # 0 \/ Crossed \/ crashed)

(* What handshakes keep in every state: types, a key the server holds, a      *)
(* question to ask again, and crossings and exceptions only with a reason.    *)
KeySafe == TypeOK /\ KeyAgreed /\ KeepsAQuestion /\ CrossesOnlyIfOdd /\ ThrowsOnlyIfOdd

(* A handshake ends, and two attempts that crossed stay crossed.              *)
KeyComes == EveryHandshakeEnds /\ CrossedStays
=============================================================================
