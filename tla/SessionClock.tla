----------------------------- MODULE SessionClock -----------------------------
(***************************************************************************)
(* What the server refuses a message for, and how the client comes back in *)
(* step: the clock it takes from the ids of the server's messages, the ids *)
(* it makes of that clock, the salts with their times, the sessions.        *)
(*                                                                          *)
(* Time goes in units of ten minutes' order: the server takes ids up to     *)
(* Behind old and Ahead early.  The half of the ping time the code takes    *)
(* off is below one unit.                                                   *)
(***************************************************************************)
EXTENDS Integers, Sequences, FiniteSets, SequencesExt, FiniteSetsExt

CONSTANTS
  Conns, Push,      \* the connections; those of class RPCRequestClassPush
  Dc,               \* the datacenter of each
  Requests, On,     \* the requests; the connection of each
  GetFutureSalts,   \* the get_future_salts among them, one of a datacenter
  Skews,            \* errors of the device's clock to begin with, or after a change
  Slots,            \* ids that begin with the same time
  Behind, Ahead,    \* what the server allows
  Period,           \* time a salt is the newest one; it is good for two
  Life,             \* validity given to a salt the server did not tell it of
  MaxTime,          \* bound: time
  MaxFlight,        \* bound: messages of a connection on their way
  MaxPings,         \* bound: pings of push connections
  MaxChanges,       \* bound: changes of the device's clock
  MaxPacked,        \* bound: refusals that come in a container
  MaxDrops          \* bound: connections lost

ASSUME PushAssumption == Push \subseteq Conns
ASSUME OnAssumption == On \in [Requests -> Conns \ Push]
ASSUME GetFutureSaltsAssumption ==
  /\ GetFutureSalts \subseteq Requests
  /\ \A f, g \in GetFutureSalts : Dc[On[f]] = Dc[On[g]] => f = g
ASSUME TimesAssumption == {Slots, Period, Life} \subseteq Nat \ {0} /\ {Behind, Ahead} \subseteq Nat
ASSUME BoundsAssumption == {MaxTime, MaxFlight, MaxPings, MaxChanges, MaxPacked, MaxDrops} \subseteq Nat

VARIABLES
  now,      \* the server's time
  skew,     \* what System.currentTimeMillis() is off by
  timeDifference,
  lastOutgoingMessageId,
  conn,     \* session and nextSeqNo of each connection
  req,      \* the requests: running message id, its number, whether to be sent
  salts,    \* authServerSaltSet of each datacenter
  up, down, \* what is on its way to the server and back
  srv,      \* for each connection the session the server knows, its messages
  pings, changes, packed, drops, \* counters
  outlived, \* history: connections whose session outlived a reset of lastOutgoingMessageId
  refused   \* history: why the server refused what had no excuse

vars == <<now, skew, timeDifference, lastOutgoingMessageId, conn, req, salts, up, down, srv,
          pings, changes, packed, drops, outlived, refused>>
counters == <<pings, changes, packed, drops>>

Dcs == {Dc[c] : c \in Conns}
Generic(d) == {c \in Conns \ Push : Dc[c] = d}

Device == now + skew
CurrentTime == Device + timeDifference
TimeOf(id) == id \div Slots

(* Mutant: the last id is not looked at. *)
NextIdOfTime(last) == CurrentTime * Slots

(* generateMessageId *)
NextId(last) == IF CurrentTime * Slots <= last THEN last + 1 ELSE CurrentTime * Slots

-----------------------------------------------------------------------------
(* Salts. *)

Salt(a, b, v) == [since |-> a, until |-> b, value |-> v]

Valid(s, date) == s.since <= date /\ date < s.until

(* selectServerSalt: the one that lasts longest. *)
SelectServerSalt(set, date) ==
  LET good == {s \in set : Valid(s, date)}
  IN IF good = {} THEN 0 ELSE (CHOOSE s \in good : \A t \in good : t.until <= s.until).value

(* ...which forgets those whose time is over. *)
CleanedUp(set, date) == {s \in set : s.until >= date}

AddServerSalt(set, s) == IF \E t \in set : t.value = s.value THEN set ELSE set \cup {s}

MergeServerSalts(set, date, new) ==
  set \cup {s \in new : s.until > date /\ \A t \in set : t.value # s.value}

-----------------------------------------------------------------------------
(* The client sends. *)

(* A message of a connection, in its session.  off: the clock was wrong or     *)
(* ids had run ahead of it.                                                   *)
Message(c, what, id, outer, seq) ==
  [what |-> what, session |-> conn[c].session, id |-> id, outer |-> outer, seq |-> seq,
   salt |-> SelectServerSalt(salts[Dc[c]], CurrentTime),
   off |-> CurrentTime # now \/ TimeOf(lastOutgoingMessageId) > CurrentTime,
   sent |-> now, outlived |-> c \in outlived]

Post(c, m) ==
  /\ Len(up[c]) + Len(down[c]) < MaxFlight
  /\ up' = [up EXCEPT ![c] = Append(@, m)]
  /\ salts' = [salts EXCEPT ![Dc[c]] = CleanedUp(@, CurrentTime)]

Unsent == [state |-> "due", id |-> 0, seq |-> 0]
Over == [state |-> "done", id |-> 0, seq |-> 0]

(* A message whose time is far from the clock goes in a container with an id  *)
(* of its own (proceedToSendingMessages).                                     *)
IsFar(id) == TimeOf(id) # CurrentTime
Outer(id, last) == IF IsFar(id) THEN NextId(last) ELSE id

(* The next pass over the running requests, within a second, takes its id from *)
(* a get_future_salts.                                                         *)
SendRequest(r) ==
  LET c == On[r]
      fresh == req[r].id = 0
      id == IF fresh THEN NextId(lastOutgoingMessageId) ELSE req[r].id
      seq == IF fresh THEN 2 * conn[c].next + 1 ELSE req[r].seq
      last == IF fresh THEN id ELSE lastOutgoingMessageId
  IN /\ req[r].state = "due"
     /\ req' = [req EXCEPT ![r] = IF r \in GetFutureSalts THEN [Unsent EXCEPT !.state = "running"]
                                  ELSE [state |-> "running", id |-> id, seq |-> seq]]
     /\ conn' = IF fresh THEN [conn EXCEPT ![c].next = @ + 1] ELSE conn
     /\ lastOutgoingMessageId' = IF IsFar(id) THEN NextId(last) ELSE last
     /\ Post(c, Message(c, r, id, Outer(id, last), seq))
     /\ UNCHANGED <<now, skew, timeDifference, down, srv, counters, outlived, refused>>

(* A ping of a push connection is not kept, and its number is even: it counts  *)
(* no message.                                                                 *)
SendPing(c) ==
  LET id == NextId(lastOutgoingMessageId)
  IN /\ c \in Push /\ pings < MaxPings
     /\ pings' = pings + 1
     /\ lastOutgoingMessageId' = Outer(id, id)
     /\ Post(c, Message(c, "ping", id, Outer(id, id), 2 * conn[c].next))
     /\ UNCHANGED <<now, skew, timeDifference, conn, req, down, srv, changes, packed, drops, outlived, refused>>

-----------------------------------------------------------------------------
(* The client hears. *)

(* clearRequestsForRequestClass *)
Cleared(d) == [r \in Requests |-> IF Dc[On[r]] = d /\ req[r].state # "done" THEN Unsent ELSE req[r]]

(* processRequestQueue(RPCRequestClassTransportMask, d): all are sent again   *)
(* but get_future_salts, of which refillSaltSet begins one if none is there.   *)
ForcedAndRefilled(d) ==
  [r \in Requests |-> CASE Dc[On[r]] # d -> req[r]
                        [] r \in GetFutureSalts -> IF req[r].state = "done" THEN Unsent ELSE req[r]
                        [] req[r].state = "running" -> [req[r] EXCEPT !.state = "due"]
                        [] OTHER -> req[r]]

(* datacenter.recreateSessions: not the push connection. *)
Recreated(d) == [c \in Conns |-> IF c \in Generic(d) THEN [session |-> conn[c].session + 1, next |-> 0] ELSE conn[c]]

(* The time of a message: in a container processMessage gets 0 for its id. *)
MessageTime(a) == IF a.packed THEN 0 ELSE a.time

ProcessBadMsg(c, a) ==
  /\ timeDifference' = MessageTime(a) - Device
  /\ conn' = Recreated(Dc[c])
  /\ lastOutgoingMessageId' = 0
  /\ req' = Cleared(Dc[c])
  /\ outlived' = Conns \ Generic(Dc[c])
  /\ UNCHANGED salts

(* Mutant: what the server refused is not sent again. *)
ProcessBadServerSaltUnforced(c, a) ==
  /\ timeDifference' = a.time - Device
  /\ lastOutgoingMessageId' = Max({a.time * Slots, lastOutgoingMessageId})
  /\ salts' = [salts EXCEPT ![Dc[c]] = {Salt(a.time, a.time + Life, a.salt)}]
  /\ UNCHANGED <<conn, req, outlived>>

ProcessBadServerSalt(c, a) ==
  LET d == Dc[c]
      difference == IF a.packed THEN timeDifference ELSE a.time - Device
      time == Device + difference
  IN /\ timeDifference' = difference
     /\ lastOutgoingMessageId' = IF a.packed THEN lastOutgoingMessageId ELSE Max({a.time * Slots, lastOutgoingMessageId})
     /\ salts' = [salts EXCEPT ![d] = {Salt(time, time + Life, a.salt)}]
     /\ req' = ForcedAndRefilled(d)
     /\ UNCHANGED <<conn, outlived>>

ProcessNewSession(c, a) ==
  /\ salts' = [salts EXCEPT ![Dc[c]] = AddServerSalt(@, Salt(CurrentTime, CurrentTime + Life, a.salt))]
  /\ req' = [r \in Requests |-> IF On[r] = c /\ req[r].state # "done" /\ req[r].id < a.first
                                THEN Unsent ELSE req[r]]
  /\ UNCHANGED <<timeDifference, lastOutgoingMessageId, conn, outlived>>

(* An earlier get_future_salts's answer goes for the one under way.            *)
ProcessAnswer(c, a) ==
  /\ req' = [r \in Requests |-> IF r = a.of THEN Over ELSE req[r]]
  /\ salts' = IF a.of \in GetFutureSalts /\ req[a.of].state # "done"
              THEN [salts EXCEPT ![Dc[c]] = MergeServerSalts(@, CurrentTime, a.salts)] ELSE salts
  /\ UNCHANGED <<timeDifference, lastOutgoingMessageId, conn, outlived>>

(* tcpConnectionReceivedData: messages of another session are not read. *)
Receive(c) ==
  /\ down[c] # <<>>
  /\ down' = [down EXCEPT ![c] = Tail(@)]
  /\ LET a == Head(down[c])
     IN IF a.session # conn[c].session
        THEN UNCHANGED <<timeDifference, lastOutgoingMessageId, conn, req, salts, outlived>>
        ELSE CASE a.what = "bad_msg_notification" -> ProcessBadMsg(c, a)
               [] a.what = "bad_server_salt" -> ProcessBadServerSalt(c, a)
               [] a.what = "new_session_created" -> ProcessNewSession(c, a)
               [] a.what = "answer" -> ProcessAnswer(c, a)
  /\ UNCHANGED <<now, skew, up, srv, counters, refused>>

(* A connection lost: on the next channel its requests are sent again. *)
Drop(c) ==
  /\ drops < MaxDrops
  /\ drops' = drops + 1
  /\ up' = [up EXCEPT ![c] = <<>>]
  /\ down' = [down EXCEPT ![c] = <<>>]
  /\ req' = [r \in Requests |-> IF On[r] = c /\ req[r].state = "running" THEN [req[r] EXCEPT !.state = "due"] ELSE req[r]]
  /\ UNCHANGED <<now, skew, timeDifference, lastOutgoingMessageId, conn, salts, srv, pings, changes, packed, outlived, refused>>

(* The time of a get_future_salts that nobody will answer is over; a generic  *)
(* request stays with its channel.                                             *)
Timeout(f) ==
  /\ req[f].state = "running" /\ up[On[f]] = <<>> /\ down[On[f]] = <<>>
  /\ req' = [req EXCEPT ![f] = Unsent]
  /\ UNCHANGED <<now, skew, timeDifference, lastOutgoingMessageId, conn, salts, up, down, srv, counters, outlived, refused>>

-----------------------------------------------------------------------------
(* The server. *)

Newest == now \div Period + 1
SaltIsGood(v) == v \in {Newest, Newest - 1} \ {0}
FutureSalts == {Salt((v - 1) * Period, (v + 1) * Period, v) : v \in {Newest, Newest + 1}}

TimeIsGood(m) == TimeOf(m.outer) >= now - Behind /\ TimeOf(m.outer) <= now + Ahead

(* Ids and numbers grow together in a session; two may share an even number. *)
OrderIsGood(c, m) ==
  m.session = srv[c].session =>
    \A k \in srv[c].got :
      /\ k[1] < m.id => k[2] < m.seq \/ (k[2] = m.seq /\ m.seq % 2 = 0)
      /\ k[1] > m.id => k[2] > m.seq \/ (k[2] = m.seq /\ m.seq % 2 = 0)
      /\ k[1] = m.id => k[2] = m.seq

Reasons(c, m) ==
  (IF SaltIsGood(m.salt) THEN {} ELSE {"salt"}) \cup (IF TimeIsGood(m) THEN {} ELSE {"time"})
  \cup (IF OrderIsGood(c, m) THEN {} ELSE {"order"})

(* What a refusal may come from. *)
HasExcuse(why, m) == CASE why = "order" -> m.outlived
                       [] why = "time" -> m.off \/ m.sent < now
                       [] OTHER -> TRUE

Reply(what, m) == [what |-> what, session |-> m.session, of |-> m.what, time |-> now, salt |-> Newest,
                   first |-> m.id, salts |-> IF what = "answer" /\ m.what \in GetFutureSalts THEN FutureSalts ELSE {},
                   packed |-> FALSE]

Serve(c) ==
  /\ up[c] # <<>>
  /\ up' = [up EXCEPT ![c] = Tail(@)]
  /\ LET m == Head(up[c])
         new == m.session # srv[c].session
     IN \/ \E why \in Reasons(c, m), p \in BOOLEAN :
             /\ p => packed < MaxPacked
             /\ packed' = IF p THEN packed + 1 ELSE packed
             /\ down' = [down EXCEPT ![c] = Append(@, [Reply(IF why = "salt" THEN "bad_server_salt" ELSE "bad_msg_notification", m)
                                                         EXCEPT !.packed = p])]
             /\ refused' = IF HasExcuse(why, m) THEN refused ELSE refused \cup {why}
             /\ UNCHANGED srv
        \/ /\ Reasons(c, m) = {}
           /\ srv' = [srv EXCEPT ![c] = [session |-> m.session, got |-> (IF new THEN {} ELSE @.got) \cup {<<m.id, m.seq>>}]]
           /\ down' = [down EXCEPT ![c] = @ \o (IF new THEN <<Reply("new_session_created", m)>> ELSE <<>>)
                                            \o <<Reply("answer", m)>>]
           /\ UNCHANGED <<packed, refused>>
  /\ UNCHANGED <<now, skew, timeDifference, lastOutgoingMessageId, conn, req, salts, pings, changes, drops, outlived>>

Tick ==
  /\ now < MaxTime
  /\ now' = now + 1
  /\ UNCHANGED <<skew, timeDifference, lastOutgoingMessageId, conn, req, salts, up, down, srv, counters, outlived, refused>>

ChangeClock ==
  /\ changes < MaxChanges
  /\ changes' = changes + 1
  /\ skew' \in Skews \ {skew}
  /\ UNCHANGED <<now, timeDifference, lastOutgoingMessageId, conn, req, salts, up, down, srv, pings, packed, drops, outlived, refused>>

-----------------------------------------------------------------------------
(* A key was agreed on at time 0 with the clock right, or the process began   *)
(* with what was saved of it, and the clock of the device has moved.          *)
Init ==
  /\ now = 4 /\ skew \in Skews /\ timeDifference = 0 /\ lastOutgoingMessageId = 0
  /\ conn = [c \in Conns |-> [session |-> 1, next |-> 0]]
  /\ req = [r \in Requests |-> IF r \in GetFutureSalts THEN Over ELSE Unsent]
  /\ salts \in [Dcs -> {{}, FutureSalts}]
  /\ up = [c \in Conns |-> <<>>] /\ down = [c \in Conns |-> <<>>]
  /\ srv = [c \in Conns |-> [session |-> 0, got |-> {}]]
  /\ pings = 0 /\ changes = 0 /\ packed = 0 /\ drops = 0
  /\ outlived = {} /\ refused = {}

Next ==
  \/ \E r \in Requests : SendRequest(r)
  \/ \E f \in GetFutureSalts : Timeout(f)
  \/ \E c \in Conns : SendPing(c) \/ Receive(c) \/ Serve(c) \/ Drop(c)
  \/ Tick \/ ChangeClock

Spec == Init /\ [][Next]_vars

(* Requests are sent, timed out, answered; time passes. *)
Fairness ==
  /\ WF_vars(Tick)
  /\ \A r \in Requests : WF_vars(SendRequest(r))
  /\ \A f \in GetFutureSalts : WF_vars(Timeout(f))
  /\ \A c \in Conns : WF_vars(Receive(c)) /\ WF_vars(Serve(c))

FairSpec == Spec /\ Fairness

-----------------------------------------------------------------------------
(* The state has its shape; no two salts of a datacenter have one value.      *)
TypeOK ==
  /\ now \in 0..MaxTime /\ skew \in Skews /\ timeDifference \in Int /\ lastOutgoingMessageId \in Nat
  /\ \A c \in Conns : conn[c].session \in Nat \ {0} /\ conn[c].next \in Nat
  /\ \A r \in Requests : req[r].state \in {"due", "running", "done"} /\ req[r].id \in Nat /\ (req[r].id = 0 <=> req[r].seq = 0)
  /\ \A d \in Dcs : \A s, t \in salts[d] : s.value = t.value => s = t
  /\ outlived \subseteq Conns

(* A message refused for its order was of a session that outlived a reset of   *)
(* lastOutgoingMessageId, which recreates those of one datacenter.             *)
OrderRefusedOnlyIfOutlived == "order" \notin refused

(* A message refused for its time was sent with the clock off, or with ids run *)
(* ahead of it, or was long on its way.                                        *)
TimeRefusedOnlyIfOff == "time" \notin refused

(* Whatever the clock and the salts were: every request is accepted.           *)
EveryRequestAccepted == \A r \in Requests \ GetFutureSalts : <>(req[r].state = "done")

(* What clock, ids and salts keep in every state: types, and no message       *)
(* refused for its order or its time without an excuse.                       *)
ClockSafe == TypeOK /\ OrderRefusedOnlyIfOutlived /\ TimeRefusedOnlyIfOff
===============================================================================
