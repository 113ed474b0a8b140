------------------------ MODULE TcpConnection_proofs ------------------------
(***************************************************************************)
(* The connections of TcpConnection keep ConnectionSafe, and are to the    *)
(* engine channels.  The sessions that go over them keep SessionSafe of    *)
(* MessageSession: the inductive invariant SessionInv, in the second half. *)
(***************************************************************************)
EXTENDS TcpConnection, SessionMessages, TLAPS

Tasks == [what : {"connect", "send", "suspend", "timer"}, conn : Conns]

(* A connection by itself: how its socket, its state, its token, its timer  *)
(* and the header it has to write go together.                              *)
ConnRight(k) ==
  /\ k.channelToken # 0 <=> k.client = "up"
  /\ k.state = "Connected" <=> k.client = "up"
  /\ k.state = "Connecting" <=> k.client = "open"
  /\ k.header # "wrong"
  /\ k.client \in {"open", "up"} => (k.firstPacket <=> k.header = "none")
  /\ k.timer => k.client \notin {"open", "up"}

(* A connection may open a socket: one of those in as, which were asked for *)
(* or overtook the suspension, or one about to be suspended.                *)
Excused(ts, as, c) == c \in as \/ Contains(ts, Task("suspend", c))

(* What waits and would open a socket is excused, or a suspension waits     *)
(* behind it.                                                               *)
Orderly(ts, as) ==
  \A i \in 1..Len(ts) : ts[i].what # "suspend" =>
     \/ ts[i].conn \in as
     \/ \E j \in (i + 1)..Len(ts) : ts[j] = Task("suspend", ts[i].conn)

(* A socket that is there or was a moment ago, or a timer, is excused too.  *)
Stirs(k) == k.timer \/ k.client \in {"open", "up", "closing"}

StirsExcused == \A c \in Conns : Stirs(con[c]) => Excused(tasks, asked \cup overtaken, c)

(* A connection is up, on its way or will be tried again.                   *)
Armed(ts, c, k) ==
  \/ k.client \in {"open", "up"} \/ k.timer
  \/ \E what \in {"connect", "timer"} : Contains(ts, Task(what, c))

(* What waits for the other connections still waits.                        *)
KeepsOthers(ts, c) ==
  \A d \in Conns \ {c}, what \in {"connect", "timer", "suspend"} :
     Waits(what, d) => Contains(ts, Task(what, d))

Inv ==
  /\ TypeOK
  /\ \A c \in Conns : ConnRight(con[c])
  /\ RetryArmed
  /\ Orderly(tasks, asked \cup overtaken)
  /\ StirsExcused

-----------------------------------------------------------------------------
(* The tasks. *)

\* What a task scheduled at the end changes of what waits.
LEMMA AppendTask ==
  ASSUME NEW ts \in Seq(Tasks), NEW t \in Tasks
  PROVE  /\ Append(ts, t) \in Seq(Tasks)
         /\ \A x : Contains(Append(ts, t), x) <=> (Contains(ts, x) \/ x = t)
<1>1. /\ Append(ts, t) \in Seq(Tasks) /\ Len(Append(ts, t)) = Len(ts) + 1 /\ Len(ts) \in Nat
      /\ \A i \in 1..Len(ts) : Append(ts, t)[i] = ts[i]
      /\ Append(ts, t)[Len(ts) + 1] = t
  OBVIOUS
<1> QED BY <1>1 DEF Contains

\* What waits when the first task is taken.
LEMMA TakeTask ==
  ASSUME NEW ts \in Seq(Tasks), ts # <<>>
  PROVE  /\ Tail(ts) \in Seq(Tasks) /\ Head(ts) \in Tasks
         /\ \A x : Contains(ts, x) <=> (x = Head(ts) \/ Contains(Tail(ts), x))
<1>1. /\ Tail(ts) \in Seq(Tasks) /\ Len(Tail(ts)) = Len(ts) - 1 /\ Len(ts) \in Nat \ {0}
      /\ \A i \in 1..Len(Tail(ts)) : Tail(ts)[i] = ts[i + 1]
      /\ Head(ts) = ts[1] /\ ts[1] \in Tasks
  OBVIOUS
<1>2. ASSUME NEW x
      PROVE  Contains(ts, x) <=> (x = Head(ts) \/ Contains(Tail(ts), x))
  <2>1. ASSUME NEW i \in 1..Len(ts), ts[i] = x, i # 1
        PROVE  Contains(Tail(ts), x)
    <3>1. i - 1 \in 1..Len(Tail(ts)) /\ Tail(ts)[i - 1] = x
      BY <1>1, <2>1
    <3> QED BY <3>1 DEF Contains
  <2>2. ASSUME NEW i \in 1..Len(Tail(ts)), Tail(ts)[i] = x
        PROVE  Contains(ts, x)
    <3>1. i + 1 \in 1..Len(ts) /\ ts[i + 1] = x
      BY <1>1, <2>2
    <3> QED BY <3>1 DEF Contains
  <2>3. 1 \in 1..Len(ts)
    BY <1>1
  <2> QED BY <1>1, <2>1, <2>2, <2>3 DEF Contains
<1> QED BY <1>1, <1>2

\* A task that opens a socket may be scheduled if it is excused by itself.
LEMMA OrderlyAppend ==
  ASSUME NEW ts \in Seq(Tasks), NEW t \in Tasks, NEW as, NEW bs,
         Orderly(ts, as), as \subseteq bs, t.conn \in bs
  PROVE  Orderly(Append(ts, t), bs)
<1> DEFINE us == Append(ts, t)
<1>1. /\ Len(us) = Len(ts) + 1 /\ Len(ts) \in Nat
      /\ \A i \in 1..Len(ts) : us[i] = ts[i]
      /\ us[Len(ts) + 1] = t
  OBVIOUS
<1> HIDE DEF us
<1>2. SUFFICES ASSUME NEW i \in 1..Len(us), us[i].what # "suspend", us[i].conn \notin bs
               PROVE  \E j \in (i + 1)..Len(us) : us[j] = Task("suspend", us[i].conn)
  BY DEF Orderly, us
<1>3. i \in 1..Len(ts) /\ us[i] = ts[i]
  BY <1>1, <1>2
<1>4. PICK j \in (i + 1)..Len(ts) : ts[j] = Task("suspend", ts[i].conn)
  BY <1>2, <1>3 DEF Orderly
<1>5. j \in (i + 1)..Len(us) /\ us[j] = Task("suspend", us[i].conn)
  BY <1>1, <1>3, <1>4
<1> QED BY <1>5

\* A suspension excuses what waits before it.
LEMMA OrderlySuspend ==
  ASSUME NEW ts \in Seq(Tasks), NEW c \in Conns, NEW as, Orderly(ts, as)
  PROVE  Orderly(Append(ts, Task("suspend", c)), as \ {c})
<1> DEFINE t == Task("suspend", c)
           us == Append(ts, t)
<1>1. t.what = "suspend" /\ t.conn = c
  BY DEF Task
<1>2. /\ Len(us) = Len(ts) + 1 /\ Len(ts) \in Nat
      /\ \A i \in 1..Len(ts) : us[i] = ts[i]
      /\ us[Len(ts) + 1] = t
  BY <1>1 DEF Tasks, Task
<1> HIDE DEF us
<1>3. SUFFICES ASSUME NEW i \in 1..Len(us), us[i].what # "suspend",
                      us[i].conn \notin as \ {c}
               PROVE  \E j \in (i + 1)..Len(us) : us[j] = Task("suspend", us[i].conn)
  BY DEF Orderly, us
<1>4. i \in 1..Len(ts) /\ us[i] = ts[i]
  BY <1>1, <1>2, <1>3
<1>5. CASE us[i].conn = c
  <2>1. Len(us) \in (i + 1)..Len(us) /\ us[Len(us)] = Task("suspend", us[i].conn)
    BY <1>2, <1>4, <1>5
  <2> QED BY <2>1
<1>6. CASE us[i].conn # c
  <2>1. PICK j \in (i + 1)..Len(ts) : ts[j] = Task("suspend", ts[i].conn)
    BY <1>3, <1>4, <1>6 DEF Orderly
  <2>2. j \in (i + 1)..Len(us) /\ us[j] = Task("suspend", us[i].conn)
    BY <1>2, <1>4, <2>1
  <2> QED BY <2>2
<1> QED BY <1>5, <1>6

\* What is left when the first task is taken; if it opens a socket it is excused.
LEMMA OrderlyTail ==
  ASSUME NEW ts \in Seq(Tasks), ts # <<>>, NEW as, Orderly(ts, as)
  PROVE  /\ Orderly(Tail(ts), as)
         /\ Head(ts).what # "suspend" => Excused(Tail(ts), as, Head(ts).conn)
<1>1. /\ Len(Tail(ts)) = Len(ts) - 1 /\ Len(ts) \in Nat \ {0}
      /\ \A i \in 1..Len(Tail(ts)) : Tail(ts)[i] = ts[i + 1]
      /\ Head(ts) = ts[1]
  OBVIOUS
<1>2. ASSUME NEW i \in 1..Len(Tail(ts)), Tail(ts)[i].what # "suspend", Tail(ts)[i].conn \notin as
      PROVE  \E j \in (i + 1)..Len(Tail(ts)) : Tail(ts)[j] = Task("suspend", Tail(ts)[i].conn)
  <2>1. i + 1 \in 1..Len(ts) /\ Tail(ts)[i] = ts[i + 1]
    BY <1>1
  <2>2. PICK j \in ((i + 1) + 1)..Len(ts) : ts[j] = Task("suspend", ts[i + 1].conn)
    BY <1>2, <2>1 DEF Orderly
  <2>3. j - 1 \in (i + 1)..Len(Tail(ts)) /\ Tail(ts)[j - 1] = ts[j]
    BY <1>1
  <2> QED BY <2>1, <2>2, <2>3
<1>3. ASSUME Head(ts).what # "suspend", Head(ts).conn \notin as
      PROVE  Contains(Tail(ts), Task("suspend", Head(ts).conn))
  <2>1. 1 \in 1..Len(ts)
    BY <1>1
  <2>2. PICK j \in (1 + 1)..Len(ts) : ts[j] = Task("suspend", ts[1].conn)
    BY <1>1, <1>3, <2>1 DEF Orderly
  <2>3. j - 1 \in 1..Len(Tail(ts)) /\ Tail(ts)[j - 1] = ts[j]
    BY <1>1
  <2> QED BY <1>1, <2>2, <2>3 DEF Contains
<1> QED BY <1>2, <1>3 DEF Orderly, Excused

-----------------------------------------------------------------------------
(* One connection changes. *)

\* Taking out the closed keys.
LEMMA SelectedRight ==
  ASSUME NEW k \in [Conns -> Connections]
  PROVE  /\ Selected(k) \in [Conns -> Connections]
         /\ \A c \in Conns :
              /\ Selected(k)[c].timer = k[c].timer
              /\ Selected(k)[c].client \in {"open", "up"} <=> k[c].client \in {"open", "up"}
              /\ Stirs(Selected(k)[c]) => Stirs(k[c])
              /\ Selected(k)[c].client = "closed" \/ Selected(k)[c] = k[c]
              /\ ConnRight(k[c]) => ConnRight(Selected(k)[c])
              /\ Selected(k)[c].wasConnected = k[c].wasConnected
<1> SUFFICES ASSUME NEW c \in Conns
             PROVE  /\ Selected(k)[c] \in Connections
                    /\ Selected(k)[c].timer = k[c].timer
                    /\ Selected(k)[c].client \in {"open", "up"} <=> k[c].client \in {"open", "up"}
                    /\ Stirs(Selected(k)[c]) => Stirs(k[c])
                    /\ Selected(k)[c].client = "closed" \/ Selected(k)[c] = k[c]
                    /\ ConnRight(k[c]) => ConnRight(Selected(k)[c])
                    /\ Selected(k)[c].wasConnected = k[c].wasConnected
  BY DEF Selected
<1>1. k[c] \in Connections
  OBVIOUS
<1>2. CASE k[c].client = "closing"
  <2>1. Selected(k)[c] = [k[c] EXCEPT !.client = "closed"]
    BY <1>2 DEF Selected
  <2> QED BY <1>1, <1>2, <2>1 DEF Connections, Stirs, ConnRight
<1>3. CASE k[c].client # "closing"
  <2>1. Selected(k)[c] = k[c]
    BY <1>3 DEF Selected
  <2> QED BY <1>1, <2>1
<1> QED BY <1>2, <1>3

\* A step that sets the connection c to k keeps Inv if k is right, c and the tasks
\* are in order, and nothing is taken from the other connections.
LEMMA OneChanges ==
  ASSUME Inv, NEW c \in Conns, NEW k \in Connections,
         con' = [Selected(con) EXCEPT ![c] = k] \/ con' = [con EXCEPT ![c] = k],
         ConnRight(k),
         address' \in 0..(Addresses - 1), tasks' \in Seq(Tasks), tokens' \in Nat,
         online' \in BOOLEAN, asked' \subseteq Conns, overtaken' \subseteq Conns,
         wanted' \subseteq wanted \cup {c}, drops' \in Nat, suspends' \in Nat, outages' \in Nat,
         KeepsOthers(tasks', c),
         asked \ {c} \subseteq asked', overtaken \ {c} \subseteq overtaken',
         c \in wanted' => Armed(tasks', c, k),
         Orderly(tasks', asked' \cup overtaken'),
         Stirs(k) => Excused(tasks', asked' \cup overtaken', c)
  PROVE  Inv'
<1>1. con \in [Conns -> Connections] /\ wanted \subseteq Conns
  BY DEF Inv, TypeOK
<1>2. /\ con' \in [Conns -> Connections] /\ con'[c] = k
      /\ \A d \in Conns \ {c} :
           /\ con'[d].timer = con[d].timer
           /\ con'[d].client \in {"open", "up"} <=> con[d].client \in {"open", "up"}
           /\ Stirs(con'[d]) => Stirs(con[d])
           /\ ConnRight(con'[d])
  <2> DEFINE S == Selected(con)
  <2>1. /\ S \in [Conns -> Connections]
        /\ \A d \in Conns :
             /\ S[d].timer = con[d].timer
             /\ S[d].client \in {"open", "up"} <=> con[d].client \in {"open", "up"}
             /\ Stirs(S[d]) => Stirs(con[d])
             /\ ConnRight(S[d])
    BY <1>1, SelectedRight DEF Inv
  <2> HIDE DEF S
  <2>2. con' = [S EXCEPT ![c] = k] \/ con' = [con EXCEPT ![c] = k]
    BY DEF S
  <2>3. CASE con' = [S EXCEPT ![c] = k]
    BY <2>1, <2>3
  <2>4. CASE con' = [con EXCEPT ![c] = k]
    BY <1>1, <2>4 DEF Inv
  <2> QED BY <2>2, <2>3, <2>4
<1>3. TypeOK'
  BY <1>1, <1>2 DEF TypeOK, Tasks
<1>4. \A d \in Conns : ConnRight(con'[d])
  BY <1>2
<1>5. RetryArmed'
  <2> SUFFICES ASSUME NEW d \in wanted'
               PROVE  \/ con'[d].client \in {"open", "up"} \/ con'[d].timer
                      \/ \E what \in {"connect", "timer"} : Contains(tasks', Task(what, d))
    BY DEF RetryArmed, Alive, Waits
  <2>1. CASE d = c
    BY <1>2, <2>1 DEF Armed
  <2>2. CASE d # c
    <3>1. d \in wanted /\ d \in Conns \ {c}
      BY <2>2, <1>1
    <3>2. \/ con[d].client \in {"open", "up"} \/ con[d].timer
          \/ \E what \in {"connect", "timer"} : Waits(what, d)
      BY <3>1 DEF Inv, RetryArmed, Alive
    <3> QED BY <1>2, <3>1, <3>2 DEF KeepsOthers
  <2> QED BY <2>1, <2>2
<1>6. StirsExcused'
  <2> SUFFICES ASSUME NEW d \in Conns, Stirs(con'[d])
               PROVE  Excused(tasks', asked' \cup overtaken', d)
    BY DEF StirsExcused, Stirs, Excused, Task
  <2>1. CASE d = c
    BY <1>2, <2>1
  <2>2. CASE d # c
    <3>1. Excused(tasks, asked \cup overtaken, d)
      BY <1>2, <2>2 DEF Inv, StirsExcused
    <3> QED BY <2>2, <3>1 DEF Excused, Waits, KeepsOthers
  <2> QED BY <2>1, <2>2
<1> QED BY <1>3, <1>4, <1>5, <1>6 DEF Inv, Orderly, Task, ConnRight

-----------------------------------------------------------------------------
(* Each step keeps Inv. *)

\* Connections that nobody asked for keep the invariant.
LEMMA InitInv == Init => Inv
<1> SUFFICES ASSUME Init PROVE Inv
  OBVIOUS
<1>1. TypeOK
  BY AddressesAssumption DEF Init, TypeOK, Connections, States
<1> QED BY <1>1 DEF Init, Inv, ConnRight, RetryArmed, Orderly, StirsExcused, Stirs

\* A task another thread schedules.
LEMMA ScheduledKeepsInv ==
  ASSUME Inv, NEW c \in Conns, NEW what \in {"connect", "send", "suspend", "timer"},
         tasks' = Append(tasks, Task(what, c)),
         UNCHANGED <<con, address, tokens, online, drops, outages>>, suspends' \in Nat,
         asked' \subseteq Conns, overtaken' \subseteq Conns, wanted' \subseteq Conns,
         wanted' \subseteq wanted \/ (what = "connect" /\ wanted' = wanted \cup {c}),
         what = "suspend" => asked' = asked \ {c} /\ overtaken' = overtaken \ {c},
         what # "suspend" => /\ asked \cup overtaken \subseteq asked' \cup overtaken'
                             /\ c \in asked' \cup overtaken'
  PROVE  Inv'
<1> DEFINE t == Task(what, c)
           as == asked \cup overtaken
           bs == asked' \cup overtaken'
<1>1. t \in Tasks /\ tasks \in Seq(Tasks) /\ t.conn = c
  BY DEF Task, Tasks, Inv, TypeOK
<1>2. tasks' \in Seq(Tasks) /\ \A x : Contains(tasks', x) <=> (Contains(tasks, x) \/ x = t)
  BY <1>1, AppendTask
<1>3. TypeOK'
  BY <1>2 DEF Inv, TypeOK, Tasks
<1>4. RetryArmed'
  BY <1>2 DEF Inv, RetryArmed, Alive, Waits
<1>5. Orderly(tasks, as)
  BY DEF Inv
<1>6. Orderly(tasks', bs)
  <2>1. CASE what = "suspend"
    <3>1. bs = as \ {c}
      BY <2>1
    <3> QED BY <1>1, <1>5, <2>1, <3>1, OrderlySuspend
  <2>2. CASE what # "suspend"
    BY <1>1, <1>5, <2>2, OrderlyAppend
  <2> QED BY <2>1, <2>2
<1>7. StirsExcused'
  <2> SUFFICES ASSUME NEW d \in Conns, Stirs(con[d])
               PROVE  Excused(tasks', bs, d)
    BY DEF StirsExcused, Stirs, Excused, Task
  <2>1. Excused(tasks, as, d)
    BY DEF Inv, StirsExcused
  <2>2. CASE what = "suspend"
    BY <1>2, <2>1, <2>2 DEF Excused
  <2>3. CASE what # "suspend"
    BY <1>2, <2>1, <2>3 DEF Excused
  <2> QED BY <2>2, <2>3
<1> QED BY <1>3, <1>4, <1>6, <1>7 DEF Inv, Orderly, Task, ConnRight

\* Who asks for a connection, a packet or a suspension, and a timer that fires, only
\* schedule a task.
LEMMA AsksKeepInv ==
  ASSUME Inv, NEW c \in Conns,
         AskConnect(c) \/ AskSend(c) \/ AskSuspend(c) \/ Fire(c)
  PROVE  Inv'
<1>1. TypeOK
  BY DEF Inv
<1>2. CASE AskConnect(c)
  BY <1>1, <1>2, ScheduledKeepsInv DEF AskConnect, TypeOK
<1>3. CASE AskSend(c)
  BY <1>1, <1>3, ScheduledKeepsInv DEF AskSend, TypeOK
<1>4. CASE AskSuspend(c)
  BY <1>1, <1>4, ScheduledKeepsInv DEF AskSuspend, TypeOK
<1>5. CASE Fire(c)
  <2>1. c \in asked' \cup overtaken'
    BY <1>5 DEF Fire, Inv, StirsExcused, Stirs, Excused, Waits
  <2> QED BY <1>1, <1>5, <2>1, ScheduledKeepsInv DEF Fire, TypeOK
<1> QED BY <1>2, <1>3, <1>4, <1>5

\* The network comes or goes.
LEMMA NetworkKeepsInv == ASSUME Inv, NetworkChanges PROVE Inv'
  BY DEF NetworkChanges, Inv, TypeOK, RetryArmed, Alive, Waits, StirsExcused, Stirs, Excused,
         Orderly, Task, ConnRight

\* What is left of the tasks when the one of c is taken.
LEMMA Taken ==
  ASSUME Inv, NEW c \in Conns, NEW what \in {"connect", "send", "suspend", "timer"}, Run(what, c)
  PROVE  /\ Tail(tasks) \in Seq(Tasks)
         /\ \A d \in Conns, w \in {"connect", "send", "suspend", "timer"} :
               d # c \/ w # what => (Waits(w, d) <=> Contains(Tail(tasks), Task(w, d)))
         /\ Orderly(Tail(tasks), asked \cup overtaken)
         /\ what # "suspend" => Excused(Tail(tasks), asked \cup overtaken, c)
<1>1. tasks \in Seq(Tasks) /\ tasks # <<>> /\ Head(tasks) = Task(what, c)
      /\ Orderly(tasks, asked \cup overtaken)
  BY DEF Inv, TypeOK, Tasks, Run
<1>2. \A d \in Conns, w \in {"connect", "send", "suspend", "timer"} :
         d # c \/ w # what => Task(w, d) # Head(tasks)
  BY <1>1 DEF Task
<1>3. Head(tasks).what = what /\ Head(tasks).conn = c
  BY <1>1 DEF Task
<1> QED BY <1>1, <1>2, <1>3, TakeTask, OrderlyTail DEF Waits

\* The next address is one of the addresses.
LEMMA NextAddressIsOne ==
  ASSUME address \in 0..(Addresses - 1)
  PROVE  NextAddress \in 0..(Addresses - 1)
<1>1. Addresses \in Nat /\ Addresses > 0 /\ address + 1 \in Nat
  BY AddressesAssumption
<1> QED BY <1>1 DEF NextAddress

\* connect opens a socket to the current address.
LEMMA RunConnectKeepsInv ==
  ASSUME Inv, NEW c \in Conns, RunConnect(c) \/ RunConnectKnown(c)
  PROVE  Inv'
<1> DEFINE T == Tail(tasks)
<1>1. /\ Run("connect", c) /\ tasks' = T
      /\ UNCHANGED <<address, tokens, online>> /\ UNCHANGED history
  BY DEF RunConnect, RunConnectKnown, Connects
<1>2. /\ T \in Seq(Tasks) /\ Orderly(T, asked \cup overtaken)
      /\ Excused(T, asked \cup overtaken, c) /\ KeepsOthers(T, c)
  BY <1>1, Taken DEF KeepsOthers
<1>3. TypeOK /\ con \in [Conns -> Connections] /\ ConnRight(con[c])
      /\ Selected(con) \in [Conns -> Connections] /\ ConnRight(Selected(con)[c])
  BY SelectedRight DEF Inv, TypeOK
<1> HIDE DEF T
<1>4. CASE RunConnect(c)
  <2> DEFINE s == Selected(con)[c]
             k == [s EXCEPT !.state = "Connecting", !.client = "open", !.at = address,
                            !.timer = FALSE, !.firstPacket = TRUE, !.header = "none",
                            !.wasConnected = FALSE, !.hasSomeData = FALSE]
  <2>1. s \in Connections /\ s.client # "up" /\ ConnRight(s)
    BY <1>3, <1>4, SelectedRight DEF RunConnect, Connects, ConnRight
  <2>2. con' = [Selected(con) EXCEPT ![c] = k]
    BY <1>3, <1>4 DEF RunConnect
  <2> HIDE DEF s
  <2>3. k \in Connections /\ ConnRight(k) /\ k.client = "open"
    BY <1>3, <2>1 DEF Connections, States, ConnRight, TypeOK
  <2> HIDE DEF k
  <2>4. Armed(T, c, k)
    BY <2>3 DEF Armed
  <2> QED BY <1>1, <1>2, <1>3, <2>2, <2>3, <2>4, OneChanges DEF TypeOK, history
<1>5. CASE RunConnectKnown(c)
  <2> DEFINE k == Selected(con)[c]
  <2>1. con' = [Selected(con) EXCEPT ![c] = k]
    BY <1>3, <1>5 DEF RunConnectKnown
  <2>2. k \in Connections /\ ConnRight(k)
    BY <1>3
  <2>3. k.client \in {"open", "up"}
    BY <1>3, <1>5, SelectedRight DEF RunConnectKnown, ConnRight
  <2> HIDE DEF k
  <2>4. Armed(T, c, k)
    BY <2>3 DEF Armed
  <2> QED BY <1>1, <1>2, <1>3, <2>1, <2>2, <2>4, OneChanges DEF TypeOK, history
<1> QED BY <1>4, <1>5

\* A failure is counted, and perhaps the next address is tried.
LEMMA FailedRight ==
  ASSUME NEW k \in Connections, ConnRight(k), NEW r \in {1, 5}
  PROVE  /\ Failed(k, r) \in Connections /\ ConnRight(Failed(k, r))
         /\ Failed(k, r).client = k.client /\ Failed(k, r).timer = k.timer
<1> DEFINE w == IF k.failed = 0 THEN r ELSE k.willRetry
<1>1. w \in {1, 5} /\ k.failed + 1 \in Nat
  BY DEF Connections
<1>2. Failed(k, r) = [k EXCEPT !.failed = k.failed + 1, !.willRetry = w]
  BY DEF Failed, Connections
<1> HIDE DEF w
<1> QED BY <1>1, <1>2 DEF Connections, ConnRight

\* Whether or not it moves on to the next address, a connection stays as it is.
LEMMA MovesOnEffect ==
  ASSUME NEW c \in Conns, NEW k \in Connections, ConnRight(k), NEW moves, TypeOK, MovesOn(c, k, moves)
  PROVE  /\ address' \in 0..(Addresses - 1)
         /\ \E m \in Connections :
              /\ ConnRight(m) /\ m.client = k.client /\ m.timer = k.timer
              /\ con' = [Selected(con) EXCEPT ![c] = m]
<1>1. address' \in 0..(Addresses - 1)
  BY NextAddressIsOne DEF MovesOn, TypeOK
<1>2. CASE moves
  <2> DEFINE m == [k EXCEPT !.failed = 0]
  <2>1. m \in Connections /\ ConnRight(m) /\ m.client = k.client /\ m.timer = k.timer
    BY DEF Connections, ConnRight
  <2>2. con' = [Selected(con) EXCEPT ![c] = m]
    BY <1>2 DEF MovesOn
  <2> QED BY <1>1, <2>1, <2>2
<1>3. CASE ~moves
  BY <1>1, <1>3 DEF MovesOn
<1> QED BY <1>2, <1>3

\* A socket that cannot be opened leaves a timer for the next attempt.
LEMMA RunConnectThrowsKeepsInv ==
  ASSUME Inv, NEW c \in Conns, RunConnectThrows(c)
  PROVE  Inv'
<1> DEFINE T == Tail(tasks)
           j == [con[c] EXCEPT !.state = "Reconnecting", !.client = "none", !.timer = TRUE,
                   !.firstPacket = TRUE, !.wasConnected = FALSE, !.hasSomeData = FALSE]
           k == Failed(j, 1)
<1>1. /\ Run("connect", c) /\ tasks' = T /\ drops' = drops + 1 /\ MovesOn(c, k, Exhausted(k))
      /\ UNCHANGED <<tokens, online, asked, overtaken, wanted, suspends, outages>>
  BY DEF RunConnectThrows, Connects
<1>2. /\ T \in Seq(Tasks) /\ Orderly(T, asked \cup overtaken)
      /\ Excused(T, asked \cup overtaken, c) /\ KeepsOthers(T, c)
  BY <1>1, Taken DEF KeepsOthers
<1>3. TypeOK /\ con[c] \in Connections /\ ConnRight(con[c]) /\ con[c].client # "up"
  <2>1. TypeOK /\ con[c] \in Connections /\ ConnRight(con[c])
    BY DEF Inv, TypeOK
  <2> QED BY <2>1 DEF RunConnectThrows, Connects, ConnRight
<1>4. j \in Connections /\ ConnRight(j) /\ j.timer
  BY <1>3 DEF Connections, States, ConnRight
<1> HIDE DEF j, T
<1>5. k \in Connections /\ ConnRight(k) /\ k.timer
  BY <1>4, FailedRight
<1> HIDE DEF k
<1>6. address' \in 0..(Addresses - 1)
  BY <1>1, <1>3, <1>5, MovesOnEffect
<1>7. PICK m \in Connections : ConnRight(m) /\ m.timer /\ con' = [Selected(con) EXCEPT ![c] = m]
  BY <1>1, <1>3, <1>5, MovesOnEffect
<1>8. Armed(T, c, m)
  BY <1>7 DEF Armed
<1>9. /\ tasks' \in Seq(Tasks) /\ Orderly(tasks', asked' \cup overtaken')
      /\ Excused(tasks', asked' \cup overtaken', c)
      /\ KeepsOthers(tasks', c) /\ Armed(tasks', c, m)
  BY <1>1, <1>2, <1>8
<1>10. /\ tokens' \in Nat /\ online' \in BOOLEAN /\ asked' \subseteq Conns /\ overtaken' \subseteq Conns
       /\ wanted' \subseteq wanted \cup {c} /\ drops' \in Nat /\ suspends' \in Nat /\ outages' \in Nat
       /\ asked \subseteq asked' /\ overtaken \subseteq overtaken'
  BY <1>1, <1>3 DEF TypeOK
<1> HIDE DEF T
<1> QED BY <1>6, <1>7, <1>9, <1>10, OneChanges

\* A suspension of a connection that is right.
LEMMA SuspendedRight ==
  ASSUME NEW k \in Connections, ConnRight(k)
  PROVE  /\ Suspended(k) \in Connections /\ ConnRight(Suspended(k))
         /\ ~Suspended(k).timer /\ Suspended(k).client \notin {"open", "up"}
         /\ k.client # "closing" => ~Stirs(Suspended(k))
<1>1. CASE k.state \in {"Idle", "Suspended"}
  <2>1. Suspended(k) = [k EXCEPT !.timer = FALSE]
    BY <1>1 DEF Suspended
  <2> QED BY <1>1, <2>1 DEF Connections, ConnRight, Stirs
<1>2. CASE k.state \notin {"Idle", "Suspended"}
  <2>1. Suspended(k) = [k EXCEPT !.timer = FALSE, !.state = "Suspended", !.client = "none",
                                 !.firstPacket = TRUE, !.channelToken = 0, !.wasConnected = FALSE]
    BY <1>2 DEF Suspended
  <2> DEFINE m == Suspended(k)
  <2>2. m \in Connections
    <3> DEFINE a == [k EXCEPT !.timer = FALSE, !.state = "Suspended", !.client = "none"]
    <3>1. a \in Connections
      BY DEF Connections, States
    <3>2. m = [a EXCEPT !.firstPacket = TRUE, !.channelToken = 0, !.wasConnected = FALSE]
      BY <2>1
    <3> HIDE DEF a, m
    <3> QED BY <3>1, <3>2 DEF Connections
  <2>3. /\ m.timer = FALSE /\ m.state = "Suspended" /\ m.client = "none" /\ m.channelToken = 0
        /\ m.header = k.header
    BY <2>1 DEF Connections
  <2> HIDE DEF m
  <2>4. ConnRight(m) /\ ~Stirs(m)
    BY <2>3 DEF ConnRight, Stirs
  <2> QED BY <2>2, <2>3, <2>4 DEF m
<1> QED BY <1>1, <1>2

\* suspendConnection closes the socket and stops the timer.
LEMMA RunSuspendKeepsInv ==
  ASSUME Inv, NEW c \in Conns, RunSuspend(c)
  PROVE  Inv'
<1> DEFINE T == Tail(tasks)
           s == Selected(con)[c]
           k == Suspended(s)
<1>1. /\ Run("suspend", c) /\ tasks' = T
      /\ wanted' = IF \E what \in {"connect", "timer"} : Contains(T, Task(what, c))
                     THEN wanted ELSE wanted \ {c}
      /\ UNCHANGED <<address, tokens, online, asked, overtaken, drops, suspends, outages>>
  BY DEF RunSuspend
<1>2. T \in Seq(Tasks) /\ Orderly(T, asked \cup overtaken) /\ KeepsOthers(T, c)
  BY <1>1, Taken DEF KeepsOthers
<1>3. /\ TypeOK /\ con \in [Conns -> Connections]
      /\ Selected(con) \in [Conns -> Connections] /\ ConnRight(s)
      /\ s.client # "closing"
  <2>1. TypeOK /\ con \in [Conns -> Connections] /\ ConnRight(con[c])
    BY DEF Inv, TypeOK
  <2>2. s.client # "closing"
    BY <2>1 DEF Selected, Connections
  <2> QED BY <2>1, <2>2, SelectedRight
<1>4. con' = [Selected(con) EXCEPT ![c] = k]
  BY <1>3 DEF RunSuspend
<1>5. s \in Connections
  BY <1>3
<1> HIDE DEF s, T
<1>6. k \in Connections /\ ConnRight(k) /\ ~Stirs(k)
  BY <1>3, <1>5, SuspendedRight
<1> HIDE DEF k
<1>7. c \in wanted' => Armed(T, c, k)
  BY <1>1 DEF Armed
<1>8. wanted' \subseteq wanted
  BY <1>1
<1> QED BY <1>1, <1>2, <1>3, <1>4, <1>6, <1>7, <1>8, OneChanges DEF TypeOK

\* connect called by the network thread for a connection that is excused.
LEMMA CallConnectEffect ==
  ASSUME Inv, NEW c \in Conns, NEW ts \in Seq(Tasks), CallConnect(c, ts), asked' = asked,
         Orderly(ts, asked \cup overtaken), Excused(ts, asked \cup overtaken, c),
         KeepsOthers(ts, c)
  PROVE  /\ tasks' \in Seq(Tasks) /\ KeepsOthers(tasks', c)
         /\ Orderly(tasks', asked' \cup overtaken')
         /\ Excused(tasks', asked' \cup overtaken', c)
         /\ overtaken \subseteq overtaken' /\ overtaken' \subseteq Conns
         /\ wanted' \subseteq wanted \cup {c}
         /\ \A k : c \in wanted' => Armed(tasks', c, k)
<1>1. overtaken \subseteq Conns
  BY DEF Inv, TypeOK
<1>2. CASE ~online
  BY <1>1, <1>2 DEF CallConnect
<1>3. CASE online
  <2> DEFINE t == Task("connect", c)
  <2>1. t \in Tasks /\ t.conn = c
    BY DEF Task, Tasks
  <2>2. tasks' = Append(ts, t) /\ wanted' = wanted \cup {c}
        /\ overtaken' = IF Contains(ts, Task("suspend", c)) THEN overtaken \cup {c} ELSE overtaken
    BY <1>3 DEF CallConnect
  <2>3. c \in asked' \cup overtaken'
    BY <2>2 DEF Excused
  <2>4. asked \cup overtaken \subseteq asked' \cup overtaken'
    BY <2>2
  <2>5. tasks' \in Seq(Tasks) /\ \A x : Contains(tasks', x) <=> (Contains(ts, x) \/ x = t)
    BY <2>1, <2>2, AppendTask
  <2>6. Orderly(tasks', asked' \cup overtaken')
    BY <2>1, <2>2, <2>3, <2>4, OrderlyAppend
  <2>7. KeepsOthers(tasks', c)
    BY <2>5 DEF KeepsOthers
  <2>8. Excused(tasks', asked' \cup overtaken', c)
    BY <2>3 DEF Excused
  <2>9. \A k : Armed(tasks', c, k)
    BY <2>5 DEF Armed
  <2> QED BY <1>1, <2>2, <2>5, <2>6, <2>7, <2>8, <2>9
<1> QED BY <1>2, <1>3

\* The timer's task asks for the connection again.
LEMMA RunTimerKeepsInv ==
  ASSUME Inv, NEW c \in Conns, RunTimer(c)
  PROVE  Inv'
<1> DEFINE T == Tail(tasks)
           s == Selected(con)[c]
           k == [s EXCEPT !.timer = FALSE]
<1>1. /\ Run("timer", c) /\ CallConnect(c, T)
      /\ UNCHANGED <<address, tokens, online, asked, drops, suspends, outages>>
  BY DEF RunTimer
<1>2. /\ T \in Seq(Tasks) /\ Orderly(T, asked \cup overtaken)
      /\ Excused(T, asked \cup overtaken, c) /\ KeepsOthers(T, c)
  BY <1>1, Taken DEF KeepsOthers
<1>3. TypeOK /\ Selected(con) \in [Conns -> Connections] /\ ConnRight(s)
  BY SelectedRight DEF Inv, TypeOK
<1>4. con' = [Selected(con) EXCEPT ![c] = k]
  BY <1>3 DEF RunTimer
<1>5. s \in Connections
  BY <1>3
<1> HIDE DEF s, T
<1>6. k \in Connections /\ ConnRight(k)
  BY <1>3, <1>5 DEF Connections, ConnRight
<1> HIDE DEF k
<1>7. /\ tasks' \in Seq(Tasks) /\ KeepsOthers(tasks', c)
      /\ Orderly(tasks', asked' \cup overtaken')
      /\ Excused(tasks', asked' \cup overtaken', c)
      /\ overtaken \subseteq overtaken' /\ overtaken' \subseteq Conns
      /\ wanted' \subseteq wanted \cup {c}
      /\ c \in wanted' => Armed(tasks', c, k)
  BY <1>1, <1>2, CallConnectEffect
<1> QED BY <1>1, <1>3, <1>4, <1>6, <1>7, OneChanges DEF TypeOK

\* Data is written: with the header if it is the socket's first.
LEMMA SentRight ==
  ASSUME NEW k \in Connections, ConnRight(k)
  PROVE  /\ Sent(k) \in Connections /\ ConnRight(Sent(k))
         /\ Sent(k).client = k.client /\ Sent(k).timer = k.timer
<1>1. CASE k.client \notin {"open", "up"}
  BY <1>1 DEF Sent
<1>2. CASE k.client \in {"open", "up"}
  <2>1. Sent(k) = [k EXCEPT !.header = "written", !.firstPacket = FALSE]
    BY <1>2 DEF Sent, ConnRight, Connections
  <2> QED BY <1>2, <2>1 DEF Connections, ConnRight
<1> QED BY <1>1, <1>2

\* sendData writes, or asks for the connection.
LEMMA RunSendKeepsInv ==
  ASSUME Inv, NEW c \in Conns, RunSend(c)
  PROVE  Inv'
<1> DEFINE T == Tail(tasks)
           s == Selected(con)[c]
           k == Sent(s)
<1>1. /\ Run("send", c)
      /\ UNCHANGED <<address, tokens, online, asked, drops, suspends, outages>>
  BY DEF RunSend
<1>2. /\ T \in Seq(Tasks) /\ Orderly(T, asked \cup overtaken)
      /\ Excused(T, asked \cup overtaken, c) /\ KeepsOthers(T, c)
  BY <1>1, Taken DEF KeepsOthers
<1>3. TypeOK /\ con \in [Conns -> Connections]
      /\ Selected(con) \in [Conns -> Connections] /\ ConnRight(s)
  BY SelectedRight DEF Inv, TypeOK
<1>4. con' = [Selected(con) EXCEPT ![c] = k]
  BY <1>3 DEF RunSend
<1>5. s \in Connections
  BY <1>3
<1>6. /\ s.timer = con[c].timer
      /\ s.client \in {"open", "up"} <=> con[c].client \in {"open", "up"}
  BY <1>3, SelectedRight
<1> HIDE DEF s
<1>7. k \in Connections /\ ConnRight(k) /\ k.client = s.client /\ k.timer = s.timer
  BY <1>3, <1>5, SentRight
<1> HIDE DEF k
<1>8. CASE CallConnect(c, T)
  <2>1. /\ tasks' \in Seq(Tasks) /\ KeepsOthers(tasks', c)
        /\ Orderly(tasks', asked' \cup overtaken')
        /\ Excused(tasks', asked' \cup overtaken', c)
        /\ overtaken \subseteq overtaken' /\ overtaken' \subseteq Conns
        /\ wanted' \subseteq wanted \cup {c}
        /\ c \in wanted' => Armed(tasks', c, k)
    BY <1>1, <1>2, <1>8, CallConnectEffect
  <2> QED BY <1>1, <1>3, <1>4, <1>7, <2>1, OneChanges DEF TypeOK
<1>9. CASE tasks' = T /\ UNCHANGED <<overtaken, wanted>>
  <2>1. c \in wanted => Armed(T, c, k)
    <3> SUFFICES ASSUME c \in wanted PROVE Armed(T, c, k)
      OBVIOUS
    <3>1. Alive(c) \/ con[c].timer \/ \E what \in {"connect", "timer"} : Waits(what, c)
      BY DEF Inv, RetryArmed
    <3>2. \A w \in {"connect", "timer"} : Waits(w, c) => Contains(T, Task(w, c))
      BY <1>1, Taken
    <3> HIDE DEF T
    <3> QED BY <1>6, <1>7, <3>1, <3>2 DEF Armed, Alive
  <2> HIDE DEF T
  <2>2. /\ tasks' \in Seq(Tasks) /\ KeepsOthers(tasks', c)
        /\ Orderly(tasks', asked' \cup overtaken')
        /\ Excused(tasks', asked' \cup overtaken', c)
        /\ c \in wanted' => Armed(tasks', c, k)
    BY <1>1, <1>2, <1>9, <2>1
  <2> QED BY <1>1, <1>3, <1>4, <1>7, <1>9, <2>2, OneChanges DEF TypeOK
<1> QED BY <1>8, <1>9 DEF RunSend

\* A socket comes up or brings data.
LEMMA SocketUpKeepsInv ==
  ASSUME Inv, NEW c \in Conns, Connected(c) \/ ReceivedData(c)
  PROVE  Inv'
<1> DEFINE o == con[c]
<1>1. /\ UNCHANGED <<address, tasks, online>> /\ UNCHANGED history
      /\ tokens' \in Nat /\ TypeOK /\ o \in Connections /\ ConnRight(o)
      /\ Alive(c)
      /\ con \in [Conns -> Connections]
  BY DEF Connected, ReceivedData, Inv, TypeOK, Alive
<1>2. /\ Orderly(tasks, asked \cup overtaken) /\ Excused(tasks, asked \cup overtaken, c)
      /\ KeepsOthers(tasks, c)
  BY <1>1 DEF Inv, StirsExcused, Stirs, Alive, KeepsOthers, Waits
<1>3. \E k \in Connections : ConnRight(k) /\ k.client = "up" /\ con' = [con EXCEPT ![c] = k]
  <2>1. CASE Connected(c)
    <3> DEFINE k == [o EXCEPT !.client = "up", !.state = "Connected",
                              !.channelToken = tokens + 1, !.wasConnected = TRUE]
    <3>1. con' = [con EXCEPT ![c] = k]
      BY <1>1, <2>1 DEF Connected
    <3>2. o.client = "open" /\ tokens \in Nat
      BY <1>1, <2>1 DEF Connected, TypeOK
    <3> HIDE DEF o
    <3>3. k.client = "up" /\ k.state = "Connected" /\ k.channelToken = tokens + 1
          /\ k.header = o.header /\ k.firstPacket = o.firstPacket /\ k.timer = o.timer
      BY <1>1 DEF Connections
    <3> DEFINE t == tokens + 1
    <3>5. t \in Nat
      BY <3>2
    <3> HIDE DEF t
    <3>6. k \in Connections
      BY <1>1, <3>5 DEF Connections, States, t
    <3> HIDE DEF k
    <3>4. ConnRight(k)
      BY <1>1, <3>2, <3>3 DEF ConnRight
    <3> QED BY <3>1, <3>3, <3>4, <3>6
  <2>2. CASE ReceivedData(c)
    <3> DEFINE k == [o EXCEPT !.failed = 0, !.hasSomeData = TRUE]
    <3>1. con' = [con EXCEPT ![c] = k] /\ o.client = "up"
      BY <1>1, <2>2 DEF ReceivedData, Heard
    <3> HIDE DEF o
    <3>3. k \in Connections /\ ConnRight(k) /\ k.client = "up"
      BY <1>1, <3>1 DEF Connections, ConnRight
    <3> QED BY <3>1, <3>3
  <2> QED BY <2>1, <2>2
<1>4. PICK k \in Connections : ConnRight(k) /\ k.client = "up" /\ con' = [con EXCEPT ![c] = k]
  BY <1>3
<1>5. Armed(tasks, c, k)
  BY <1>4 DEF Armed
<1>6. /\ tasks' \in Seq(Tasks) /\ KeepsOthers(tasks', c)
      /\ Orderly(tasks', asked' \cup overtaken')
      /\ Excused(tasks', asked' \cup overtaken', c) /\ Armed(tasks', c, k)
  BY <1>1, <1>2, <1>5 DEF TypeOK, Tasks, history
<1> QED BY <1>1, <1>4, <1>6, OneChanges DEF TypeOK, history

\* A socket goes down.
LEMMA DisconnectedKeepsInv ==
  ASSUME Inv, NEW c \in Conns, NEW timedOut \in BOOLEAN, Disconnected(c, timedOut),
         con[c].client \in {"open", "up", "closing"},
         tasks' = tasks, tokens' = tokens, online' = online, asked' = asked,
         overtaken' = overtaken, suspends' = suspends, outages' = outages, drops' \in Nat
  PROVE  Inv'
<1> DEFINE o == con[c]
           k == [o EXCEPT !.timer = FALSE, !.firstPacket = TRUE, !.channelToken = 0,
                          !.wasConnected = FALSE,
                          !.client = IF @ = "closing" THEN "closed" ELSE "closing",
                          !.state = IF @ = "Suspended" THEN @ ELSE "Idle"]
           j == [k EXCEPT !.timer = TRUE]
           again == Failed(j, IF k.hasSomeData THEN 5 ELSE 1)
<1>1. TypeOK /\ o \in Connections /\ ConnRight(o) /\ con \in [Conns -> Connections]
  BY DEF Inv, TypeOK
<1>2. /\ Orderly(tasks, asked \cup overtaken) /\ Excused(tasks, asked \cup overtaken, c)
      /\ KeepsOthers(tasks, c)
  BY DEF Inv, StirsExcused, Stirs, KeepsOthers, Waits
<1>3. \/ /\ con' = [con EXCEPT ![c] = k] /\ wanted' = wanted \ {c} /\ UNCHANGED address
      \/ (\E moves \in BOOLEAN : MovesOn(c, again, moves)) /\ UNCHANGED wanted
  BY DEF Disconnected, Exhausted
<1>4. k \in Connections /\ k.client \notin {"open", "up"} /\ k.channelToken = 0 /\ ~k.timer
      /\ k.state \notin {"Connected", "Connecting"} /\ k.header = o.header
  BY <1>1 DEF Connections, States
<1> HIDE DEF k
<1>5. ConnRight(k)
  BY <1>1, <1>4 DEF ConnRight
<1>6. j \in Connections /\ ConnRight(j) /\ j.timer
  BY <1>4, <1>5 DEF Connections, ConnRight
<1> HIDE DEF j
<1>7. again \in Connections /\ ConnRight(again) /\ again.timer
  <2>1. (IF k.hasSomeData THEN 5 ELSE 1) \in {1, 5}
    OBVIOUS
  <2> QED BY <1>6, <2>1, FailedRight
<1> HIDE DEF again
<1>8. /\ tasks' \in Seq(Tasks) /\ KeepsOthers(tasks', c)
      /\ Orderly(tasks', asked' \cup overtaken')
      /\ Excused(tasks', asked' \cup overtaken', c)
  BY <1>1, <1>2 DEF TypeOK, Tasks
<1>9. CASE con' = [con EXCEPT ![c] = k] /\ wanted' = wanted \ {c} /\ UNCHANGED address
  BY <1>1, <1>4, <1>5, <1>8, <1>9, OneChanges DEF TypeOK
<1>10. CASE (\E moves \in BOOLEAN : MovesOn(c, again, moves)) /\ UNCHANGED wanted
  <2>1. PICK moves \in BOOLEAN : MovesOn(c, again, moves)
    BY <1>10
  <2>2. address' \in 0..(Addresses - 1)
    BY <1>1, <1>7, <2>1, MovesOnEffect
  <2>3. PICK m \in Connections :
           ConnRight(m) /\ m.timer /\ con' = [Selected(con) EXCEPT ![c] = m]
    BY <1>1, <1>7, <2>1, MovesOnEffect
  <2>4. Armed(tasks', c, m)
    BY <2>3 DEF Armed
  <2> QED BY <1>1, <1>8, <1>10, <2>2, <2>3, <2>4, OneChanges DEF TypeOK
<1> QED BY <1>3, <1>9, <1>10

\* A socket that is refused, dropped or timed out: what tries again is armed.
LEMMA DownKeepsInv ==
  ASSUME Inv, NEW c \in Conns, Refused(c) \/ Dropped(c) \/ TimesOutToo(c)
  PROVE  Inv'
<1>1. PICK timedOut \in BOOLEAN : Disconnected(c, timedOut)
  BY DEF Refused, Dropped, TimesOutToo
<1>2. con[c].client \in {"open", "up", "closing"}
  BY DEF Refused, Dropped, TimesOutToo, Alive
<1>3. /\ tasks' = tasks /\ tokens' = tokens /\ online' = online /\ asked' = asked
      /\ overtaken' = overtaken /\ suspends' = suspends /\ outages' = outages /\ drops' \in Nat
  <2>1. drops \in Nat
    BY DEF Inv, TypeOK
  <2>2. CASE Refused(c)
    BY <2>1, <2>2 DEF Refused
  <2>3. CASE Dropped(c)
    BY <2>1, <2>3 DEF Dropped
  <2>4. CASE TimesOutToo(c)
    BY <2>1, <2>4 DEF TimesOutToo
  <2> QED BY <2>2, <2>3, <2>4
<1> QED BY <1>1, <1>2, <1>3, DisconnectedKeepsInv

\* Bytes that are refused: the socket is given up and another one opened.
LEMMA ReceivedBadDataKeepsInv ==
  ASSUME Inv, NEW c \in Conns, ReceivedBadData(c)
  PROVE  Inv'
<1> DEFINE o == con[c]
           h == Heard(o)
           s == Suspended(h)
           k == [s EXCEPT !.state = "Reconnecting"]
<1>1. /\ o.client = "up" /\ CallConnect(c, tasks) /\ con' = [con EXCEPT ![c] = k]
      /\ UNCHANGED <<address, tokens, online, asked, suspends, outages>>
      /\ TypeOK /\ o \in Connections /\ ConnRight(o) /\ drops' \in Nat
      /\ con \in [Conns -> Connections]
  BY DEF ReceivedBadData, Inv, TypeOK
<1>2. /\ Orderly(tasks, asked \cup overtaken) /\ Excused(tasks, asked \cup overtaken, c)
      /\ KeepsOthers(tasks, c) /\ tasks \in Seq(Tasks)
  BY <1>1 DEF Inv, StirsExcused, Stirs, KeepsOthers, Waits, TypeOK, Tasks
<1> HIDE DEF o
<1>3. h \in Connections /\ ConnRight(h) /\ h.client = "up"
  BY <1>1 DEF Heard, Connections, ConnRight
<1> HIDE DEF h
<1>4. s \in Connections /\ ConnRight(s) /\ ~s.timer /\ s.client \notin {"open", "up"}
  BY <1>3, SuspendedRight
<1> HIDE DEF s
<1>5. k \in Connections /\ ConnRight(k)
  BY <1>4 DEF Connections, States, ConnRight
<1> HIDE DEF k
<1>6. /\ tasks' \in Seq(Tasks) /\ KeepsOthers(tasks', c)
      /\ Orderly(tasks', asked' \cup overtaken')
      /\ Excused(tasks', asked' \cup overtaken', c)
      /\ overtaken \subseteq overtaken' /\ overtaken' \subseteq Conns
      /\ wanted' \subseteq wanted \cup {c}
      /\ c \in wanted' => Armed(tasks', c, k)
  BY <1>1, <1>2, CallConnectEffect
<1> QED BY <1>1, <1>5, <1>6, OneChanges DEF TypeOK

\* Each step of the connections, their sockets and the network keeps the
\* invariant.
LEMMA NextInv == Inv /\ [Next]_vars => Inv'
<1> SUFFICES ASSUME Inv, [Next]_vars PROVE Inv'
  OBVIOUS
<1>1. CASE NetworkChanges
  BY <1>1, NetworkKeepsInv
<1>2. ASSUME NEW c \in Conns, AskConnect(c) \/ AskSend(c) \/ AskSuspend(c) \/ Fire(c)
      PROVE  Inv'
  BY <1>2, AsksKeepInv
<1>3. ASSUME NEW c \in Conns, RunHead(c)
      PROVE  Inv'
  BY <1>3, RunConnectKeepsInv, RunConnectThrowsKeepsInv, RunSuspendKeepsInv, RunTimerKeepsInv,
     RunSendKeepsInv DEF RunHead
<1>4. ASSUME NEW c \in Conns, Connected(c) \/ ReceivedData(c)
      PROVE  Inv'
  BY <1>4, SocketUpKeepsInv
<1>5. ASSUME NEW c \in Conns, Refused(c) \/ Dropped(c) \/ TimesOutToo(c)
      PROVE  Inv'
  BY <1>5, DownKeepsInv
<1>6. ASSUME NEW c \in Conns, ReceivedBadData(c)
      PROVE  Inv'
  BY <1>6, ReceivedBadDataKeepsInv
<1>7. CASE UNCHANGED vars
  BY <1>7 DEF vars, Inv, TypeOK, RetryArmed, Alive, Waits, StirsExcused, Stirs, Excused,
     Orderly, Task, ConnRight
<1> QED BY <1>1, <1>2, <1>3, <1>4, <1>5, <1>6, <1>7 DEF Next

-----------------------------------------------------------------------------
(* What follows. *)

\* The invariant gives the six parts of ConnectionSafe.
LEMMA InvIsSafe == Inv => ConnectionSafe
<1> SUFFICES ASSUME Inv PROVE ConnectionSafe
  OBVIOUS
<1>1. TypeOK /\ RetryArmed
  BY DEF Inv
<1>2. \A c \in Conns : ConnRight(con[c])
  BY DEF Inv
<1>3. TokenIsLive
  BY <1>2 DEF TokenIsLive, ConnRight
<1>4. HeaderOnce
  BY <1>2 DEF HeaderOnce, ConnRight
<1>5. TimerMeansDown
  BY <1>2 DEF TimerMeansDown, ConnRight, Alive
<1>6. SuspendHolds
  BY DEF SuspendHolds, Inv, StirsExcused, Stirs, Excused, Alive, Waits
<1> QED BY <1>1, <1>3, <1>4, <1>5, <1>6 DEF ConnectionSafe

\* Whatever the connections, their addresses, the failures and the order in which
\* tasks, timers and sockets meet: a channel has its token exactly while its socket
\* is up, no socket begins with a wrong header, a wanted connection always has its
\* next attempt before it, no timer runs beside a socket, and a suspended
\* connection opens none before somebody asks or overtakes the suspension.
THEOREM ConnectionIsSafe == Spec => []ConnectionSafe
  BY InitInv, NextInv, InvIsSafe, PTL DEF Spec

-----------------------------------------------------------------------------
(* The channels of the engine. *)

Tokens == [c \in Conns |-> con[c].channelToken]

\* A step that sets c to k, and leaves or takes its token, leaves or closes a channel.
LEMMA LeftOrClosed ==
  ASSUME Inv, NEW c \in Conns, NEW k,
         con' = [Selected(con) EXCEPT ![c] = k] \/ con' = [con EXCEPT ![c] = k],
         k.channelToken = con[c].channelToken \/ k.channelToken = 0,
         tokens' = tokens
  PROVE  UNCHANGED <<Tokens, tokens>> \/ AsChannels!Next
<1>1. con \in [Conns -> Connections]
  BY DEF Inv, TypeOK
<1>2. \A d \in Conns : Selected(con)[d].channelToken = con[d].channelToken
  BY <1>1 DEF Selected, Connections
<1>3. con'[c] = k /\ \A d \in Conns \ {c} : con'[d].channelToken = con[d].channelToken
  <2>1. Selected(con) \in [Conns -> Connections]
    BY <1>1, SelectedRight
  <2> QED BY <1>1, <1>2, <2>1
<1>4. CASE k.channelToken = con[c].channelToken
  <2>1. Tokens' = Tokens
    BY <1>3, <1>4 DEF Tokens
  <2> QED BY <2>1
<1>5. CASE k.channelToken = 0 /\ con[c].channelToken # 0
  <2>1. Tokens' = [Tokens EXCEPT ![c] = 0]
    BY <1>3, <1>5 DEF Tokens
  <2>2. Tokens[c] # 0
    BY <1>5 DEF Tokens
  <2>3. AsChannels!Close(c)
    BY <2>1, <2>2 DEF AsChannels!Close, Tokens
  <2> QED BY <2>3 DEF AsChannels!Next
<1> QED BY <1>4, <1>5

\* A socket that goes down takes the token with it.
LEMMA DisconnectedTakesToken ==
  ASSUME NEW c \in Conns, NEW timedOut \in BOOLEAN, Disconnected(c, timedOut),
         con[c] \in Connections
  PROVE  \E k \in Connections :
            /\ k.channelToken = 0
            /\ \/ con' = [con EXCEPT ![c] = k]
               \/ \E r, moves : MovesOn(c, Failed(k, r), moves)
<1> DEFINE o == con[c]
           k == [o EXCEPT !.timer = FALSE, !.firstPacket = TRUE, !.channelToken = 0,
                          !.wasConnected = FALSE,
                          !.client = IF @ = "closing" THEN "closed" ELSE "closing",
                          !.state = IF @ = "Suspended" THEN @ ELSE "Idle"]
           j == [k EXCEPT !.timer = TRUE]
           again == Failed(j, IF k.hasSomeData THEN 5 ELSE 1)
<1>1. \/ con' = [con EXCEPT ![c] = k]
      \/ \E moves \in BOOLEAN : MovesOn(c, again, moves)
  BY DEF Disconnected, Exhausted
<1>2. k \in Connections /\ k.channelToken = 0
  BY DEF Connections, States
<1> HIDE DEF k
<1>3. j \in Connections /\ j.channelToken = 0
  BY <1>2 DEF Connections
<1> HIDE DEF j
<1>4. CASE con' = [con EXCEPT ![c] = k]
  BY <1>2, <1>4
<1>5. CASE \E moves \in BOOLEAN : MovesOn(c, again, moves)
  BY <1>3, <1>5
<1> QED BY <1>1, <1>4, <1>5

\* Only a socket that comes up gives a connection a new token.
LEMMA OtherStepsOpenNone ==
  ASSUME Inv, Next, ~(\E c \in Conns : Connected(c))
  PROVE  UNCHANGED <<Tokens, tokens>> \/ AsChannels!Next
<1>1. /\ con \in [Conns -> Connections] /\ Selected(con) \in [Conns -> Connections]
      /\ \A c \in Conns : ConnRight(con[c]) /\ con[c].channelToken \in Nat
      /\ \A c \in Conns : Selected(con)[c].channelToken = con[c].channelToken
  <2>1. con \in [Conns -> Connections] /\ \A c \in Conns : ConnRight(con[c])
    BY DEF Inv, TypeOK
  <2> QED BY <2>1, SelectedRight DEF Selected, Connections
<1>2. ASSUME UNCHANGED <<con, tokens>>
      PROVE  UNCHANGED <<Tokens, tokens>>
  BY <1>2 DEF Tokens
<1>3. CASE NetworkChanges
  BY <1>2, <1>3 DEF NetworkChanges
<1>4. ASSUME NEW c \in Conns, AskConnect(c) \/ AskSend(c) \/ AskSuspend(c) \/ Fire(c)
      PROVE  UNCHANGED <<Tokens, tokens>>
  BY <1>2, <1>4 DEF AskConnect, AskSend, AskSuspend, Fire
<1>5. ASSUME NEW c \in Conns, RunConnectKnown(c)
      PROVE  UNCHANGED <<Tokens, tokens>>
  BY <1>1, <1>5 DEF RunConnectKnown, Tokens
<1>6. ASSUME NEW c \in Conns,
             RunConnect(c) \/ RunConnectThrows(c) \/ RunSuspend(c) \/ RunTimer(c) \/ RunSend(c)
             \/ Refused(c) \/ Dropped(c) \/ TimesOutToo(c)
             \/ ReceivedData(c) \/ ReceivedBadData(c)
      PROVE  UNCHANGED <<Tokens, tokens>> \/ AsChannels!Next
  <2> SUFFICES \E k :
         /\ con' = [Selected(con) EXCEPT ![c] = k] \/ con' = [con EXCEPT ![c] = k]
         /\ k.channelToken = con[c].channelToken \/ k.channelToken = 0
         /\ tokens' = tokens
    BY LeftOrClosed
  <2> DEFINE s == Selected(con)[c]
             o == con[c]
  <2>1. s \in Connections /\ o \in Connections /\ s.channelToken = o.channelToken
    BY <1>1
  <2>2. CASE RunConnect(c)
    <3> DEFINE k == [s EXCEPT !.state = "Connecting", !.client = "open", !.at = address,
                              !.timer = FALSE, !.firstPacket = TRUE, !.header = "none",
                              !.wasConnected = FALSE, !.hasSomeData = FALSE]
    <3>1. con' = [Selected(con) EXCEPT ![c] = k] /\ tokens' = tokens
      BY <1>1, <2>2 DEF RunConnect
    <3> HIDE DEF s
    <3>2. k.channelToken = s.channelToken
      BY <2>1 DEF Connections
    <3> QED BY <2>1, <3>1, <3>2
  <2>3. ASSUME NEW k \in Connections, NEW r, NEW moves, MovesOn(c, Failed(k, r), moves),
               k.channelToken = o.channelToken \/ k.channelToken = 0, tokens' = tokens
        PROVE  \E m :
                 /\ con' = [Selected(con) EXCEPT ![c] = m] \/ con' = [con EXCEPT ![c] = m]
                 /\ m.channelToken = con[c].channelToken \/ m.channelToken = 0
                 /\ tokens' = tokens
    <3> DEFINE w == IF k.failed = 0 THEN r ELSE k.willRetry
               f == k.failed + 1
               j == [k EXCEPT !.failed = f, !.willRetry = w]
               m == IF moves THEN [j EXCEPT !.failed = 0] ELSE j
    <3>1. Failed(k, r) = j
      BY DEF Failed, Connections
    <3>2. con' = [Selected(con) EXCEPT ![c] = m]
      BY <2>3, <3>1 DEF MovesOn
    <3> HIDE DEF w, f
    <3>3. m.channelToken = k.channelToken
      BY DEF Connections
    <3> QED BY <2>3, <3>2, <3>3
  <2>4. CASE RunConnectThrows(c)
    <3> DEFINE k == [o EXCEPT !.state = "Reconnecting", !.client = "none", !.timer = TRUE,
                        !.firstPacket = TRUE, !.wasConnected = FALSE, !.hasSomeData = FALSE]
    <3>1. MovesOn(c, Failed(k, 1), Exhausted(Failed(k, 1))) /\ tokens' = tokens
      BY <2>4 DEF RunConnectThrows
    <3>2. k \in Connections /\ k.channelToken = o.channelToken
      BY <2>1 DEF Connections, States
    <3> QED BY <2>3, <3>1, <3>2
  <2>5. ASSUME NEW k \in Connections
        PROVE  Suspended(k).channelToken = k.channelToken \/ Suspended(k).channelToken = 0
    BY DEF Suspended, Connections
  <2>6. CASE RunSuspend(c)
    <3>1. con' = [Selected(con) EXCEPT ![c] = Suspended(s)] /\ tokens' = tokens
      BY <1>1, <2>6 DEF RunSuspend
    <3> QED BY <2>1, <2>5, <3>1
  <2>7. CASE RunTimer(c)
    <3> DEFINE k == [s EXCEPT !.timer = FALSE]
    <3>1. con' = [Selected(con) EXCEPT ![c] = k] /\ tokens' = tokens
      BY <1>1, <2>7 DEF RunTimer
    <3>2. k.channelToken = s.channelToken
      BY <2>1 DEF Connections
    <3> QED BY <2>1, <3>1, <3>2
  <2>8. CASE RunSend(c)
    <3>1. con' = [Selected(con) EXCEPT ![c] = Sent(s)] /\ tokens' = tokens
      BY <1>1, <2>8 DEF RunSend
    <3>2. Sent(s).channelToken = s.channelToken
      BY <2>1 DEF Sent, Connections
    <3> QED BY <2>1, <3>1, <3>2
  <2>9. CASE Refused(c) \/ Dropped(c) \/ TimesOutToo(c)
    <3>1. PICK timedOut \in BOOLEAN : Disconnected(c, timedOut)
      BY <2>9 DEF Refused, Dropped, TimesOutToo
    <3>2. tokens' = tokens
      <4>1. CASE Refused(c)
        BY <4>1 DEF Refused
      <4>2. CASE Dropped(c)
        BY <4>2 DEF Dropped
      <4>3. CASE TimesOutToo(c)
        BY <4>3 DEF TimesOutToo
      <4> QED BY <2>9, <4>1, <4>2, <4>3
    <3>3. PICK k \in Connections :
             /\ k.channelToken = 0
             /\ \/ con' = [con EXCEPT ![c] = k]
                \/ \E r, moves : MovesOn(c, Failed(k, r), moves)
      BY <2>1, <3>1, DisconnectedTakesToken
    <3> QED BY <2>3, <3>2, <3>3
  <2>10. CASE ReceivedData(c)
    <3> DEFINE k == [o EXCEPT !.failed = 0, !.hasSomeData = TRUE]
    <3>1. con' = [con EXCEPT ![c] = k] /\ tokens' = tokens
      BY <1>1, <2>10 DEF ReceivedData, Heard
    <3>2. k.channelToken = o.channelToken
      BY <2>1 DEF Connections
    <3> QED BY <3>1, <3>2
  <2>11. CASE ReceivedBadData(c)
    <3> DEFINE h == Heard(o)
               z == Suspended(h)
               k == [z EXCEPT !.state = "Reconnecting"]
    <3>1. con' = [con EXCEPT ![c] = k] /\ tokens' = tokens
      BY <1>1, <2>11 DEF ReceivedBadData
    <3>2. h \in Connections /\ h.channelToken = o.channelToken /\ ConnRight(h)
      <4>1. h \in Connections
        BY <2>1 DEF Heard, Connections
      <4>2. h.channelToken = o.channelToken
        BY <2>1 DEF Heard, Connections
      <4>3. ConnRight(h)
        BY <1>1, <2>1 DEF Heard, Connections, ConnRight
      <4> QED BY <4>1, <4>2, <4>3
    <3> HIDE DEF h
    <3>3. z \in Connections
      BY <3>2, SuspendedRight
    <3>4. z.channelToken = h.channelToken \/ z.channelToken = 0
      BY <2>5, <3>2
    <3> HIDE DEF z
    <3>5. k.channelToken = z.channelToken
      BY <3>3 DEF Connections
    <3> QED BY <3>1, <3>2, <3>4, <3>5
  <2> QED BY <1>6, <2>2, <2>4, <2>6, <2>7, <2>8, <2>9, <2>10, <2>11
<1> QED BY <1>3, <1>4, <1>5, <1>6 DEF Next, RunHead

\* A socket that comes up opens a channel, with the next token.
LEMMA ConnectedOpens ==
  ASSUME Inv, NEW c \in Conns, Connected(c)
  PROVE  AsChannels!Next
<1>1. con \in [Conns -> Connections] /\ con[c].channelToken = 0
  <2>1. con \in [Conns -> Connections] /\ ConnRight(con[c])
    BY DEF Inv, TypeOK
  <2> QED BY <2>1 DEF Connected, ConnRight
<1> DEFINE o == con[c]
           k == [o EXCEPT !.client = "up", !.state = "Connected",
                          !.channelToken = tokens + 1, !.wasConnected = TRUE]
<1>2. con' = [con EXCEPT ![c] = k] /\ tokens' = tokens + 1
  BY <1>1 DEF Connected
<1>3. k.channelToken = tokens + 1
  BY <1>1 DEF Connections
<1> HIDE DEF k
<1>4. con'[c] = k /\ \A d \in Conns \ {c} : con'[d] = con[d]
  BY <1>1, <1>2
<1>5. Tokens' = [Tokens EXCEPT ![c] = tokens + 1]
  BY <1>3, <1>4 DEF Tokens
<1>6. Tokens[c] = 0
  BY <1>1 DEF Tokens
<1>7. AsChannels!Open(c)
  BY <1>2, <1>5, <1>6 DEF AsChannels!Open, Tokens
<1> QED BY <1>7 DEF AsChannels!Next

\* To the engine the connections are channels: whatever tasks, timers and sockets
\* do, every channel has a token of its own, the next one, and is closed before the
\* connection has another.
THEOREM ChannelsRefined == Spec => KeepsChannels
<1>1. Init => AsChannels!Init
  BY DEF Init, AsChannels!Init
<1>2. Inv /\ [Next]_vars => [AsChannels!Next]_<<Tokens, tokens>>
  <2> SUFFICES ASSUME Inv, [Next]_vars
               PROVE  UNCHANGED <<Tokens, tokens>> \/ AsChannels!Next
    OBVIOUS
  <2>1. CASE UNCHANGED vars
    BY <2>1 DEF vars, Tokens
  <2>2. CASE Next
    BY <2>2, ConnectedOpens, OtherStepsOpenNone
  <2> QED BY <2>1, <2>2
<1>3. Tokens = [c \in Conns |-> con[c].channelToken]
  BY DEF Tokens
<1> QED BY <1>1, <1>2, InitInv, NextInv, PTL DEF Spec, KeepsChannels, AsChannels!Spec, Tokens

-----------------------------------------------------------------------------
(* The sessions of SessionMessages, beside the connections.                *)

MessageIds == 1..MaxMessages
ServiceIds == (MaxMessages + 1)..(MaxMessages + MaxId + 2)
ServerIds  == 1..(MaxMessages + MaxId + 2)

InnerType  == [kind : {"message", "badMsg"}, id : ServerIds, m : 0..MaxMessages]
PacketType ==
  [session : 1..MaxSessions, kind : {"message", "container", "info"}, id : ServerIds,
   m : 0..MaxMessages, inner : {<<>>} \cup (InnerType \X InnerType)]
LetterType == [session : 1..MaxSessions, acks : SUBSET MessageIds, asks : SUBSET Answers]

ContextType ==
  [session : 1..MaxSessions, processed : Seq(ServerIds), toConfirm : SUBSET MessageIds,
   wanted : SUBSET Answers, resent : SUBSET Answers, calls : [MessageIds -> Nat],
   forgot : SUBSET ServerIds, excused : SUBSET MessageIds, mixed : SUBSET MessageIds,
   asks : SUBSET Answers]

\* A message that may be confirmed, by what the client did with it.
Done(c, m) == c.calls[m] > 0 \/ m \in Unreadable \/ m \in c.excused

\* A message is processed a second time only with an excuse.
CalledOnce(c) == \A m \in MessageIds : c.calls[m] > 1 => m \in c.forgot \cup c.mixed

\* What was processed is remembered while its session lasts.
Remembers(c) ==
  \A m \in MessageIds : c.calls[m] > 0 =>
    /\ sentIn[m] # 0
    /\ m \in ToSet(c.processed) \cup c.forgot \cup c.mixed \/ sentIn[m] < c.session

\* What is remembered, and what is to be confirmed, was done.
RemembersDone(c) == \A m \in MessageIds : m \in ToSet(c.processed) => Done(c, m)
ConfirmsDone(c)  == \A m \in c.toConfirm : Done(c, m)
ConfirmsItsOwn(c) == \A m \in c.toConfirm : sentIn[m] = c.session \/ m \in c.mixed

ContextRight(c) ==
  /\ c \in ContextType /\ Len(c.processed) <= Kept + 1
  /\ CalledOnce(c) /\ Remembers(c) /\ RemembersDone(c) /\ ConfirmsDone(c) /\ ConfirmsItsOwn(c)

\* A message on its way, in a packet of the session it was sent in.
Carries(p, s) == p.m \in MessageIds /\ p.id = p.m /\ sentIn[p.m] = s

\* A message of a container, which may begin with a refusal.
FirstRight(p, s) ==
  \/ p.kind = "message" /\ Carries(p, s)
  \/ p.kind = "badMsg" /\ p.id \in ServiceIds /\ s < MaxSessions
SecondRight(p, s) == p.kind = "message" /\ Carries(p, s)

PacketRight(p) ==
  /\ p.session <= theirs
  /\ p.kind = "message" => Carries(p, p.session)
  /\ p.kind # "message" => p.id \in ServiceIds
  /\ p.kind = "info" => p.m \in Answers /\ sentIn[p.m] = p.session
  /\ p.kind = "container" =>
       /\ p.inner \in InnerType \X InnerType
       /\ FirstRight(p.inner[1], p.session) /\ SecondRight(p.inner[2], p.session)

LetterRight(l) == l.session <= session /\ \A m \in l.acks : Done(Session!Context, m)

ServerRight ==
  /\ theirs \in 1..session /\ lastId \in 0..(MaxId + 1)
  /\ sentIn \in [MessageIds -> 0..MaxSessions] /\ \A m \in MessageIds : sentIn[m] <= theirs
  /\ confirmed \subseteq MessageIds /\ \A m \in confirmed : Done(Session!Context, m)

SessionInv ==
  /\ ContextRight(Session!Context)
  /\ ServerRight
  /\ packets \in Seq(PacketType) /\ \A i \in 1..Len(packets) : PacketRight(packets[i])
  /\ letters \in Seq(LetterType) /\ \A i \in 1..Len(letters) : LetterRight(letters[i])

\* One context comes from another: nothing it knew is lost.
Grows(c, d) ==
  /\ c.session <= d.session
  /\ \A m \in MessageIds : c.calls[m] <= d.calls[m]
  /\ c.excused \subseteq d.excused

\* No message is of a session that has not begun.
SentBy(c) == sentIn \in [MessageIds -> 0..MaxSessions] /\ \A m \in MessageIds : sentIn[m] <= c.session

\* What the constants are.
LEMMA SessionConstants ==
  /\ MaxMessages \in Nat \ {0} /\ Answers \subseteq MessageIds /\ Unreadable \subseteq MessageIds
  /\ Kept \in Nat /\ Forgotten \in 1..(Kept + 1)
  /\ MaxPackets \in Nat /\ MaxId \in Nat /\ MaxSessions \in Nat \ {0}
  /\ MessageIds \subseteq ServerIds /\ ServiceIds \subseteq ServerIds
  /\ MessageIds \cap ServiceIds = {} /\ Session!Messages = MessageIds
<1>1. /\ MaxMessages \in Nat \ {0} /\ Answers \subseteq MessageIds /\ Unreadable \subseteq MessageIds
      /\ Kept \in Nat /\ Forgotten \in 1..(Kept + 1)
      /\ MaxPackets \in Nat /\ MaxId \in Nat /\ MaxSessions \in Nat \ {0}
      /\ Session!Messages = MessageIds
  BY SessionAssumption DEF Session!MessagesAssumption, Session!WindowAssumption,
     Session!BoundAssumption, Session!Messages, MessageIds
<1>2. /\ MessageIds \subseteq ServerIds /\ ServiceIds \subseteq ServerIds
      /\ MessageIds \cap ServiceIds = {}
  BY <1>1 DEF MessageIds, ServiceIds, ServerIds
<1> QED BY <1>1, <1>2

\* A list that is full loses its oldest elements, and no others, before the new
\* one is appended.
LEMMA WindowMoves ==
  ASSUME NEW q \in Seq(ServerIds), Len(q) = Kept + 1, NEW id \in ServerIds
  PROVE  LET r == Append(SubSeq(q, Forgotten + 1, Len(q)), id)
             f == ToSet(SubSeq(q, 1, Forgotten))
         IN  /\ r \in Seq(ServerIds) /\ Len(r) <= Kept + 1
             /\ f \subseteq ServerIds /\ ToSet(q) \subseteq ToSet(r) \cup f
             /\ id \in ToSet(r) /\ ToSet(r) \subseteq ToSet(q) \cup {id}
<1> DEFINE n == Len(q)
           A == SubSeq(q, Forgotten + 1, n)
           B == SubSeq(q, 1, Forgotten)
           r == Append(A, id)
           k == n - Forgotten
<1>0. /\ Kept \in Nat /\ Forgotten \in 1..(Kept + 1) /\ n \in Nat /\ n = Kept + 1
      /\ k \in 0..Kept /\ DOMAIN q = 1..n /\ \A i \in 1..n : q[i] \in ServerIds
  BY SessionConstants
<1>1. /\ A \in Seq(ServerIds) /\ Len(A) = k /\ \A i \in 1..k : A[i] = q[i + Forgotten]
  <2>1. \A i \in (Forgotten + 1)..n : q[i] \in ServerIds
    BY <1>0
  <2>2. A = [i \in 1..k |-> q[i + Forgotten]]
    BY <1>0
  <2>3. \A i \in 1..k : i + Forgotten \in (Forgotten + 1)..n
    BY <1>0
  <2> HIDE DEF A, k
  <2>4. A \in [1..k -> ServerIds]
    BY <2>1, <2>2, <2>3
  <2> QED BY <1>0, <2>2, <2>4
<1>2. /\ B \in Seq(ServerIds) /\ Len(B) = Forgotten /\ \A i \in 1..Forgotten : B[i] = q[i]
  <2>1. B = [i \in 1..Forgotten |-> q[i]]
    BY <1>0
  <2>2. \A i \in 1..Forgotten : i \in 1..n
    BY <1>0
  <2> HIDE DEF B
  <2>3. B \in [1..Forgotten -> ServerIds]
    BY <1>0, <2>1, <2>2
  <2> QED BY <1>0, <2>1, <2>3
<1> HIDE DEF A, B
<1>3. /\ r \in Seq(ServerIds) /\ Len(r) = k + 1 /\ r[k + 1] = id
      /\ \A i \in 1..k : r[i] = A[i]
  BY <1>0, <1>1
<1> HIDE DEF r
<1>4. ToSet(r) = { r[i] : i \in 1..(k + 1) } /\ ToSet(B) = { B[i] : i \in 1..Forgotten }
      /\ ToSet(q) = { q[i] : i \in 1..n }
  BY <1>0, <1>2, <1>3 DEF ToSet
<1>5. id \in ToSet(r)
  <2>1. k + 1 \in 1..(k + 1)
    BY <1>0
  <2> QED BY <1>3, <1>4, <2>1
<1>6. ASSUME NEW i \in 1..n
      PROVE  q[i] \in ToSet(r) \cup ToSet(B)
  <2>1. CASE i <= Forgotten
    BY <1>0, <1>2, <1>4, <2>1
  <2>2. CASE i > Forgotten
    <3>1. i - Forgotten \in 1..k /\ i - Forgotten \in 1..(k + 1) /\ (i - Forgotten) + Forgotten = i
      BY <1>0, <2>2
    <3>2. r[i - Forgotten] = q[i]
      BY <1>1, <1>3, <3>1
    <3> QED BY <1>4, <3>1, <3>2
  <2> QED BY <1>0, <2>1, <2>2
<1>7. ASSUME NEW i \in 1..(k + 1)
      PROVE  r[i] \in ToSet(q) \cup {id}
  <2>1. CASE i = k + 1
    BY <1>3, <2>1
  <2>2. CASE i # k + 1
    <3>1. i \in 1..k /\ i + Forgotten \in 1..n
      BY <1>0, <2>2
    <3> QED BY <1>1, <1>3, <1>4, <3>1
  <2> QED BY <2>1, <2>2
<1>8. ToSet(B) \subseteq ServerIds /\ Len(r) <= Kept + 1
  BY <1>0, <1>2, <1>3, <1>4
<1> QED BY <1>3, <1>4, <1>5, <1>6, <1>7, <1>8 DEF r, A, B

\* An id that is noted is remembered, and so is every other unless it is
\* forgotten; nothing else changes.
LEMMA AddedProcessed ==
  ASSUME NEW c \in ContextType, Len(c.processed) <= Kept + 1, NEW id \in ServerIds
  PROVE  LET d == Session!AddProcessedMessageId(c, id)
         IN  /\ d \in ContextType /\ Len(d.processed) <= Kept + 1
             /\ ToSet(c.processed) \subseteq ToSet(d.processed) \cup d.forgot
             /\ id \in ToSet(d.processed) /\ ToSet(d.processed) \subseteq ToSet(c.processed) \cup {id}
             /\ c.forgot \subseteq d.forgot
             /\ d.session = c.session /\ d.toConfirm = c.toConfirm /\ d.wanted = c.wanted
             /\ d.resent = c.resent /\ d.calls = c.calls /\ d.excused = c.excused
             /\ d.mixed = c.mixed /\ d.asks = c.asks
<1> DEFINE d == Session!AddProcessedMessageId(c, id)
           q == c.processed
<1>0. /\ q \in Seq(ServerIds) /\ Len(q) \in Nat /\ Kept \in Nat
  BY SessionConstants DEF ContextType
<1>1. CASE Len(q) > Kept
  <2> DEFINE r == Append(SubSeq(q, Forgotten + 1, Len(q)), id)
             f == ToSet(SubSeq(q, 1, Forgotten))
  <2>1. Len(q) = Kept + 1
    BY <1>0, <1>1
  <2>2. /\ r \in Seq(ServerIds) /\ Len(r) <= Kept + 1
        /\ f \subseteq ServerIds /\ ToSet(q) \subseteq ToSet(r) \cup f
        /\ id \in ToSet(r) /\ ToSet(r) \subseteq ToSet(q) \cup {id}
    BY <1>0, <2>1, WindowMoves
  <2>3. d = [c EXCEPT !.processed = r, !.forgot = c.forgot \cup f]
    BY <1>1 DEF Session!AddProcessedMessageId, Session!ToSet, ToSet
  <2> HIDE DEF d, r, f
  <2>4. /\ d.processed = r /\ d.forgot = c.forgot \cup f
        /\ d.session = c.session /\ d.toConfirm = c.toConfirm /\ d.wanted = c.wanted
        /\ d.resent = c.resent /\ d.calls = c.calls /\ d.excused = c.excused
        /\ d.mixed = c.mixed /\ d.asks = c.asks
    BY <2>3 DEF ContextType
  <2>5. d \in ContextType
    BY <2>2, <2>3 DEF ContextType
  <2> QED BY <2>2, <2>4, <2>5 DEF d
<1>2. CASE ~(Len(q) > Kept)
  <2> DEFINE r == Append(q, id)
  <2>1. /\ r \in Seq(ServerIds) /\ Len(r) <= Kept + 1 /\ Len(r) = Len(q) + 1
        /\ r[Len(q) + 1] = id /\ \A i \in 1..Len(q) : r[i] = q[i]
    BY <1>0, <1>2
  <2>2. d = [c EXCEPT !.processed = r]
    BY <1>2 DEF Session!AddProcessedMessageId, Session!ToSet, ToSet
  <2> HIDE DEF d, r
  <2>3. ToSet(q) = { q[i] : i \in 1..Len(q) } /\ ToSet(r) = { r[i] : i \in 1..(Len(q) + 1) }
    <3>1. DOMAIN q = 1..Len(q) /\ DOMAIN r = 1..(Len(q) + 1)
      BY <1>0, <2>1
    <3> HIDE DEF q
    <3> QED BY <3>1 DEF ToSet
  <2>4. ToSet(q) \subseteq ToSet(r) /\ id \in ToSet(r) /\ ToSet(r) \subseteq ToSet(q) \cup {id}
    <3>1. Len(q) + 1 \in 1..(Len(q) + 1) /\ \A i \in 1..Len(q) : i \in 1..(Len(q) + 1)
      BY <1>0
    <3>2. \A i \in 1..(Len(q) + 1) : i = Len(q) + 1 \/ i \in 1..Len(q)
      BY <1>0
    <3>3. \A i \in 1..(Len(q) + 1) : r[i] = id \/ (i \in 1..Len(q) /\ r[i] = q[i])
      BY <2>1, <3>2
    <3>4. id \in ToSet(r)
      BY <2>1, <2>3, <3>1
    <3>5. \A i \in 1..Len(q) : q[i] = r[i] /\ i \in 1..(Len(q) + 1)
      BY <2>1, <3>1
    <3>6. ToSet(q) \subseteq ToSet(r)
      BY <2>3, <3>5
    <3>7. ToSet(r) \subseteq ToSet(q) \cup {id}
      BY <2>3, <3>3
    <3> QED BY <3>4, <3>6, <3>7
  <2>5. /\ d.processed = r /\ d.forgot = c.forgot
        /\ d.session = c.session /\ d.toConfirm = c.toConfirm /\ d.wanted = c.wanted
        /\ d.resent = c.resent /\ d.calls = c.calls /\ d.excused = c.excused
        /\ d.mixed = c.mixed /\ d.asks = c.asks
    BY <2>2 DEF ContextType
  <2>6. d \in ContextType
    BY <2>1, <2>2 DEF ContextType
  <2> QED BY <2>1, <2>4, <2>5, <2>6 DEF d
<1> QED BY <1>1, <1>2

\* What a context knew it still knows.
LEMMA GrownIsDone ==
  ASSUME NEW c \in ContextType, NEW d \in ContextType, Grows(c, d), NEW m \in MessageIds, Done(c, m)
  PROVE  Done(d, m)
BY DEF Grows, Done, ContextType

\* And so it is of the one after the next.
LEMMA GrowsOn ==
  ASSUME NEW c \in ContextType, NEW d \in ContextType, NEW e \in ContextType, Grows(c, d), Grows(d, e)
  PROVE  Grows(c, e)
<1>1. \A m \in MessageIds : c.calls[m] <= e.calls[m]
  BY DEF Grows, ContextType
<1>2. c.session <= e.session
  BY SessionConstants DEF Grows, ContextType
<1> QED BY <1>1, <1>2 DEF Grows

\* A message of the session, or of one that is over, is confirmed, and processed
\* if it can be read.
NotedIn(c, m) ==
  Session!AddMessageToConfirm(
    [c EXCEPT !.mixed = IF sentIn[m] # c.session THEN @ \cup {m} ELSE @], m)
TakenIn(c, m) ==
  IF m \in Unreadable THEN NotedIn(c, m) ELSE Session!ProcessReadable(NotedIn(c, m), m)

\* What that does to a context.
LEMMA TakenFields ==
  ASSUME NEW c \in ContextType, NEW m \in MessageIds
  PROVE  LET d == TakenIn(c, m)
         IN  /\ d \in ContextType
             /\ d.session = c.session /\ d.processed = c.processed /\ d.forgot = c.forgot
             /\ d.excused = c.excused /\ d.asks = c.asks
             /\ d.toConfirm = c.toConfirm \cup {m}
             /\ d.mixed = IF sentIn[m] # c.session THEN c.mixed \cup {m} ELSE c.mixed
             /\ d.calls = IF m \in Unreadable THEN c.calls
                          ELSE [c.calls EXCEPT ![m] = c.calls[m] + 1]
<1> DEFINE x == IF sentIn[m] # c.session THEN c.mixed \cup {m} ELSE c.mixed
           k == [c.calls EXCEPT ![m] = c.calls[m] + 1]
           d == TakenIn(c, m)
<1>1. x \in SUBSET MessageIds /\ c.toConfirm \cup {m} \in SUBSET MessageIds
      /\ c.wanted \ {m} \in SUBSET Answers /\ k \in [MessageIds -> Nat]
  BY DEF ContextType
<1>2. d = IF m \in Unreadable
          THEN [c EXCEPT !.mixed = x, !.toConfirm = c.toConfirm \cup {m}]
          ELSE [c EXCEPT !.mixed = x, !.toConfirm = c.toConfirm \cup {m}, !.calls = k,
                         !.wanted = c.wanted \ {m}]
  BY DEF TakenIn, NotedIn, Session!AddMessageToConfirm, Session!ProcessReadable, ContextType
<1> HIDE DEF x, k, d
<1>3. CASE m \in Unreadable
  BY <1>1, <1>2, <1>3 DEF ContextType, d, x
<1>4. CASE m \notin Unreadable
  <2>1. d = [c EXCEPT !.mixed = x, !.toConfirm = c.toConfirm \cup {m}, !.calls = k,
                      !.wanted = c.wanted \ {m}]
    BY <1>2, <1>4
  <2>2. d \in ContextType
    BY <1>1, <2>1 DEF ContextType
  <2> QED BY <1>1, <1>4, <2>1, <2>2 DEF ContextType, d, x, k
<1> QED BY <1>3, <1>4

\* It is right when its id has been noted, and the message done.
LEMMA TakenRight ==
  ASSUME NEW c, ContextRight(c), SentBy(c), NEW m \in MessageIds, sentIn[m] # 0,
         m \notin ToSet(c.processed)
  PROVE  LET d == Session!AddProcessedMessageId(TakenIn(c, m), m)
         IN  ContextRight(d) /\ Grows(c, d) /\ d.session = c.session /\ d.asks = c.asks
<1> DEFINE t == TakenIn(c, m)
           d == Session!AddProcessedMessageId(t, m)
<1>0. c \in ContextType /\ Len(c.processed) <= Kept + 1 /\ m \in ServerIds
  BY SessionConstants DEF ContextRight
<1>1. /\ t \in ContextType
      /\ t.session = c.session /\ t.processed = c.processed /\ t.forgot = c.forgot
      /\ t.excused = c.excused /\ t.asks = c.asks
      /\ t.toConfirm = c.toConfirm \cup {m}
      /\ t.mixed = IF sentIn[m] # c.session THEN c.mixed \cup {m} ELSE c.mixed
      /\ t.calls = IF m \in Unreadable THEN c.calls ELSE [c.calls EXCEPT ![m] = c.calls[m] + 1]
  BY <1>0, TakenFields
<1> HIDE DEF t
<1>2. /\ d \in ContextType /\ Len(d.processed) <= Kept + 1
      /\ ToSet(t.processed) \subseteq ToSet(d.processed) \cup d.forgot
      /\ m \in ToSet(d.processed) /\ ToSet(d.processed) \subseteq ToSet(t.processed) \cup {m}
      /\ t.forgot \subseteq d.forgot
      /\ d.session = t.session /\ d.toConfirm = t.toConfirm
      /\ d.calls = t.calls /\ d.excused = t.excused
      /\ d.mixed = t.mixed /\ d.asks = t.asks
  BY <1>0, <1>1, AddedProcessed
<1> HIDE DEF d
<1>3. /\ d.session = c.session /\ d.excused = c.excused /\ d.asks = c.asks
      /\ ToSet(c.processed) \subseteq ToSet(d.processed) \cup d.forgot
      /\ m \in ToSet(d.processed) /\ ToSet(d.processed) \subseteq ToSet(c.processed) \cup {m}
      /\ c.forgot \subseteq d.forgot /\ d.toConfirm = c.toConfirm \cup {m}
      /\ c.mixed \subseteq d.mixed /\ (sentIn[m] # c.session => m \in d.mixed)
  BY <1>1, <1>2
<1>4. \A k \in MessageIds :
        /\ c.calls[k] \in Nat /\ d.calls[k] \in Nat
        /\ k # m => d.calls[k] = c.calls[k]
        /\ d.calls[k] = IF k = m /\ m \notin Unreadable THEN c.calls[k] + 1 ELSE c.calls[k]
  BY <1>0, <1>1, <1>2 DEF ContextType
<1>5. Grows(c, d)
  <2>1. c.session <= d.session
    BY <1>0, <1>3, SessionConstants DEF ContextType
  <2> QED BY <1>3, <1>4, <2>1 DEF Grows
<1>6. \A k \in MessageIds : Done(c, k) => Done(d, k)
  BY <1>0, <1>2, <1>5, GrownIsDone
<1>7. Done(d, m)
  BY <1>4 DEF Done
<1>8. CalledOnce(d)
  <2> SUFFICES ASSUME NEW k \in MessageIds, d.calls[k] > 1
               PROVE  k \in d.forgot \cup d.mixed
    BY DEF CalledOnce
  <2>1. CASE d.calls[k] = c.calls[k]
    BY <1>3, <2>1 DEF ContextRight, CalledOnce
  <2>2. CASE k = m /\ d.calls[k] # c.calls[k]
    <3>1. c.calls[m] > 0
      BY <1>4, <2>2
    <3>2. m \in ToSet(c.processed) \cup c.forgot \cup c.mixed \/ sentIn[m] < c.session
      BY <3>1 DEF ContextRight, Remembers
    <3>3. sentIn[m] < c.session => sentIn[m] # c.session
      BY <1>0, SessionConstants DEF SentBy, ContextType
    <3> QED BY <1>3, <2>2, <3>2, <3>3
  <2> QED BY <1>4, <2>1, <2>2
<1>9. Remembers(d)
  <2> SUFFICES ASSUME NEW k \in MessageIds, d.calls[k] > 0
               PROVE  /\ sentIn[k] # 0
                      /\ k \in ToSet(d.processed) \cup d.forgot \cup d.mixed \/ sentIn[k] < d.session
    BY DEF Remembers
  <2>1. CASE k = m
    BY <1>3, <2>1
  <2>2. CASE k # m
    <3>1. c.calls[k] > 0
      BY <1>4, <2>2
    <3>2. /\ sentIn[k] # 0
          /\ k \in ToSet(c.processed) \cup c.forgot \cup c.mixed \/ sentIn[k] < c.session
      BY <3>1 DEF ContextRight, Remembers
    <3> QED BY <1>3, <3>2
  <2> QED BY <2>1, <2>2
<1>10. RemembersDone(d)
  BY <1>3, <1>6, <1>7 DEF ContextRight, RemembersDone
<1>11. ConfirmsDone(d)
  <2>1. c.toConfirm \subseteq MessageIds
    BY <1>0 DEF ContextType
  <2> QED BY <1>3, <1>6, <1>7, <2>1 DEF ContextRight, ConfirmsDone
<1>12. ConfirmsItsOwn(d)
  BY <1>3 DEF ContextRight, ConfirmsItsOwn
<1>13. ContextRight(d)
  BY <1>2, <1>8, <1>9, <1>10, <1>11, <1>12 DEF ContextRight
<1> QED BY <1>3, <1>5, <1>13 DEF d, t

\* One that was done, or cannot be read, may be confirmed.
LEMMA NotedRight ==
  ASSUME NEW c, ContextRight(c), NEW m \in MessageIds, Done(c, m)
  PROVE  LET d == NotedIn(c, m)
         IN  /\ ContextRight(d) /\ Grows(c, d) /\ d.session = c.session /\ d.asks = c.asks
             /\ d.processed = c.processed
<1> DEFINE x == IF sentIn[m] # c.session THEN c.mixed \cup {m} ELSE c.mixed
           d == NotedIn(c, m)
<1>0. c \in ContextType /\ Len(c.processed) <= Kept + 1
  BY DEF ContextRight
<1>1. /\ d \in ContextType
      /\ d.session = c.session /\ d.processed = c.processed /\ d.forgot = c.forgot
      /\ d.excused = c.excused /\ d.asks = c.asks
      /\ d.toConfirm = c.toConfirm \cup {m} /\ d.calls = c.calls /\ d.mixed = x
  <2>1. x \in SUBSET MessageIds /\ c.toConfirm \cup {m} \in SUBSET MessageIds
    BY <1>0 DEF ContextType
  <2>2. d = [c EXCEPT !.mixed = x, !.toConfirm = c.toConfirm \cup {m}]
    BY <1>0 DEF NotedIn, Session!AddMessageToConfirm, ContextType
  <2> HIDE DEF d, x
  <2> QED BY <1>0, <2>1, <2>2 DEF ContextType
<1> HIDE DEF d
<1>2. Grows(c, d)
  <2>1. c.session <= d.session /\ \A k \in MessageIds : c.calls[k] <= d.calls[k]
    BY <1>0, <1>1, SessionConstants DEF ContextType
  <2> QED BY <1>1, <2>1 DEF Grows
<1>3. \A k \in MessageIds : Done(c, k) <=> Done(d, k)
  BY <1>1 DEF Done
<1>4. Done(d, m)
  BY <1>3
<1>5. CalledOnce(d) /\ Remembers(d) /\ RemembersDone(d)
  BY <1>1, <1>3 DEF ContextRight, CalledOnce, Remembers, RemembersDone
<1>6. ConfirmsDone(d) /\ ConfirmsItsOwn(d)
  <2>1. c.toConfirm \subseteq MessageIds
    BY <1>0 DEF ContextType
  <2> QED BY <1>1, <1>3, <1>4, <2>1 DEF ContextRight, ConfirmsDone, ConfirmsItsOwn
<1> QED BY <1>0, <1>1, <1>2, <1>5, <1>6 DEF ContextRight, d

\* Another session begins with nothing to remember or to confirm.
LEMMA RecreatedRight ==
  ASSUME NEW c, ContextRight(c), SentBy(c), c.session < MaxSessions
  PROVE  LET d == Session!ProcessBadMsg(c)
         IN  ContextRight(d) /\ Grows(c, d) /\ d.session = c.session + 1 /\ d.asks = c.asks
<1> DEFINE d == Session!ProcessBadMsg(c)
<1>0. c \in ContextType /\ c.session \in Nat /\ Kept \in Nat /\ MaxSessions \in Nat
  BY SessionConstants DEF ContextRight, ContextType
<1>1. d = [c EXCEPT !.session = c.session + 1, !.processed = <<>>, !.toConfirm = {}, !.wanted = {}]
  BY <1>0 DEF Session!ProcessBadMsg, Session!RecreateSession, ContextType
<1> HIDE DEF d
<1>2. /\ d \in ContextType
      /\ d.session = c.session + 1 /\ d.processed = <<>> /\ d.toConfirm = {} /\ d.asks = c.asks
      /\ d.calls = c.calls /\ d.forgot = c.forgot /\ d.excused = c.excused /\ d.mixed = c.mixed
  <2>1. c.session + 1 \in 1..MaxSessions /\ <<>> \in Seq(ServerIds)
    BY <1>0
  <2> QED BY <1>0, <1>1, <2>1 DEF ContextType
<1>3. Grows(c, d)
  <2>1. \A m \in MessageIds : c.calls[m] <= d.calls[m]
    BY <1>0, <1>2 DEF ContextType
  <2> QED BY <1>0, <1>2, <2>1 DEF Grows
<1>4. \A m : m \notin ToSet(d.processed)
  BY <1>2 DEF ToSet
<1>5. Len(d.processed) <= Kept + 1
  BY <1>0, <1>2
<1>6. CalledOnce(d)
  BY <1>2 DEF ContextRight, CalledOnce
<1>7. Remembers(d)
  <2> SUFFICES ASSUME NEW m \in MessageIds, d.calls[m] > 0
               PROVE  sentIn[m] # 0 /\ sentIn[m] < d.session
    BY DEF Remembers
  <2>1. sentIn[m] # 0
    BY <1>2 DEF ContextRight, Remembers
  <2>2. sentIn[m] <= c.session /\ sentIn[m] \in Nat
    BY <1>0 DEF SentBy
  <2> QED BY <1>0, <1>2, <2>1, <2>2
<1>8. RemembersDone(d) /\ ConfirmsDone(d) /\ ConfirmsItsOwn(d)
  BY <1>2, <1>4 DEF RemembersDone, ConfirmsDone, ConfirmsItsOwn
<1> QED BY <1>2, <1>3, <1>5, <1>6, <1>7, <1>8 DEF ContextRight, d

\* The id of a packet that is no message is noted.
LEMMA ServiceNoted ==
  ASSUME NEW c, ContextRight(c), NEW id \in ServiceIds
  PROVE  LET d == Session!AddProcessedMessageId(c, id)
         IN  ContextRight(d) /\ Grows(c, d) /\ d.session = c.session /\ d.asks = c.asks
<1> DEFINE d == Session!AddProcessedMessageId(c, id)
<1>0. c \in ContextType /\ Len(c.processed) <= Kept + 1 /\ id \in ServerIds /\ id \notin MessageIds
  BY SessionConstants DEF ContextRight
<1>1. /\ d \in ContextType /\ Len(d.processed) <= Kept + 1
      /\ ToSet(c.processed) \subseteq ToSet(d.processed) \cup d.forgot
      /\ ToSet(d.processed) \subseteq ToSet(c.processed) \cup {id}
      /\ c.forgot \subseteq d.forgot
      /\ d.session = c.session /\ d.toConfirm = c.toConfirm
      /\ d.calls = c.calls /\ d.excused = c.excused
      /\ d.mixed = c.mixed /\ d.asks = c.asks
  BY <1>0, AddedProcessed
<1> HIDE DEF d
<1>2. Grows(c, d)
  <2>1. c.session <= d.session /\ \A k \in MessageIds : c.calls[k] <= d.calls[k]
    BY <1>0, <1>1, SessionConstants DEF ContextType
  <2> QED BY <1>1, <2>1 DEF Grows
<1>3. \A k \in MessageIds : Done(c, k) <=> Done(d, k)
  BY <1>1 DEF Done
<1>4. CalledOnce(d) /\ Remembers(d)
  <2>1. CalledOnce(d)
    BY <1>1 DEF ContextRight, CalledOnce
  <2>2. Remembers(d)
    <3> SUFFICES ASSUME NEW k \in MessageIds, d.calls[k] > 0
                 PROVE  /\ sentIn[k] # 0
                        /\ k \in ToSet(d.processed) \cup d.forgot \cup d.mixed \/ sentIn[k] < d.session
      BY DEF Remembers
    <3>1. /\ sentIn[k] # 0
          /\ k \in ToSet(c.processed) \cup c.forgot \cup c.mixed \/ sentIn[k] < c.session
      BY <1>1 DEF ContextRight, Remembers
    <3> QED BY <1>1, <3>1
  <2> QED BY <2>1, <2>2
<1>5. RemembersDone(d)
  BY <1>0, <1>1, <1>3 DEF ContextRight, RemembersDone
<1>6. ConfirmsDone(d) /\ ConfirmsItsOwn(d)
  <2>1. c.toConfirm \subseteq MessageIds
    BY <1>0 DEF ContextType
  <2> QED BY <1>1, <1>3, <2>1 DEF ContextRight, ConfirmsDone, ConfirmsItsOwn
<1> QED BY <1>1, <1>2, <1>4, <1>5, <1>6 DEF ContextRight, d

\* What a context is to the one that comes of it.
Follows(c, d) == ContextRight(d) /\ SentBy(d) /\ Grows(c, d) /\ d.asks = c.asks

\* What was sent by a session was sent by a later one.
LEMMA SentByLater ==
  ASSUME NEW c \in ContextType, NEW d \in ContextType, SentBy(c), c.session <= d.session
  PROVE  SentBy(d)
<1>1. c.session \in Nat /\ d.session \in Nat /\ MaxSessions \in Nat
  BY SessionConstants DEF ContextType
<1> QED BY <1>1 DEF SentBy

\* One message of a container, sent in session s.
LEMMA InnerMessageRight ==
  ASSUME NEW c, ContextRight(c), SentBy(c), NEW p \in InnerType, NEW s \in 1..MaxSessions,
         SecondRight(p, s)
  PROVE  Follows(c, Session!ProcessInner(c, p))
<1> DEFINE m == p.m
           n == NotedIn(c, m)
           d == Session!ProcessInner(c, p)
<1>0. c \in ContextType /\ m \in MessageIds /\ p.id = m /\ sentIn[m] # 0 /\ p.kind = "message"
  BY SessionConstants DEF ContextRight, SecondRight, Carries
<1>1. CASE m \in ToSet(c.processed)
  <2>1. Done(c, m)
    BY <1>0, <1>1 DEF ContextRight, RemembersDone
  <2>2. /\ ContextRight(n) /\ Grows(c, n) /\ n.session = c.session /\ n.asks = c.asks
        /\ n.processed = c.processed
    BY <1>0, <2>1, NotedRight
  <2>3. d = n
    <3>1. Session!IsMessageIdProcessed(n, p.id)
      BY <1>0, <1>1, <2>2 DEF Session!IsMessageIdProcessed, Session!ToSet, ToSet
    <3> QED BY <1>0, <3>1 DEF Session!ProcessInner, NotedIn
  <2> HIDE DEF n, d
  <2>4. SentBy(n)
    BY <2>2 DEF SentBy
  <2> QED BY <2>2, <2>3, <2>4 DEF Follows, d
<1>2. CASE m \notin ToSet(c.processed)
  <2> DEFINE e == Session!AddProcessedMessageId(TakenIn(c, m), m)
  <2>1. ContextRight(e) /\ Grows(c, e) /\ e.session = c.session /\ e.asks = c.asks
    BY <1>0, <1>2, TakenRight
  <2>2. n.processed = c.processed
    <3> DEFINE x == IF sentIn[m] # c.session THEN c.mixed \cup {m} ELSE c.mixed
    <3>1. n = [c EXCEPT !.mixed = x, !.toConfirm = c.toConfirm \cup {m}]
      BY <1>0 DEF NotedIn, Session!AddMessageToConfirm, ContextType
    <3> HIDE DEF n, x
    <3> QED BY <1>0, <3>1 DEF ContextType
  <2>3. d = e
    <3>1. ~Session!IsMessageIdProcessed(n, p.id)
      BY <1>0, <1>2, <2>2 DEF Session!IsMessageIdProcessed, Session!ToSet, ToSet
    <3>2. d = Session!AddProcessedMessageId(Session!Process(n, p), p.id)
      BY <1>0, <3>1 DEF Session!ProcessInner, NotedIn
    <3>3. Session!Process(n, p) = TakenIn(c, m)
      BY <1>0 DEF Session!Process, TakenIn
    <3> QED BY <1>0, <3>2, <3>3
  <2> HIDE DEF e, d
  <2>4. SentBy(e)
    BY <2>1 DEF SentBy
  <2> QED BY <2>1, <2>3, <2>4 DEF Follows, d
<1> QED BY <1>1, <1>2

\* The first of a container, which may be a refusal of the session.
LEMMA InnerFirstRight ==
  ASSUME NEW c, ContextRight(c), SentBy(c), NEW p \in InnerType, FirstRight(p, c.session)
  PROVE  Follows(c, Session!ProcessInner(c, p))
<1>0. c \in ContextType
  BY DEF ContextRight
<1>1. CASE p.kind = "message"
  <2>1. SecondRight(p, c.session) /\ c.session \in 1..MaxSessions
    BY <1>0, <1>1 DEF FirstRight, SecondRight, ContextType
  <2> QED BY <2>1, InnerMessageRight
<1>2. CASE p.kind # "message"
  <2>1. p.kind = "badMsg" /\ p.id \in ServiceIds /\ c.session < MaxSessions
    BY <1>2 DEF FirstRight
  <2>2. CASE Session!IsMessageIdProcessed(c, p.id)
    <3>1. Session!ProcessInner(c, p) = c
      BY <1>2, <2>2 DEF Session!ProcessInner
    <3>2. Grows(c, c)
      BY <1>0, SessionConstants DEF Grows, ContextType
    <3> QED BY <3>1, <3>2 DEF Follows
  <2>3. CASE ~Session!IsMessageIdProcessed(c, p.id)
    <3> DEFINE b == Session!ProcessBadMsg(c)
               d == Session!AddProcessedMessageId(b, p.id)
    <3>1. Session!ProcessInner(c, p) = d
      BY <1>2, <2>1, <2>3 DEF Session!ProcessInner, Session!Process
    <3>2. ContextRight(b) /\ Grows(c, b) /\ b.session = c.session + 1 /\ b.asks = c.asks
      BY <2>1, RecreatedRight
    <3> HIDE DEF b
    <3>3. ContextRight(d) /\ Grows(b, d) /\ d.session = b.session /\ d.asks = b.asks
      BY <2>1, <3>2, ServiceNoted
    <3> HIDE DEF d
    <3>4. b \in ContextType /\ d \in ContextType
      BY <3>2, <3>3 DEF ContextRight
    <3>5. Grows(c, d)
      BY <1>0, <3>2, <3>3, <3>4, GrowsOn
    <3>6. SentBy(d)
      BY <1>0, <3>4, <3>5, SentByLater DEF Grows
    <3> QED BY <3>1, <3>2, <3>3, <3>5, <3>6 DEF Follows
  <2> QED BY <2>2, <2>3
<1> QED BY <1>1, <1>2

\* A container of the session.
LEMMA ContainerRight ==
  ASSUME NEW c, ContextRight(c), SentBy(c), NEW inner \in InnerType \X InnerType,
         FirstRight(inner[1], c.session), SecondRight(inner[2], c.session)
  PROVE  Follows(c, Session!ProcessContainer(c, inner))
<1> DEFINE d == Session!ProcessInner(c, inner[1])
           e == Session!ProcessInner(d, inner[2])
<1>0. c \in ContextType /\ c.session \in 1..MaxSessions
  BY DEF ContextRight, ContextType
<1>1. Follows(c, d)
  BY InnerFirstRight
<1>2. Session!ProcessContainer(c, inner) = e
  BY DEF Session!ProcessContainer
<1> HIDE DEF d
<1>3. Follows(d, e)
  BY <1>0, <1>1, InnerMessageRight DEF Follows
<1> HIDE DEF e
<1>4. d \in ContextType /\ e \in ContextType
  BY <1>1, <1>3 DEF Follows, ContextRight
<1>5. Grows(c, e)
  BY <1>0, <1>1, <1>3, <1>4, GrowsOn DEF Follows
<1> QED BY <1>1, <1>2, <1>3, <1>5 DEF Follows

\* What a client does is right if the context it leaves is, and the letters it
\* sends confirm what was done.
LEMMA ClientKeeps ==
  ASSUME SessionInv, NEW c, ContextRight(c), Grows(Session!Context, c), Session!Become(c),
         UNCHANGED <<theirs, sentIn, confirmed, lastId>>,
         NEW ls \in Seq(LetterType),
         \A i \in 1..Len(ls) : ls[i].session <= c.session /\ \A m \in ls[i].acks : Done(c, m),
         letters' = letters \o ls,
         packets' = packets \/ (packets # <<>> /\ packets' = Tail(packets))
  PROVE  SessionInv'
<1> DEFINE d == Session!Context
<1>0. /\ d \in ContextType /\ c \in ContextType /\ d.session = session
      /\ c.session \in Nat /\ d.session \in Nat /\ d.session <= c.session
  <2>1. d \in ContextType /\ c \in ContextType
    BY DEF SessionInv, ContextRight
  <2>2. d.session = session
    BY DEF Session!Context
  <2> HIDE DEF d
  <2> QED BY <2>1, <2>2, SessionConstants DEF Grows, ContextType, d
<1> DEFINE e == [session |-> c.session, processed |-> c.processed, toConfirm |-> c.toConfirm,
                 wanted |-> c.wanted, resent |-> c.resent, calls |-> c.calls, forgot |-> c.forgot,
                 excused |-> c.excused, mixed |-> c.mixed, asks |-> {}]
<1>1. Session!Context' = e /\ session' = c.session
  BY DEF Session!Context, Session!Become
<1>2. ContextRight(Session!Context)' /\ \A m \in MessageIds : Done(c, m) => Done(Session!Context, m)'
  <2>1. /\ e \in ContextType /\ e.session = c.session /\ e.processed = c.processed
        /\ e.toConfirm = c.toConfirm /\ e.calls = c.calls /\ e.forgot = c.forgot
        /\ e.excused = c.excused /\ e.mixed = c.mixed
    BY <1>0 DEF ContextType
  <2> HIDE DEF e
  <2>2. ContextRight(e) /\ \A m \in MessageIds : Done(c, m) => Done(e, m)
    BY <2>1 DEF ContextRight, CalledOnce, Remembers, RemembersDone, ConfirmsDone, ConfirmsItsOwn, Done
  <2> QED BY <1>1, <2>1, <2>2 DEF ContextRight, CalledOnce, Remembers, RemembersDone, ConfirmsDone,
             ConfirmsItsOwn, Done, e
<1>3. \A m \in MessageIds : Done(d, m) => Done(Session!Context, m)'
  BY <1>0, <1>2, GrownIsDone
<1> HIDE DEF d
<1>4. ServerRight'
  <2>1. session \in Nat /\ session' \in Nat /\ session <= session'
    BY <1>0, <1>1
  <2> QED BY <1>3, <2>1 DEF SessionInv, ServerRight, d
<1>5. packets' \in Seq(PacketType) /\ \A i \in 1..Len(packets') : PacketRight(packets[i])'
  <2>1. \A p : PacketRight(p) => PacketRight(p)'
    BY DEF PacketRight, FirstRight, SecondRight, Carries
  <2>2. packets \in Seq(PacketType) /\ \A i \in 1..Len(packets) : PacketRight(packets[i])
    BY DEF SessionInv
  <2> HIDE DEF PacketRight
  <2>3. CASE packets' = packets
    BY <2>1, <2>2, <2>3
  <2>4. CASE packets # <<>> /\ packets' = Tail(packets)
    <3>1. /\ packets' \in Seq(PacketType) /\ Len(packets') = Len(packets) - 1 /\ Len(packets) \in Nat
          /\ \A i \in 1..Len(packets') : packets'[i] = packets[i + 1]
      BY <2>2, <2>4
    <3>2. \A i \in 1..Len(packets') : i + 1 \in 1..Len(packets)
      BY <3>1
    <3> QED BY <2>1, <2>2, <3>1, <3>2
  <2> QED BY <2>3, <2>4
<1>6. letters' \in Seq(LetterType) /\ \A i \in 1..Len(letters') : LetterRight(letters[i])'
  <2>1. letters \in Seq(LetterType) /\ \A i \in 1..Len(letters) : LetterRight(letters[i])
    BY DEF SessionInv
  <2>2. /\ letters' \in Seq(LetterType) /\ Len(letters') = Len(letters) + Len(ls)
        /\ Len(letters) \in Nat /\ Len(ls) \in Nat
        /\ \A i \in 1..Len(letters) : letters'[i] = letters[i]
        /\ \A i \in 1..Len(ls) : letters'[i + Len(letters)] = ls[i]
    BY <2>1
  <2>3. ASSUME NEW i \in 1..Len(letters')
        PROVE  LetterRight(letters[i])'
    <3>1. CASE i <= Len(letters)
      <4>1. i \in 1..Len(letters) /\ letters'[i] = letters[i]
        BY <2>2, <3>1
      <4>2. letters[i] \in LetterType /\ LetterRight(letters[i])
        BY <2>1, <4>1
      <4>3. letters[i].session \in Nat /\ letters[i].session <= session'
        BY <1>0, <1>1, <4>2, SessionConstants DEF LetterRight, LetterType
      <4>4. \A m \in letters[i].acks : Done(Session!Context, m)'
        BY <1>3, <4>2 DEF LetterRight, LetterType, d
      <4> QED BY <4>1, <4>3, <4>4 DEF LetterRight
    <3>2. CASE i > Len(letters)
      <4>1. i - Len(letters) \in 1..Len(ls) /\ (i - Len(letters)) + Len(letters) = i
        BY <2>2, <3>2
      <4>2. letters'[i] = ls[i - Len(letters)] /\ ls[i - Len(letters)] \in LetterType
        BY <2>2, <4>1
      <4>3. \A m \in ls[i - Len(letters)].acks : m \in MessageIds /\ Done(c, m)
        BY <4>1, <4>2 DEF LetterType
      <4>4. letters'[i].session <= session'
        BY <1>1, <4>1, <4>2
      <4>5. \A m \in letters'[i].acks : Done(Session!Context, m)'
        BY <1>2, <4>2, <4>3
      <4> QED BY <4>4, <4>5 DEF LetterRight
    <3> QED BY <2>2, <3>1, <3>2
  <2> QED BY <2>2, <2>3
<1> QED BY <1>2, <1>4, <1>5, <1>6 DEF SessionInv

\* What the invariant says of the context that is.
LEMMA ContextNow ==
  ASSUME SessionInv
  PROVE  /\ ContextRight(Session!Context) /\ Session!Context \in ContextType
         /\ SentBy(Session!Context) /\ Grows(Session!Context, Session!Context)
         /\ Session!Context.session = session /\ Session!Context.asks = {}
         /\ Session!Context.processed = processed /\ Session!Context.toConfirm = toConfirm
         /\ Session!Context.wanted = running /\ session \in 1..MaxSessions
<1> DEFINE d == Session!Context
<1>1. ContextRight(d) /\ d \in ContextType
  BY DEF SessionInv, ContextRight
<1>2. /\ d.session = session /\ d.asks = {} /\ d.processed = processed /\ d.toConfirm = toConfirm
      /\ d.wanted = running
  BY DEF Session!Context
<1> HIDE DEF d
<1>3. session \in 1..MaxSessions
  BY <1>1, <1>2 DEF ContextType
<1>4. SentBy(d)
  <2>1. sentIn \in [MessageIds -> 0..MaxSessions] /\ theirs \in 1..session
        /\ \A m \in MessageIds : sentIn[m] <= theirs
    BY DEF SessionInv, ServerRight
  <2> QED BY <1>2, <1>3, <2>1, SessionConstants DEF SentBy
<1>5. Grows(d, d)
  BY <1>1, SessionConstants DEF Grows, ContextType
<1> QED BY <1>1, <1>2, <1>3, <1>4, <1>5 DEF d

\* Nothing changes but the confirmations, which leave.
LEMMA WithoutRight ==
  ASSUME NEW c, ContextRight(c)
  PROVE  LET d == Session!WithoutConfirmations(c)
         IN  /\ ContextRight(d) /\ \A b \in ContextType : Grows(b, c) => Grows(b, d)
             /\ d.session = c.session /\ \A m \in MessageIds : Done(c, m) => Done(d, m)
<1> DEFINE d == [c EXCEPT !.toConfirm = {}]
<1>0. c \in ContextType /\ Session!WithoutConfirmations(c) = d
  BY DEF ContextRight, Session!WithoutConfirmations
<1>1. /\ d \in ContextType /\ d.session = c.session /\ d.processed = c.processed
      /\ d.toConfirm = {} /\ d.calls = c.calls /\ d.forgot = c.forgot
      /\ d.excused = c.excused /\ d.mixed = c.mixed
  BY <1>0 DEF ContextType
<1> HIDE DEF d
<1>2. ContextRight(d) /\ \A m \in MessageIds : Done(c, m) => Done(d, m)
  BY <1>1 DEF ContextRight, CalledOnce, Remembers, RemembersDone, ConfirmsDone, ConfirmsItsOwn, Done
<1>3. \A b \in ContextType : Grows(b, c) => Grows(b, d)
  BY <1>1 DEF Grows
<1> QED BY <1>0, <1>1, <1>2, <1>3

\* A client that sends nothing keeps the invariant if its context is right.
LEMMA QuietlyKeeps ==
  ASSUME SessionInv, NEW c, ContextRight(c), Grows(Session!Context, c), Session!Become(c),
         UNCHANGED <<theirs, sentIn, confirmed, lastId, letters>>,
         packets' = packets \/ (packets # <<>> /\ packets' = Tail(packets))
  PROVE  SessionInv'
<1>1. letters \in Seq(LetterType)
  BY DEF SessionInv
<1> DEFINE ls == <<>>
<1>2. letters' = letters \o ls /\ ls \in Seq(LetterType) /\ 1..Len(ls) = {}
  BY <1>1
<1> HIDE DEF ls
<1>3. \A i \in 1..Len(ls) : ls[i].session <= c.session /\ \A m \in ls[i].acks : Done(c, m)
  BY <1>2
<1> QED BY <1>2, <1>3, ClientKeeps

\* The confirmations of a context leave, those that there are.
LEMMA ConfirmsKeep ==
  ASSUME SessionInv, NEW c, ContextRight(c), Grows(Session!Context, c),
         Session!Send(Session!Confirmations(c)), Session!Become(Session!WithoutConfirmations(c)),
         UNCHANGED <<theirs, sentIn, confirmed, lastId>>,
         packets' = packets \/ (packets # <<>> /\ packets' = Tail(packets))
  PROVE  SessionInv'
<1> DEFINE d == Session!WithoutConfirmations(c)
           l == Session!Letter(c, c.toConfirm, {})
<1>0. c \in ContextType /\ Session!Context \in ContextType
  BY ContextNow DEF ContextRight
<1>1. /\ ContextRight(d) /\ Grows(Session!Context, d) /\ d.session = c.session
      /\ \A m \in MessageIds : Done(c, m) => Done(d, m)
  BY <1>0, WithoutRight
<1> HIDE DEF d
<1>2. /\ l \in LetterType /\ l.session = c.session /\ l.acks = c.toConfirm
  BY <1>0 DEF Session!Letter, LetterType, ContextType
<1>3. /\ l.session <= d.session /\ \A m \in l.acks : Done(d, m)
  BY <1>0, <1>1, <1>2, SessionConstants DEF ContextRight, ConfirmsDone, ContextType
<1> HIDE DEF l
<1>4. letters \in Seq(LetterType)
  BY DEF SessionInv
<1>5. CASE letters' = letters
  <2> QED BY <1>1, <1>5, QuietlyKeeps DEF d
<1>6. CASE letters' = letters \o <<l>>
  <2> DEFINE ls == <<l>>
  <2>1. letters' = letters \o ls /\ ls \in Seq(LetterType) /\ \A i \in 1..Len(ls) : ls[i] = l
    BY <1>2, <1>6
  <2> HIDE DEF ls
  <2>2. \A i \in 1..Len(ls) : ls[i].session <= d.session /\ \A m \in ls[i].acks : Done(d, m)
    BY <1>3, <2>1
  <2> QED BY <1>1, <2>1, <2>2, ClientKeeps DEF d
<1>7. letters' = letters \/ letters' = letters \o <<l>>
  BY <1>4 DEF Session!Send, Session!Confirmations, l
<1> QED BY <1>5, <1>6, <1>7

\* The packet at the head of the line.
LEMMA HeadPacket ==
  ASSUME SessionInv, packets # <<>>
  PROVE  Head(packets) \in PacketType /\ PacketRight(Head(packets))
<1>1. packets \in Seq(PacketType) /\ \A i \in 1..Len(packets) : PacketRight(packets[i])
  BY DEF SessionInv
<1>2. Head(packets) = packets[1] /\ 1 \in 1..Len(packets) /\ packets[1] \in PacketType
  BY <1>1
<1> QED BY <1>1, <1>2

\* To confirm a message of the session changes nothing else.
LEMMA NotedOfSession ==
  ASSUME NEW c \in ContextType, NEW m \in MessageIds, sentIn[m] = c.session
  PROVE  NotedIn(c, m) = Session!AddMessageToConfirm(c, m)
<1> DEFINE x == c.mixed
<1>1. [c EXCEPT !.mixed = x] = c
  BY DEF ContextType
<1>2. NotedIn(c, m) = Session!AddMessageToConfirm([c EXCEPT !.mixed = x], m)
  BY DEF NotedIn
<1> QED BY <1>1, <1>2

\* A packet that was processed before is confirmed at once.
LEMMA ReceiveAgainKeeps == SessionInv /\ Session!ReceiveAgain => SessionInv'
<1> SUFFICES ASSUME SessionInv, Session!ReceiveAgain PROVE SessionInv'
  OBVIOUS
<1> DEFINE d == Session!Context
           p == Head(packets)
           c == IF p.kind = "message" THEN Session!AddMessageToConfirm(d, p.m) ELSE d
<1>1. /\ packets # <<>> /\ packets' = Tail(packets) /\ p.session = session
      /\ Session!IsMessageIdProcessed(d, p.id)
      /\ Session!Send(Session!Confirmations(c)) /\ Session!Become(Session!WithoutConfirmations(c))
      /\ UNCHANGED <<theirs, sentIn, confirmed, lastId>>
  BY DEF Session!ReceiveAgain, Session!server
<1>2. /\ ContextRight(d) /\ d \in ContextType /\ Grows(d, d) /\ d.session = session
  BY ContextNow
<1>3. p \in PacketType /\ PacketRight(p)
  BY <1>1, HeadPacket
<1> HIDE DEF d, p
<1>4. ContextRight(c) /\ Grows(d, c)
  <2>1. CASE p.kind # "message"
    BY <1>2, <2>1
  <2>2. CASE p.kind = "message"
    <3>1. p.m \in MessageIds /\ p.id = p.m /\ sentIn[p.m] = d.session
      BY <1>1, <1>2, <1>3, <2>2 DEF PacketRight, Carries
    <3>2. p.m \in ToSet(d.processed)
      BY <1>1, <3>1 DEF Session!IsMessageIdProcessed, Session!ToSet, ToSet
    <3>3. Done(d, p.m)
      BY <1>2, <3>1, <3>2 DEF ContextRight, RemembersDone
    <3>4. c = NotedIn(d, p.m)
      BY <1>2, <2>2, <3>1, NotedOfSession
    <3> QED BY <1>2, <3>1, <3>3, <3>4, NotedRight
  <2> QED BY <2>1, <2>2
<1> HIDE DEF c
<1> QED BY <1>1, <1>4, ConfirmsKeep DEF d

\* A description of an answer.
LEMMA DetailedInfoRight ==
  ASSUME NEW c, ContextRight(c), NEW m \in Answers, sentIn[m] = c.session
  PROVE  LET d == Session!ProcessDetailedInfo(c, m)
         IN  /\ ContextRight(d) /\ Grows(c, d) /\ d.session = c.session
<1> DEFINE d == Session!ProcessDetailedInfo(c, m)
<1>0. c \in ContextType /\ m \in MessageIds /\ Grows(c, c)
  BY SessionConstants DEF ContextRight, Grows, ContextType
<1>1. CASE m \in c.wanted /\ m \in c.resent
  BY <1>0, <1>1 DEF Session!ProcessDetailedInfo
<1>2. CASE m \in c.wanted /\ m \notin c.resent
  <2> DEFINE e == [c EXCEPT !.resent = c.resent \cup {m}, !.asks = c.asks \cup {m}]
  <2>1. d = e
    BY <1>2 DEF Session!ProcessDetailedInfo
  <2>2. c.resent \cup {m} \in SUBSET Answers /\ c.asks \cup {m} \in SUBSET Answers
    BY <1>0 DEF ContextType
  <2>3. /\ e \in ContextType /\ e.session = c.session /\ e.processed = c.processed
        /\ e.toConfirm = c.toConfirm /\ e.calls = c.calls /\ e.forgot = c.forgot
        /\ e.excused = c.excused /\ e.mixed = c.mixed
    BY <1>0, <2>2 DEF ContextType
  <2> HIDE DEF e, d
  <2>4. ContextRight(e)
    BY <2>3 DEF ContextRight, CalledOnce, Remembers, RemembersDone, ConfirmsDone, ConfirmsItsOwn, Done
  <2>5. Grows(c, e)
    BY <1>0, <2>3 DEF Grows
  <2> QED BY <2>1, <2>3, <2>4, <2>5 DEF d
<1>3. CASE m \notin c.wanted
  <2> DEFINE e == [c EXCEPT !.excused = c.excused \cup {m}, !.toConfirm = c.toConfirm \cup {m}]
  <2>1. d = e
    BY <1>0, <1>3 DEF Session!ProcessDetailedInfo, Session!AddMessageToConfirm, ContextType
  <2>2. c.excused \cup {m} \in SUBSET MessageIds /\ c.toConfirm \cup {m} \in SUBSET MessageIds
    BY <1>0 DEF ContextType
  <2>3. /\ e \in ContextType /\ e.session = c.session /\ e.processed = c.processed
        /\ e.toConfirm = c.toConfirm \cup {m} /\ e.calls = c.calls /\ e.forgot = c.forgot
        /\ e.excused = c.excused \cup {m} /\ e.mixed = c.mixed
    BY <1>0, <2>2 DEF ContextType
  <2> HIDE DEF e, d
  <2>4. ContextRight(e)
    BY <2>3 DEF ContextRight, CalledOnce, Remembers, RemembersDone, ConfirmsDone, ConfirmsItsOwn, Done
  <2>5. Grows(c, e)
    BY <1>0, <2>3 DEF Grows
  <2> QED BY <2>1, <2>3, <2>4, <2>5 DEF d
<1> QED BY <1>1, <1>2, <1>3

\* What a packet that is new leaves behind is right, and is noted.
LEMMA ReceiveKeeps == SessionInv /\ Session!Receive => SessionInv'
<1> SUFFICES ASSUME SessionInv, Session!Receive PROVE SessionInv'
  OBVIOUS
<1> DEFINE d == Session!Context
           p == Head(packets)
           noted == IF p.kind = "message" THEN Session!AddMessageToConfirm(d, p.m) ELSE d
           c == IF p.kind = "container" THEN Session!ProcessContainer(noted, p.inner)
                ELSE Session!Process(noted, p)
           e == IF p.kind = "message" /\ p.m \in Unreadable THEN c
                ELSE Session!AddProcessedMessageId(c, p.id)
<1>1. /\ packets # <<>> /\ packets' = Tail(packets) /\ p.session = session
      /\ ~Session!IsMessageIdProcessed(d, p.id)
      /\ Session!Send(Session!Questions(c)) /\ Session!Become(e)
      /\ UNCHANGED <<theirs, sentIn, confirmed, lastId>>
  BY DEF Session!Receive, Session!server
<1>2. /\ ContextRight(d) /\ d \in ContextType /\ Grows(d, d) /\ d.session = session /\ d.asks = {}
      /\ SentBy(d) /\ session \in 1..MaxSessions
  BY ContextNow
<1>3. p \in PacketType /\ PacketRight(p)
  BY <1>1, HeadPacket
<1> HIDE DEF d, p
<1>4. CASE p.kind = "message"
  <2>1. p.m \in MessageIds /\ p.id = p.m /\ sentIn[p.m] = d.session /\ sentIn[p.m] # 0
    BY <1>1, <1>2, <1>3, <1>4 DEF PacketRight, Carries
  <2>2. p.m \notin ToSet(d.processed)
    BY <1>1, <2>1 DEF Session!IsMessageIdProcessed, Session!ToSet, ToSet
  <2>3. noted = NotedIn(d, p.m)
    BY <1>2, <1>4, <2>1, NotedOfSession
  <2> HIDE DEF noted
  <2>4. c = TakenIn(d, p.m)
    BY <1>4, <2>3 DEF Session!Process, TakenIn
  <2> HIDE DEF c
  <2>5. ContextRight(e) /\ Grows(d, e)
    <3>1. CASE p.m \in Unreadable
      <4>1. Done(d, p.m) /\ c = NotedIn(d, p.m) /\ e = c
        BY <1>4, <2>4, <3>1 DEF Done, TakenIn
      <4> QED BY <1>2, <2>1, <4>1, NotedRight
    <3>2. CASE p.m \notin Unreadable
      <4>1. e = Session!AddProcessedMessageId(TakenIn(d, p.m), p.m)
        BY <2>1, <2>4, <3>2
      <4> QED BY <1>2, <2>1, <2>2, <4>1, TakenRight
    <3> QED BY <3>1, <3>2
  <2>6. c.asks = {}
    BY <1>2, <2>1, <2>4, TakenFields
  <2> HIDE DEF e
  <2>7. letters' = letters
    <3>1. letters \in Seq(LetterType)
      BY DEF SessionInv
    <3> QED BY <1>1, <2>6, <3>1 DEF Session!Send, Session!Questions
  <2> QED BY <1>1, <2>5, <2>7, QuietlyKeeps DEF d
<1>5. CASE p.kind # "message"
  <2>1. p.id \in ServiceIds /\ noted = d
    BY <1>3, <1>5 DEF PacketRight
  <2>2. CASE p.kind = "container"
    <3>1. /\ p.inner \in InnerType \X InnerType
          /\ FirstRight(p.inner[1], d.session) /\ SecondRight(p.inner[2], d.session)
      BY <1>1, <1>2, <1>3, <2>2 DEF PacketRight
    <3>2. c = Session!ProcessContainer(d, p.inner)
      BY <2>1, <2>2
    <3>3. Follows(d, c)
      BY <1>2, <3>1, <3>2, ContainerRight
    <3>4. e = Session!AddProcessedMessageId(c, p.id)
      BY <1>5
    <3> HIDE DEF c, e
    <3>5. ContextRight(e) /\ Grows(c, e)
      BY <2>1, <3>3, <3>4, ServiceNoted DEF Follows
    <3>6. Grows(d, e)
      BY <1>2, <3>3, <3>5, GrowsOn DEF Follows, ContextRight
    <3>7. letters' = letters
      <4>1. letters \in Seq(LetterType)
        BY DEF SessionInv
      <4>2. c.asks = {}
        BY <1>2, <3>3 DEF Follows
      <4> QED BY <1>1, <4>1, <4>2 DEF Session!Send, Session!Questions
    <3> QED BY <1>1, <3>5, <3>6, <3>7, QuietlyKeeps DEF d
  <2>3. CASE p.kind = "info"
    <3>1. p.m \in Answers /\ sentIn[p.m] = d.session
      BY <1>1, <1>2, <1>3, <2>3 DEF PacketRight
    <3>2. c = Session!ProcessDetailedInfo(d, p.m)
      BY <2>1, <2>3 DEF Session!Process
    <3>3. ContextRight(c) /\ Grows(d, c) /\ c.session = d.session
      BY <1>2, <3>1, <3>2, DetailedInfoRight
    <3>4. e = Session!AddProcessedMessageId(c, p.id)
      BY <1>5
    <3> HIDE DEF c, e
    <3>5. ContextRight(e) /\ Grows(c, e) /\ e.session = c.session
      BY <2>1, <3>3, <3>4, ServiceNoted
    <3>6. Grows(d, e)
      BY <1>2, <3>3, <3>5, GrowsOn DEF ContextRight
    <3> DEFINE l == Session!Letter(c, {}, c.asks)
    <3>7. l \in LetterType /\ l.acks = {} /\ l.session = e.session /\ e.session \in Nat
      BY <3>3, <3>5, SessionConstants DEF Session!Letter, LetterType, ContextRight, ContextType
    <3> HIDE DEF l
    <3>8. letters \in Seq(LetterType)
      BY DEF SessionInv
    <3>9. letters' = letters \/ letters' = letters \o <<l>>
      BY <1>1, <3>8 DEF Session!Send, Session!Questions, l
    <3>10. CASE letters' = letters
      BY <1>1, <3>5, <3>6, <3>10, QuietlyKeeps DEF d
    <3>11. CASE letters' = letters \o <<l>>
      <4> DEFINE ls == <<l>>
      <4>1. letters' = letters \o ls /\ ls \in Seq(LetterType) /\ \A i \in 1..Len(ls) : ls[i] = l
        BY <3>7, <3>11
      <4> HIDE DEF ls
      <4>2. \A i \in 1..Len(ls) : ls[i].session <= e.session /\ \A m \in ls[i].acks : Done(e, m)
        BY <3>7, <4>1
      <4> QED BY <1>1, <3>5, <3>6, <4>1, <4>2, ClientKeeps DEF d
    <3> QED BY <3>9, <3>10, <3>11
  <2>4. p.kind \in {"container", "info"}
    BY <1>3, <1>5 DEF PacketType
  <2> QED BY <2>2, <2>3, <2>4
<1> QED BY <1>4, <1>5

\* Packets of another session are thrown away, confirmations leave by themselves
\* or with a request.
LEMMA OtherReceivesKeep ==
  SessionInv /\ (Session!ReceiveForeign \/ Session!Tick \/ Session!SendRequest) => SessionInv'
<1> SUFFICES ASSUME SessionInv, Session!ReceiveForeign \/ Session!Tick \/ Session!SendRequest
             PROVE  SessionInv'
  OBVIOUS
<1>0. ContextRight(Session!Context) /\ Grows(Session!Context, Session!Context)
  BY ContextNow
<1>1. CASE Session!ReceiveForeign
  <2>1. /\ packets # <<>> /\ packets' = Tail(packets) /\ UNCHANGED <<theirs, sentIn, confirmed, lastId, letters>>
        /\ Session!Become(Session!Context)
    BY <1>1 DEF Session!ReceiveForeign, Session!server, Session!client, Session!history,
       Session!Become, Session!Context
  <2> QED BY <1>0, <2>1, QuietlyKeeps
<1>2. CASE Session!Tick \/ Session!SendRequest
  <2>1. /\ packets' = packets /\ UNCHANGED <<theirs, sentIn, confirmed, lastId>>
        /\ Session!Send(Session!Confirmations(Session!Context))
        /\ Session!Become(Session!WithoutConfirmations(Session!Context))
    BY <1>2 DEF Session!Tick, Session!SendRequest, Session!server
  <2> QED BY <1>0, <2>1, ConfirmsKeep
<1> QED BY <1>1, <1>2

\* The requests answers wait for come and go, and sessions begin anew.
LEMMA RequestsKeep ==
  SessionInv /\ (\/ Session!Recreate
                 \/ \E m \in Session!Messages : Session!ForgetRequest(m) \/ Session!MinutePasses(m))
    => SessionInv'
<1> SUFFICES ASSUME SessionInv,
                    \/ Session!Recreate
                    \/ \E m \in Session!Messages : Session!ForgetRequest(m) \/ Session!MinutePasses(m)
             PROVE  SessionInv'
  OBVIOUS
<1> DEFINE d == Session!Context
<1>0. /\ ContextRight(d) /\ d \in ContextType /\ SentBy(d) /\ Grows(d, d) /\ d.session = session
      /\ session \in 1..MaxSessions
  BY ContextNow
<1>1. CASE Session!Recreate
  <2>1. /\ UNCHANGED <<packets, theirs, sentIn, confirmed, lastId, letters>>
        /\ Session!Become(Session!ProcessBadMsg(d)) /\ session < MaxSessions
    BY <1>1 DEF Session!Recreate, Session!ProcessBadMsg, Session!server
  <2> HIDE DEF d
  <2>2. ContextRight(Session!ProcessBadMsg(d)) /\ Grows(d, Session!ProcessBadMsg(d))
    BY <1>0, <2>1, RecreatedRight
  <2> QED BY <2>1, <2>2, QuietlyKeeps DEF d
<1>2. ASSUME NEW m \in Session!Messages, Session!ForgetRequest(m) \/ Session!MinutePasses(m)
      PROVE  SessionInv'
  <2>1. PICK w \in SUBSET Answers, r \in SUBSET Answers :
          /\ UNCHANGED <<packets, theirs, sentIn, confirmed, lastId, letters>>
          /\ Session!Become([d EXCEPT !.wanted = w, !.resent = r])
    <3>1. running \in SUBSET Answers /\ resent \in SUBSET Answers
      BY <1>0 DEF ContextType, Session!Context
    <3>2. CASE Session!ForgetRequest(m)
      <4>1. /\ UNCHANGED <<packets, theirs, sentIn, confirmed, lastId, letters>>
            /\ Session!Become([d EXCEPT !.wanted = running \ {m}, !.resent = resent])
        BY <3>2 DEF Session!ForgetRequest, Session!server, Session!history, Session!Become,
           Session!Context
      <4>2. running \ {m} \in SUBSET Answers
        BY <3>1
      <4> QED BY <3>1, <4>1, <4>2
    <3>3. CASE Session!MinutePasses(m)
      <4>1. /\ UNCHANGED <<packets, theirs, sentIn, confirmed, lastId, letters>>
            /\ Session!Become([d EXCEPT !.wanted = running, !.resent = resent \ {m}])
        BY <3>3 DEF Session!MinutePasses, Session!server, Session!history, Session!Become,
           Session!Context
      <4>2. resent \ {m} \in SUBSET Answers
        BY <3>1
      <4> QED BY <3>1, <4>1, <4>2
    <3> QED BY <1>2, <3>2, <3>3
  <2> DEFINE e == [d EXCEPT !.wanted = w, !.resent = r]
  <2> HIDE DEF d
  <2>2. /\ e \in ContextType /\ e.session = d.session /\ e.processed = d.processed
        /\ e.toConfirm = d.toConfirm /\ e.calls = d.calls /\ e.forgot = d.forgot
        /\ e.excused = d.excused /\ e.mixed = d.mixed
    BY <1>0 DEF ContextType
  <2> HIDE DEF e
  <2>3. ContextRight(e)
    BY <1>0, <2>2 DEF ContextRight, CalledOnce, Remembers, RemembersDone, ConfirmsDone, ConfirmsItsOwn, Done
  <2>4. Grows(d, e)
    BY <1>0, <2>2 DEF Grows
  <2>5. Session!Become(e)
    BY <2>1 DEF e
  <2> QED BY <2>1, <2>3, <2>4, <2>5, QuietlyKeeps DEF d
<1> QED BY <1>1, <1>2

\* Connections come and go: what is on its way may be lost.
LEMMA ConnectionsKeep == SessionInv /\ (Session!Drop \/ Session!Reopen) => SessionInv'
<1> SUFFICES ASSUME SessionInv, Session!Drop \/ Session!Reopen PROVE SessionInv'
  OBVIOUS
<1>1. /\ UNCHANGED <<session, processed, toConfirm, running, resent, times, forgot, excused, mixed,
                     theirs, sentIn, confirmed, lastId>>
      /\ letters' = letters \/ letters' = <<>>
      /\ packets' = packets \/ \E n \in 0..Len(packets) : packets' = SubSeq(packets, 1, n)
  BY DEF Session!Drop, Session!Reopen, Session!client, Session!server, Session!history
<1>2. Session!Context' = Session!Context
  BY <1>1 DEF Session!Context
<1>3. ContextRight(Session!Context)' /\ ServerRight'
  BY <1>1, <1>2 DEF SessionInv, ServerRight, ContextRight, CalledOnce, Remembers, RemembersDone,
     ConfirmsDone, ConfirmsItsOwn, Done
<1>4. letters' \in Seq(LetterType) /\ \A i \in 1..Len(letters') : LetterRight(letters[i])'
  <2>1. \A l : LetterRight(l) => LetterRight(l)'
    BY <1>1, <1>2 DEF LetterRight, Done
  <2>2. letters \in Seq(LetterType) /\ \A i \in 1..Len(letters) : LetterRight(letters[i])
    BY DEF SessionInv
  <2>3. CASE letters' = letters
    <3>1. \A i \in 1..Len(letters') : letters'[i] = letters[i] /\ LetterRight(letters[i])
      BY <2>2, <2>3
    <3>2. \A i \in 1..Len(letters') : LetterRight(letters[i])'
      BY <1>1, <1>2, <3>1 DEF LetterRight, Done
    <3> QED BY <2>2, <2>3, <3>2
  <2>4. CASE letters' = <<>>
    BY <2>4
  <2> QED BY <1>1, <2>3, <2>4
<1>5. packets' \in Seq(PacketType) /\ \A i \in 1..Len(packets') : PacketRight(packets[i])'
  <2>1. packets \in Seq(PacketType) /\ \A i \in 1..Len(packets) : PacketRight(packets[i])
    BY DEF SessionInv
  <2>2. /\ packets' \in Seq(PacketType)
        /\ \A i \in 1..Len(packets') : i \in 1..Len(packets) /\ packets'[i] = packets[i]
    <3>1. ASSUME NEW n \in 0..Len(packets), packets' = SubSeq(packets, 1, n)
          PROVE  /\ packets' \in Seq(PacketType)
                 /\ \A i \in 1..Len(packets') : i \in 1..Len(packets) /\ packets'[i] = packets[i]
      BY <2>1, <3>1
    <3>2. CASE packets' = packets
      BY <2>1, <3>2
    <3> QED BY <1>1, <3>1, <3>2
  <2>3. \A i \in 1..Len(packets') : PacketRight(packets[i])'
    BY <1>1, <2>1, <2>2 DEF PacketRight, FirstRight, SecondRight, Carries
  <2> QED BY <2>2, <2>3
<1> QED BY <1>3, <1>4, <1>5 DEF SessionInv

\* A letter that arrives tells the server of the session, and of what was done.
LEMMA TakeLetterKeeps == SessionInv /\ Session!TakeLetter => SessionInv'
<1> SUFFICES ASSUME SessionInv, Session!TakeLetter PROVE SessionInv'
  OBVIOUS
<1> DEFINE l == Head(letters)
<1>1. /\ letters # <<>> /\ letters' = Tail(letters)
      /\ theirs' = IF l.session > theirs THEN l.session ELSE theirs
      /\ confirmed' = confirmed \cup { m \in l.acks : sentIn[m] = l.session }
      /\ UNCHANGED <<session, processed, toConfirm, running, resent, times, forgot, excused, mixed,
                     packets, sentIn, lastId>>
  BY DEF Session!TakeLetter, Session!client, Session!history
<1>2. Session!Context' = Session!Context
  BY <1>1 DEF Session!Context
<1>3. letters \in Seq(LetterType) /\ \A i \in 1..Len(letters) : LetterRight(letters[i])
  BY DEF SessionInv
<1>4. l \in LetterType /\ LetterRight(l)
  <2>1. l = letters[1] /\ 1 \in 1..Len(letters)
    BY <1>1, <1>3
  <2> QED BY <1>3, <2>1
<1>5. /\ session \in 1..MaxSessions /\ theirs \in 1..session /\ l.session \in 1..session
      /\ theirs <= theirs' /\ theirs' \in 1..session
  <2>1. session \in 1..MaxSessions
    BY ContextNow
  <2>2. theirs \in 1..session
    BY DEF SessionInv, ServerRight
  <2>3. l.session \in 1..session
    BY <1>4, <2>1, SessionConstants DEF LetterType, LetterRight
  <2> QED BY <1>1, <2>1, <2>2, <2>3
<1>6. l.acks \subseteq MessageIds /\ \A m \in l.acks : Done(Session!Context, m)
  BY <1>4 DEF LetterType, LetterRight
<1> HIDE DEF l
<1>7. ContextRight(Session!Context)'
  BY <1>1, <1>2 DEF SessionInv, ContextRight, CalledOnce, Remembers, RemembersDone,
     ConfirmsDone, ConfirmsItsOwn, Done
<1>8. ServerRight'
  <2>1. /\ sentIn \in [MessageIds -> 0..MaxSessions] /\ \A m \in MessageIds : sentIn[m] <= theirs
        /\ lastId \in 0..(MaxId + 1) /\ confirmed \subseteq MessageIds
        /\ \A m \in confirmed : Done(Session!Context, m)
    BY DEF SessionInv, ServerRight
  <2>2. \A m \in MessageIds : sentIn[m] <= theirs'
    BY <1>5, <2>1, SessionConstants
  <2>3. confirmed' \subseteq MessageIds /\ \A m \in confirmed' : Done(Session!Context, m)
    BY <1>1, <1>6, <2>1
  <2>4. \A m \in confirmed' : Done(Session!Context, m)'
    BY <1>1, <1>2, <2>3 DEF Done
  <2> QED BY <1>1, <1>5, <2>1, <2>2, <2>3, <2>4 DEF ServerRight
<1>9. packets' \in Seq(PacketType) /\ \A i \in 1..Len(packets') : PacketRight(packets[i])'
  <2>1. packets \in Seq(PacketType) /\ \A i \in 1..Len(packets) : PacketRight(packets[i])
    BY DEF SessionInv
  <2>2. ASSUME NEW i \in 1..Len(packets)
        PROVE  PacketRight(packets[i])'
    <3>1. packets[i] \in PacketType /\ PacketRight(packets[i])
      BY <2>1
    <3>2. packets[i].session <= theirs'
      BY <1>5, <3>1, SessionConstants DEF PacketRight, PacketType
    <3> QED BY <1>1, <3>1, <3>2 DEF PacketRight, FirstRight, SecondRight, Carries
  <2> QED BY <1>1, <2>1, <2>2
<1>10. letters' \in Seq(LetterType) /\ \A i \in 1..Len(letters') : LetterRight(letters[i])'
  <2>1. /\ letters' \in Seq(LetterType) /\ Len(letters') = Len(letters) - 1 /\ Len(letters) \in Nat
        /\ \A i \in 1..Len(letters') : letters'[i] = letters[i + 1]
    BY <1>1, <1>3
  <2>2. \A i \in 1..Len(letters') : letters'[i] = letters[i + 1] /\ LetterRight(letters[i + 1])
    <3>1. \A i \in 1..Len(letters') : i + 1 \in 1..Len(letters)
      BY <2>1
    <3> QED BY <1>3, <2>1, <3>1
  <2> QED BY <1>1, <1>2, <2>1, <2>2 DEF LetterRight, Done
<1> QED BY <1>7, <1>8, <1>9, <1>10 DEF SessionInv

\* The server sends messages ms in a packet of its session.
LEMMA PutKeeps ==
  ASSUME SessionInv, NEW p \in PacketType, p.session = theirs, packets' = Append(packets, p),
         NEW ms \in SUBSET MessageIds, \A m \in ms : sentIn[m] \in {0, theirs},
         sentIn' = [k \in MessageIds |-> IF k \in ms /\ sentIn[k] = 0 THEN theirs ELSE sentIn[k]],
         PacketRight(p)', lastId' \in 0..(MaxId + 1),
         UNCHANGED <<session, processed, toConfirm, running, resent, times, forgot, excused, mixed,
                     letters, theirs, confirmed>>
  PROVE  SessionInv'
<1> DEFINE d == Session!Context
<1>1. /\ sentIn \in [MessageIds -> 0..MaxSessions] /\ theirs \in 1..session
      /\ \A m \in MessageIds : sentIn[m] <= theirs
  BY DEF SessionInv, ServerRight
<1>2. session \in 1..MaxSessions /\ d \in ContextType /\ d.session = session
  BY ContextNow
<1>3. /\ sentIn' \in [MessageIds -> 0..MaxSessions] /\ \A m \in MessageIds : sentIn'[m] <= theirs
      /\ \A m \in MessageIds : sentIn[m] # 0 => sentIn'[m] = sentIn[m]
  <2>1. theirs \in 0..MaxSessions /\ theirs <= theirs
    BY <1>1, <1>2, SessionConstants
  <2> QED BY <1>1, <2>1
<1>4. Session!Context' = Session!Context
  BY DEF Session!Context
<1>5. \A m \in MessageIds : Done(d, m) <=> Done(d, m)'
  BY <1>4 DEF Done
<1>6. ContextRight(d)'
  <2>1. ContextRight(d) /\ d' = d
    BY <1>4 DEF SessionInv
  <2> HIDE DEF d
  <2>2. d.toConfirm \subseteq MessageIds
    BY <1>2 DEF ContextType
  <2>3. CalledOnce(d)' /\ RemembersDone(d)' /\ ConfirmsDone(d)'
    BY <2>1 DEF ContextRight, CalledOnce, RemembersDone, ConfirmsDone, Done
  <2>4. Remembers(d)'
    BY <1>3, <2>1 DEF ContextRight, Remembers
  <2>5. ConfirmsItsOwn(d)'
    <3>1. ASSUME NEW m \in d.toConfirm PROVE sentIn'[m] = d.session \/ m \in d.mixed
      <4>1. sentIn[m] = d.session \/ m \in d.mixed
        BY <2>1 DEF ContextRight, ConfirmsItsOwn
      <4>2. d.session # 0
        BY <1>2
      <4> QED BY <1>3, <2>2, <4>1, <4>2
    <3> QED BY <2>1, <3>1 DEF ConfirmsItsOwn
  <2> QED BY <1>2, <2>1, <2>3, <2>4, <2>5 DEF ContextRight
<1>7. ServerRight'
  BY <1>1, <1>3, <1>5 DEF SessionInv, ServerRight, d
<1>8. packets' \in Seq(PacketType) /\ \A i \in 1..Len(packets') : PacketRight(packets[i])'
  <2>1. packets \in Seq(PacketType) /\ \A i \in 1..Len(packets) : PacketRight(packets[i])
    BY DEF SessionInv
  <2>2. /\ packets' \in Seq(PacketType) /\ Len(packets') = Len(packets) + 1 /\ Len(packets) \in Nat
        /\ \A i \in 1..Len(packets) : packets'[i] = packets[i]
        /\ packets'[Len(packets) + 1] = p
    BY <2>1
  <2>3. ASSUME NEW i \in 1..Len(packets')
        PROVE  PacketRight(packets[i])'
    <3>1. CASE i \in 1..Len(packets)
      <4> DEFINE q == packets[i]
      <4>1. q \in PacketType /\ PacketRight(q) /\ packets'[i] = q
        BY <2>1, <2>2, <3>1
      <4>2. q.session # 0
        BY <4>1 DEF PacketType
      <4> HIDE DEF q
      <4>3. PacketRight(q) => PacketRight(packets'[i])
        BY <4>1
      <4>4. /\ q.session <= theirs'
            /\ q.kind = "message" => q.m \in MessageIds /\ q.id = q.m /\ sentIn'[q.m] = q.session
            /\ q.kind # "message" => q.id \in ServiceIds
            /\ q.kind = "info" => q.m \in Answers /\ sentIn'[q.m] = q.session
        BY <1>3, <4>1, <4>2, SessionConstants DEF PacketRight, Carries
      <4>5. ASSUME q.kind = "container"
            PROVE  /\ q.inner \in InnerType \X InnerType
                   /\ \/ /\ q.inner[1].kind = "message" /\ q.inner[1].m \in MessageIds
                         /\ q.inner[1].id = q.inner[1].m /\ sentIn'[q.inner[1].m] = q.session
                      \/ /\ q.inner[1].kind = "badMsg" /\ q.inner[1].id \in ServiceIds
                         /\ q.session < MaxSessions
                   /\ q.inner[2].kind = "message" /\ q.inner[2].m \in MessageIds
                   /\ q.inner[2].id = q.inner[2].m /\ sentIn'[q.inner[2].m] = q.session
        BY <1>3, <4>1, <4>2, <4>5 DEF PacketRight, FirstRight, SecondRight, Carries
      <4> QED BY <4>1, <4>4, <4>5 DEF PacketRight, FirstRight, SecondRight, Carries
    <3>2. CASE i \notin 1..Len(packets)
      <4>1. packets'[i] = p
        BY <2>2, <3>2
      <4> QED BY <4>1 DEF PacketRight, FirstRight, SecondRight, Carries
    <3> QED BY <3>1, <3>2
  <2> QED BY <2>2, <2>3
<1>9. letters' \in Seq(LetterType) /\ \A i \in 1..Len(letters') : LetterRight(letters[i])'
  <2>1. letters \in Seq(LetterType) /\ \A i \in 1..Len(letters) : LetterRight(letters[i])
    BY DEF SessionInv
  <2> QED BY <1>4, <2>1 DEF LetterRight, Done
<1> QED BY <1>6, <1>7, <1>8, <1>9 DEF SessionInv, d

\* Each packet of the server is one of those.
LEMMA ServerSendsKeep ==
  ASSUME SessionInv, NEW m \in Session!Messages,
         \/ Session!SendAlone(m) \/ Session!SendInfo(m)
         \/ \E k \in 0..MaxMessages : Session!SendContainer(k, m)
  PROVE  SessionInv'
<1>0. /\ m \in MessageIds /\ session \in 1..MaxSessions /\ theirs \in 1..session
      /\ theirs \in 1..MaxSessions /\ lastId \in 0..(MaxId + 1) /\ MaxId \in Nat
      /\ sentIn \in [MessageIds -> 0..MaxSessions] /\ MaxMessages \in Nat /\ MaxSessions \in Nat
      /\ MessageIds = 1..MaxMessages /\ Session!Messages = MessageIds
      /\ Answers \subseteq MessageIds
  BY SessionConstants, ContextNow DEF SessionInv, ServerRight, MessageIds
<1>1. CASE Session!SendAlone(m)
  <2>0. PICK p : p = Session!Packet("message", m, m, <<>>)
    OBVIOUS
  <2>1. /\ packets' = Append(packets, p) /\ sentIn[m] \in {0, theirs}
        /\ sentIn' = [k \in MessageIds |-> IF k \in {m} /\ sentIn[k] = 0 THEN theirs ELSE sentIn[k]]
        /\ UNCHANGED <<session, processed, toConfirm, running, resent, times, forgot, excused, mixed,
                       letters, theirs, confirmed, lastId>>
    BY <1>0, <1>1, <2>0 DEF Session!SendAlone, Session!Put, Session!Going, Session!MayGo, Session!client,
       Session!history
  <2>2. m \in ServerIds
    BY <1>0, SessionConstants
  <2>3. /\ p \in PacketType /\ p.session = theirs /\ p.kind = "message" /\ p.id = m /\ p.m = m
    BY <1>0, <2>0, <2>2 DEF Session!Packet, PacketType
  <2>4. sentIn'[m] = theirs
    BY <1>0, <2>1
  <2>5. PacketRight(p)'
    BY <1>0, <2>1, <2>3, <2>4 DEF PacketRight, Carries
  <2>6. lastId' \in 0..(MaxId + 1) /\ {m} \in SUBSET MessageIds /\ \A k \in {m} : sentIn[k] \in {0, theirs}
    BY <1>0, <2>1
  <2> QED BY <2>1, <2>3, <2>5, <2>6, PutKeeps
<1>2. CASE Session!SendInfo(m)
  <2>0. PICK p : p = Session!Packet("info", MaxMessages + lastId + 1, m, <<>>)
    OBVIOUS
  <2>1. /\ packets' = Append(packets, p) /\ sentIn[m] = theirs /\ m \in Answers /\ lastId < MaxId
        /\ lastId' = lastId + 1
        /\ UNCHANGED <<session, processed, toConfirm, running, resent, times, forgot, excused, mixed,
                       letters, theirs, confirmed, sentIn>>
    BY <1>2, <2>0 DEF Session!SendInfo, Session!Put, Session!client, Session!history
  <2>2. MaxMessages + lastId + 1 \in ServiceIds /\ MaxMessages + lastId + 1 \in ServerIds
    BY <1>0, <2>1 DEF ServiceIds, ServerIds
  <2>3. /\ p \in PacketType /\ p.session = theirs /\ p.kind = "info" /\ p.id \in ServiceIds /\ p.m = m
    BY <1>0, <2>0, <2>2 DEF Session!Packet, PacketType
  <2>4. PacketRight(p)'
    BY <1>0, <2>1, <2>3 DEF PacketRight
  <2>5. sentIn' = [k \in MessageIds |-> IF k \in {} /\ sentIn[k] = 0 THEN theirs ELSE sentIn[k]]
    BY <1>0, <2>1
  <2>6. lastId' \in 0..(MaxId + 1) /\ {} \in SUBSET MessageIds
    BY <1>0, <2>1
  <2> QED BY <2>1, <2>3, <2>4, <2>5, <2>6, PutKeeps
<1>3. ASSUME NEW k \in 0..MaxMessages, Session!SendContainer(k, m)
      PROVE  SessionInv'
  <2>a. PICK first : first = IF k = 0 THEN Session!Inner("badMsg", MaxMessages + lastId + 1, 0)
                             ELSE Session!Inner("message", k, k)
    OBVIOUS
  <2>b. PICK second : second = Session!Inner("message", m, m)
    OBVIOUS
  <2>0. PICK p : p = Session!Packet("container", MaxMessages + lastId + 2, 0, <<first, second>>)
    OBVIOUS
  <2>1. /\ packets' = Append(packets, p) /\ sentIn[m] \in {0, theirs} /\ lastId < MaxId
        /\ k = 0 => session < MaxSessions /\ theirs = session
        /\ k # 0 => sentIn[k] = theirs
        /\ lastId' = lastId + 2
        /\ sentIn' = [j \in MessageIds |-> IF j \in {m} /\ sentIn[j] = 0 THEN theirs ELSE sentIn[j]]
        /\ UNCHANGED <<session, processed, toConfirm, running, resent, times, forgot, excused, mixed,
                       letters, theirs, confirmed>>
    BY <1>0, <1>3, <2>0, <2>a, <2>b DEF Session!SendContainer, Session!Put, Session!Going, Session!MayGo, Session!client,
       Session!history
  <2>2. /\ MaxMessages + lastId + 1 \in ServiceIds /\ MaxMessages + lastId + 1 \in ServerIds
        /\ MaxMessages + lastId + 2 \in ServiceIds /\ MaxMessages + lastId + 2 \in ServerIds
        /\ m \in ServerIds /\ (k # 0 => k \in MessageIds /\ k \in ServerIds)
    BY <1>0, <2>1 DEF ServiceIds, ServerIds
  <2>3. /\ first \in InnerType
        /\ k = 0 => first.kind = "badMsg" /\ first.id \in ServiceIds
        /\ k # 0 => first.kind = "message" /\ first.id = k /\ first.m = k
    BY <1>0, <2>2, <2>a DEF Session!Inner, InnerType
  <2>4. second \in InnerType /\ second.kind = "message" /\ second.id = m /\ second.m = m
    BY <1>0, <2>2, <2>b DEF Session!Inner, InnerType
  <2>5. /\ p \in PacketType /\ p.session = theirs /\ p.kind = "container" /\ p.id \in ServiceIds
        /\ p.inner \in InnerType \X InnerType /\ p.inner[1] = first /\ p.inner[2] = second
    BY <1>0, <2>0, <2>2, <2>3, <2>4 DEF Session!Packet, PacketType
  <2>6. sentIn'[m] = theirs /\ (k # 0 => sentIn'[k] = theirs)
    BY <1>0, <2>1, <2>2
  <2>7. PacketRight(p)'
    <3>1. FirstRight(first, theirs)'
      BY <1>0, <2>1, <2>2, <2>3, <2>6 DEF FirstRight, Carries
    <3>2. SecondRight(second, theirs)'
      BY <1>0, <2>1, <2>4, <2>6 DEF SecondRight, Carries
    <3> QED BY <1>0, <2>1, <2>5, <3>1, <3>2 DEF PacketRight, FirstRight, SecondRight, Carries
  <2>8. lastId' \in 0..(MaxId + 1) /\ {m} \in SUBSET MessageIds /\ \A j \in {m} : sentIn[j] \in {0, theirs}
    BY <1>0, <2>1
  <2> QED BY <2>1, <2>5, <2>7, <2>8, PutKeeps
<1> QED BY <1>1, <1>2, <1>3

-----------------------------------------------------------------------------
\* The invariant holds at the beginning.
LEMMA SessionInitInv == Session!Init => SessionInv
<1> SUFFICES ASSUME Session!Init PROVE SessionInv
  OBVIOUS
<1> DEFINE d == Session!Context
           none == [m \in MessageIds |-> 0]
<1>0. /\ session = 1 /\ processed = <<>> /\ toConfirm = {} /\ running = Answers /\ resent = {}
      /\ packets = <<>> /\ letters = <<>> /\ theirs = 1 /\ sentIn = none
      /\ confirmed = {} /\ lastId = 0 /\ times = none /\ forgot = {} /\ excused = {} /\ mixed = {}
  BY SessionConstants DEF Session!Init
<1>1. /\ d = [session |-> 1, processed |-> <<>>, toConfirm |-> {}, wanted |-> Answers, resent |-> {},
              calls |-> none, forgot |-> {}, excused |-> {}, mixed |-> {}, asks |-> {}]
      /\ none \in [MessageIds -> Nat] /\ <<>> \in Seq(ServerIds) /\ 1 \in 1..MaxSessions
      /\ none \in [MessageIds -> 0..MaxSessions]
  BY <1>0, SessionConstants DEF Session!Context
<1>2. \A m \in MessageIds : none[m] = 0
  OBVIOUS
<1> HIDE DEF d, none
<1>3. /\ d \in ContextType /\ d.session = 1 /\ d.processed = <<>> /\ d.toConfirm = {}
      /\ d.calls = none
  BY <1>1 DEF ContextType
<1>4. ContextRight(d)
  <2>1. Len(d.processed) <= Kept + 1 /\ ToSet(d.processed) = {}
    BY <1>3, SessionConstants DEF ToSet
  <2> QED BY <1>2, <1>3, <2>1 DEF ContextRight, CalledOnce, Remembers, RemembersDone, ConfirmsDone,
             ConfirmsItsOwn
<1>5. ServerRight
  BY <1>0, <1>1, <1>2, SessionConstants DEF ServerRight
<1>6. /\ packets \in Seq(PacketType) /\ \A i \in 1..Len(packets) : PacketRight(packets[i])
      /\ letters \in Seq(LetterType) /\ \A i \in 1..Len(letters) : LetterRight(letters[i])
  BY <1>0
<1> QED BY <1>4, <1>5, <1>6 DEF SessionInv, d

\* Every step keeps it.
LEMMA SessionNextInv == SessionInv /\ [Session!Next]_Session!vars => SessionInv'
<1> SUFFICES ASSUME SessionInv, [Session!Next]_Session!vars PROVE SessionInv'
  OBVIOUS
<1>1. CASE UNCHANGED Session!vars
  <2>1. /\ Session!Become(Session!Context)
        /\ UNCHANGED <<theirs, sentIn, confirmed, lastId, letters, packets>>
    BY <1>1 DEF Session!vars, Session!client, Session!server, Session!history, Session!Become,
       Session!Context
  <2>2. ContextRight(Session!Context) /\ Grows(Session!Context, Session!Context)
    BY ContextNow
  <2> QED BY <2>1, <2>2, QuietlyKeeps
<1>2. CASE Session!Client
  BY <1>2, ReceiveKeeps, ReceiveAgainKeeps, OtherReceivesKeep DEF Session!Client
<1>3. CASE Session!Repeats
  BY <1>3, ServerSendsKeep DEF Session!Repeats
<1>4. CASE Session!Tick \/ Session!SendRequest
  BY <1>4, OtherReceivesKeep
<1>5. CASE Session!Recreate
  BY <1>5, RequestsKeep
<1>6. CASE Session!Drop \/ Session!Reopen
  BY <1>6, ConnectionsKeep
<1>7. CASE Session!TakeLetter
  BY <1>7, TakeLetterKeeps
<1>8. ASSUME NEW m \in Session!Messages,
             Session!ForgetRequest(m) \/ Session!MinutePasses(m) \/ Session!SendInfo(m)
      PROVE  SessionInv'
  BY <1>8, RequestsKeep, ServerSendsKeep
<1>9. ASSUME NEW m \in Session!Messages, NEW k \in 0..MaxMessages, Session!SendContainer(k, m)
      PROVE  SessionInv'
  BY <1>9, ServerSendsKeep
<1> QED BY <1>1, <1>2, <1>3, <1>4, <1>5, <1>6, <1>7, <1>8, <1>9 DEF Session!Next

\* It says that what is promised is kept.
LEMMA SessionInvIsSafe == SessionInv => SessionIsSafe
<1> SUFFICES ASSUME SessionInv PROVE SessionIsSafe
  OBVIOUS
<1> DEFINE d == Session!Context
<1>1. /\ d \in ContextType /\ Len(d.processed) <= Kept + 1 /\ CalledOnce(d) /\ ConfirmsItsOwn(d)
  BY DEF SessionInv, ContextRight
<1>2. /\ d.session = session /\ d.processed = processed /\ d.toConfirm = toConfirm
      /\ d.wanted = running /\ d.resent = resent /\ d.calls = times /\ d.forgot = forgot
      /\ d.excused = excused /\ d.mixed = mixed
  BY DEF Session!Context
<1>3. /\ theirs \in 1..session /\ sentIn \in [MessageIds -> 0..MaxSessions]
      /\ confirmed \subseteq MessageIds /\ \A m \in confirmed : Done(d, m)
  BY DEF SessionInv, ServerRight
<1> HIDE DEF d
<1>4. Session!TypeOK
  BY <1>1, <1>2, <1>3, SessionConstants DEF Session!TypeOK, ContextType, ServerIds
<1>5. Session!ProcessedOnce
  BY <1>1, <1>2, SessionConstants DEF Session!ProcessedOnce, CalledOnce
<1>6. Session!ConfirmedIsProcessed
  BY <1>2, <1>3 DEF Session!ConfirmedIsProcessed, Done
<1>7. Session!ConfirmsItsSession
  BY <1>1, <1>2 DEF Session!ConfirmsItsSession, ConfirmsItsOwn
<1> QED BY <1>4, <1>5, <1>6, <1>7 DEF SessionIsSafe, Session!SessionSafe

\* Whatever packets and confirmations are lost, however often the server repeats
\* a message and whenever a session ends, each message is processed once, and the
\* server is told of it only when it was (ConnectionContext, and
\* ConnectionsManager.tcpConnectionReceivedData and processMessage).
THEOREM SessionsAreSafe == Session!Spec => []SessionIsSafe
<1>1. Session!Init => SessionInv
  BY SessionInitInv
<1>2. SessionInv /\ [Session!Next]_Session!vars => SessionInv'
  BY SessionNextInv
<1>3. SessionInv => SessionIsSafe
  BY SessionInvIsSafe
<1> QED BY <1>1, <1>2, <1>3, PTL DEF Session!Spec
=============================================================================
