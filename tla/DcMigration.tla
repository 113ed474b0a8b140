----------------------------- MODULE DcMigration -----------------------------
(***************************************************************************)
(* Datacenters: a request is redirected to another one (303), an           *)
(* authorization is exported to it and imported there, keys are agreed,    *)
(* and what a datacenter refuses for want of an authorization (401) waits  *)
(* for one.  The sending of requests is that of RpcEngine, without its     *)
(* timeouts: a request is asked, sent, perhaps taken back to be sent       *)
(* again, and answered; its completion is its removal.                     *)
(*                                                                         *)
(* Everything happens on the stage thread.  The state is one record, cm,   *)
(* and a method is an operator from one record to the next, so that a      *)
(* handler is the composition of the calls it makes.                       *)
(***************************************************************************)
EXTENDS Integers, Sequences, FiniteSets, SequencesExt

CONSTANTS
  Dcs,          \* ids of datacenters, from 1
  Users,        \* generic requests, to whatever datacenter is current; those of
                \* the login while nobody is logged in
  Medias,       \* downloads and uploads,
  MediaDc,      \* and the datacenter of each
  Saved,        \* what was saved before the process began: datacenters in the
                \* list (known), those with a key (keys), those that imported an
                \* authorization (authorized); and whether somebody is logged in
  MaxRedirects, MaxFaults, MaxUpdates, MaxLogouts  \* bounds: what the world does

ASSUME DcsAssumption ==
  /\ Dcs \subseteq Nat \ {0}
  /\ \A s \in Saved : /\ 1 \in s.known /\ s.known \subseteq Dcs
                      /\ s.keys \subseteq s.known /\ s.authorized \subseteq s.keys
                      /\ s.loggedIn \in BOOLEAN
  /\ Users \cap Medias = {} /\ MediaDc \in [Medias -> Dcs]
ASSUME BoundAssumption == {MaxRedirects, MaxFaults, MaxUpdates, MaxLogouts} \subseteq Nat

DEFAULT == 0                        \* DEFAULT_DATACENTER_ID, no datacenter's id

VARIABLES
  cm,           \* ConnectionsManager, see Init
  timers,       \* runnables posted with a delay
  wire          \* messages sent and not answered: request, datacenter, and whether
                \* the request still runs under that message's id
VARIABLES       \* the server and the user, external to the source
  granted,      \* datacenters where the user is authorized, as the server knows
  world         \* what is left of the bounds
VARIABLES       \* history
  calls,        \* times a completion block ran
  refused,      \* media requests answered 401
  loggedOut,    \* nobody was logged in for a while
  overlapped,   \* an authorization was exported for a move while one was on its way
  failed        \* a request of a move failed: an export, an import, the list

vars == <<cm, timers, wire, granted, world, calls, refused, loggedOut, overlapped, failed>>
history == <<calls, refused, loggedOut, overlapped, failed>>

-----------------------------------------------------------------------------
(* Requests.  n tells those of a kind apart, arg is what they carry. *)

Request(kind, n, dc, arg) == [kind |-> kind, n |-> n, dc |-> dc, arg |-> arg]
Asked(r) == IF r \in Medias THEN Request("media", r, MediaDc[r], 0)
            ELSE Request(IF cm.activated THEN "user" ELSE "login", r, DEFAULT, 0)

MoveKinds == {"moveExport", "moveImport"}
Generic == {"user", "login"}
Own == Generic \cup {"media"}                          \* the application's
WithoutLogin == MoveKinds \cup {"import", "config", "login"}  \* RPCRequestClassWithoutLogin
EnableUnauthorized == {"import", "config"}            \* RPCRequestClassEnableUnauthorized

PerformRpc(s, q) ==
  IF s.activated \/ q.kind \in WithoutLogin
  THEN [s EXCEPT !.posted = Append(@, [op |-> "perform", q |-> q])] ELSE s

DatacenterWithId(s, d) == IF d = DEFAULT THEN s.current ELSE d

(* clearRequestsForRequestClass, of every class. *)
Clear(s, d) ==
  [s EXCEPT !.sent = { q \in @ : DatacenterWithId(s, q.dc) # d }]

UpdateDcSettings(s) ==
  IF s.updating THEN s
  ELSE PerformRpc([s EXCEPT !.updating = TRUE], Request("config", 0, s.current, 0))

-----------------------------------------------------------------------------
(* processRequestQueue: what may be sent is, and what keeps the rest from   *)
(* being sent is set going.                                                 *)

Free(s) == { q \in s.requests : q.dc # DEFAULT \/ s.moving = DEFAULT }
At(s, q) == DatacenterWithId(s, q.dc)
Barred(s, q) ==
  /\ At(s, q) \notin s.authorized /\ q.dc \notin {DEFAULT, s.current}
  /\ q.kind \notin EnableUnauthorized
Ready(s) == { q \in Free(s) : At(s, q) \in s.keys /\ ~Barred(s, q) }

NeededDcs(s) == { At(s, q) : q \in Free(s) } \cap (s.known \ s.keys)
UnauthorizedDcs(s) == { At(s, q) : q \in { x \in Free(s) : At(s, x) \in s.keys /\ Barred(s, x) } }

BeginExport(s, d) == PerformRpc(s, Request("export", d, DEFAULT, d))

(* A new ExportAuthorizationAction for each, unless one is in the queue.    *)
ExportsFor(s, ds) ==
  LET new == { d \in ds \ {s.current, s.moving} : \A a \in s.exports : a.dc # d } IN
  IF ~s.activated THEN s
  ELSE FoldLeft(BeginExport,
         [s EXCEPT !.exports = @ \cup { [dc |-> d, retryCount |-> 0] : d \in new }],
         SetToSeq(new))

ProcessRequestQueue(s) ==
  LET ask == \E q \in Free(s) : At(s, q) \notin s.known
      s1  == ExportsFor(IF ask THEN UpdateDcSettings(s) ELSE s, UnauthorizedDcs(s))
  IN [s1 EXCEPT !.shaking = @ \cup (NeededDcs(s) \ {s.moving}), !.sent = @ \cup Ready(s),
                !.out = @ \cup { [q |-> q, at |-> At(s, q)] : q \in Ready(s) \ s.sent }]

-----------------------------------------------------------------------------
(* Moving. *)

(* recreateSessions: what was sent to d before is answered to nobody.       *)
RecreateSessions(s, d) == [s EXCEPT !.fresh = @ \cup {d}]

(* (Mutant: the place moved to is not forgotten.) *)
AuthorizedOnMovingStays(s) ==
  ProcessRequestQueue([s EXCEPT !.movingAuthorization = 0, !.current = s.moving])

AuthorizedOnMovingDatacenter(s) ==
  ProcessRequestQueue([s EXCEPT !.movingAuthorization = 0, !.current = s.moving, !.moving = DEFAULT])

AuthorizeOnMovingDatacenter(s) ==
  LET d  == DatacenterWithId(s, s.moving)
      s1 == Clear(RecreateSessions(s, d), d)
      s2 == [s1 EXCEPT !.shaking = @ \cup ({d} \ s.keys)]
  IN IF d \notin s.known THEN UpdateDcSettings(s)
     ELSE IF s.movingAuthorization = 0 THEN AuthorizedOnMovingDatacenter(s2)
     ELSE PerformRpc(s2, Request("moveImport", s.tries, d, s.movingAuthorization))

(* (Mutant: no authorization is asked for.) *)
MoveToDatacenterUnasked(s, d) ==
  IF s.moving = d THEN s
  ELSE AuthorizeOnMovingDatacenter(Clear([s EXCEPT !.moving = d, !.tries = @ + 1], s.current))

MoveToDatacenter(s, d) ==
  LET s1 == Clear([s EXCEPT !.moving = d, !.tries = @ + 1], s.current) IN
  IF s.moving = d THEN s
  ELSE IF s.activated THEN PerformRpc(s1, Request("moveExport", s1.tries, s.current, d))
  ELSE AuthorizeOnMovingDatacenter(s1)

-----------------------------------------------------------------------------
(* A handler leaves the record s behind: new messages are on the wire, the  *)
(* old ones of a request taken back are nobody's, those of a session that   *)
(* was recreated are ignored.                                               *)
Messages(s, w) ==
  LET old == { [m EXCEPT !.live = @ /\ m.q \in s.sent /\ \A o \in s.out : o.q # m.q]
                 : m \in { x \in w : x.at \notin s.fresh } }
      new == { [q |-> o.q, at |-> o.at, live |-> o.q \in s.sent] : o \in s.out }
  IN { m \in old \cup new : m.live \/ m.q.kind \in Generic }

OnItsWay(s) ==
  \/ \E q \in s.requests : q.kind \in MoveKinds
  \/ \E i \in DOMAIN s.posted : s.posted[i].op = "perform" /\ s.posted[i].q.kind \in MoveKinds

Becomes(s, w) ==
  /\ cm' = [s EXCEPT !.sent = @ \cap s.requests, !.fresh = {}, !.out = {}]
  /\ wire' = Messages(s, w)
  /\ overlapped' = (overlapped \/ (s.tries > cm.tries /\ OnItsWay(cm)))

Ran == { r \in Users \cup Medias : \E q \in cm.requests : q.kind \in Own /\ q.n = r }

-----------------------------------------------------------------------------
(* Calls and runnables. *)

Perform(r) ==
  /\ r \notin cm.asked /\ (cm.activated \/ r \in Users)
  /\ cm' = PerformRpc([cm EXCEPT !.asked = @ \cup {r}], Asked(r))
  /\ UNCHANGED <<timers, wire, granted, world, history>>

Rest == [cm EXCEPT !.posted = Tail(@)]
HeadIs(op) == cm.posted # <<>> /\ Head(cm.posted).op = op

RunPerform ==
  /\ HeadIs("perform")
  /\ Becomes(ProcessRequestQueue([Rest EXCEPT !.requests = @ \cup {Head(cm.posted).q}]), wire)
  /\ UNCHANGED <<timers, granted, world, calls, refused, loggedOut, failed>>

RunDrop ==
  /\ HeadIs("drop")
  /\ cm' = [Rest EXCEPT !.exports = { a \in @ : a.dc # Head(cm.posted).dc }]
  /\ UNCHANGED <<timers, wire, granted, world, history>>

(* The stageRunnable; once in an hour it asks for the list of datacenters.  *)
Tick(hour) ==
  /\ cm.current \in cm.known
  /\ hour => world.updates > 0 /\ ~cm.updating /\ cm.current \in cm.keys
  /\ world' = IF hour THEN [world EXCEPT !.updates = @ - 1] ELSE world
  /\ LET s == IF hour THEN UpdateDcSettings(cm) ELSE cm IN
       Becomes(IF cm.current \in cm.keys THEN ProcessRequestQueue(s)
               ELSE [s EXCEPT !.shaking = @ \cup {cm.current}], wire)
  /\ UNCHANGED <<timers, granted, calls, refused, loggedOut, failed>>

HandshakeDone(d) ==
  /\ d \in cm.shaking
  /\ LET s == [cm EXCEPT !.keys = @ \cup {d}, !.shaking = @ \ {d}] IN
       Becomes(ProcessRequestQueue(IF d \in {cm.current, cm.moving}
                                   THEN Clear(RecreateSessions(s, d), d) ELSE s), wire)
  /\ UNCHANGED <<timers, granted, world, calls, refused, loggedOut, failed>>

RunTimer(t) ==
  /\ t \in timers
  /\ timers' = timers \ {t}
  /\ Becomes(IF t.op = "move" THEN MoveToDatacenter(cm, t.dc) ELSE BeginExport(cm, t.dc), wire)
  /\ UNCHANGED <<granted, world, calls, refused, loggedOut, failed>>

-----------------------------------------------------------------------------
(* Answers. *)

(* A 303 moves, whether or not the message is still that of its request.    *)
Redirected(m, d) ==
  /\ m \in wire /\ m.q.kind \in Generic /\ d \in Dcs \ {m.at}
  /\ world.redirects > 0 /\ world' = [world EXCEPT !.redirects = @ - 1]
  /\ Becomes(ProcessRequestQueue(MoveToDatacenter(cm, d)), wire \ {m})
  /\ UNCHANGED <<timers, granted, calls, refused, loggedOut, failed>>

(* Its request completed, q leaves the engine. *)
Without(q) == [cm EXCEPT !.requests = @ \ {q}, !.sent = @ \ {q}]

Fault(fault) ==
  IF fault THEN world.faults > 0 /\ world' = [world EXCEPT !.faults = @ - 1]
  ELSE UNCHANGED world

(* An application's request is answered, well or badly: its block runs.     *)
Answered(m) ==
  /\ m \in wire /\ m.live /\ m.q.kind \in Own /\ (m.q.kind = "login" \/ m.at \in granted)
  /\ calls' = [calls EXCEPT ![m.q.n] = @ + 1]
  /\ Becomes(ProcessRequestQueue(Without(m.q)), wire \ {m})
  /\ UNCHANGED <<timers, granted, world, refused, loggedOut, failed>>

(* 401 of a datacenter that is neither current nor moved to: the block runs *)
(* and the request stays, to be sent again.  Of the current one: logged out.*)
Unauthorized(m) ==
  /\ m \in wire /\ m.live /\ m.q.kind \in {"user", "media"}
  /\ Fault(m.at \in granted) /\ granted' = granted \ {m.at}
  /\ calls' = [calls EXCEPT ![m.q.n] = @ + 1]
  /\ refused' = refused \cup {m.q.n}
  /\ Becomes(ProcessRequestQueue(
       IF m.at \in {cm.current, cm.moving}
       THEN [Without(m.q) EXCEPT !.activated = @ /\ m.q.kind = "media"]
       ELSE [cm EXCEPT !.authorized = @ \ {m.at}, !.sent = @ \ {m.q}]), wire \ {m})
  /\ loggedOut' = (loggedOut \/ ~cm'.activated)
  /\ UNCHANGED <<timers, failed>>

MoveExported(m, fault) ==
  /\ m \in wire /\ m.live /\ m.q.kind = "moveExport"
  /\ Fault(fault /\ m.q.arg # m.at)
  /\ IF fault
       THEN /\ timers' = timers \cup {[op |-> "move", dc |-> m.q.arg]}
            /\ Becomes(ProcessRequestQueue(Without(m.q)), wire \ {m})
       ELSE /\ Becomes(ProcessRequestQueue(AuthorizeOnMovingDatacenter(
                 [Without(m.q) EXCEPT !.movingAuthorization = m.q.arg])), wire \ {m})
            /\ UNCHANGED timers
  /\ failed' = (failed \/ fault)
  /\ UNCHANGED <<granted, calls, refused, loggedOut>>

(* An authorization is imported where it was exported for, not elsewhere.   *)
MoveImported(m, fault) ==
  /\ m \in wire /\ m.live /\ m.q.kind = "moveImport"
  /\ m.q.arg # m.at => fault
  /\ Fault(fault /\ m.q.arg = m.at)
  /\ granted' = IF fault THEN granted ELSE granted \cup {m.at}
  /\ LET s == [Without(m.q) EXCEPT !.movingAuthorization = 0] IN
       Becomes(ProcessRequestQueue(
         IF fault THEN MoveToDatacenter(s, s.moving) ELSE AuthorizedOnMovingDatacenter(s)), wire \ {m})
  /\ failed' = (failed \/ fault)
  /\ UNCHANGED <<timers, calls, refused, loggedOut>>

(* An attempt of an ExportAuthorizationAction failed. *)
Retry(s, d) ==
  LET last == [dc |-> d, retryCount |-> 2] \in s.exports IN
  [s EXCEPT !.exports = { IF a.dc = d THEN [a EXCEPT !.retryCount = @ + 1] ELSE a : a \in @ },
            !.posted = IF last THEN Append(@, [op |-> "drop", dc |-> d]) ELSE @]
RetryTimers(s, d) ==
  IF [dc |-> d, retryCount |-> 2] \in s.exports THEN {} ELSE {[op |-> "export", dc |-> d]}

Exported(m, fault) ==
  /\ m \in wire /\ m.live /\ m.q.kind = "export"
  /\ Fault(fault)
  /\ timers' = timers \cup (IF fault THEN RetryTimers(cm, m.q.arg) ELSE {})
  /\ Becomes(ProcessRequestQueue(
       IF fault THEN Retry(Without(m.q), m.q.arg)
       ELSE PerformRpc(Without(m.q), Request("import", m.q.arg, m.q.arg, m.q.arg))), wire \ {m})
  /\ UNCHANGED <<granted, calls, refused, loggedOut, failed>>

Imported(m, fault) ==
  /\ m \in wire /\ m.live /\ m.q.kind = "import"
  /\ Fault(fault)
  /\ timers' = timers \cup (IF fault THEN RetryTimers(cm, m.q.arg) ELSE {})
  /\ granted' = IF fault THEN granted ELSE granted \cup {m.at}
  /\ Becomes(ProcessRequestQueue(
       IF fault THEN Retry(Without(m.q), m.q.arg)
       ELSE [Without(m.q) EXCEPT !.authorized = @ \cup {m.q.arg},
                                 !.posted = Append(@, [op |-> "drop", dc |-> m.q.arg])]), wire \ {m})
  /\ UNCHANGED <<calls, refused, loggedOut, failed>>

(* The list of datacenters: a move to one of them begins anew.              *)
Configured(m, fault) ==
  /\ m \in wire /\ m.live /\ m.q.kind = "config"
  /\ Fault(fault)
  /\ LET s == [Without(m.q) EXCEPT !.known = IF fault THEN @ ELSE Dcs]
         t == IF fault \/ s.moving = DEFAULT THEN s
              ELSE MoveToDatacenter([s EXCEPT !.moving = DEFAULT], s.moving)
     IN Becomes(ProcessRequestQueue([t EXCEPT !.updating = FALSE]), wire \ {m})
  /\ failed' = (failed \/ (fault /\ cm.moving # DEFAULT))
  /\ UNCHANGED <<timers, granted, calls, refused, loggedOut>>

-----------------------------------------------------------------------------
(* The user. *)

LogOut ==
  /\ cm.activated /\ world.logouts > 0
  /\ world' = [world EXCEPT !.logouts = @ - 1]
  /\ cm' = [cm EXCEPT !.activated = FALSE, !.posted = Append(@, [op |-> "cleanUp"])]
  /\ granted' = {}
  /\ loggedOut' = TRUE
  /\ UNCHANGED <<timers, wire, calls, refused, overlapped, failed>>

(* The request to sign in waits, as any other, for a move to end.           *)
SignIn ==
  /\ ~cm.activated /\ cm.moving = DEFAULT /\ cm.current \in cm.keys /\ cm.posted = <<>>
  /\ cm' = [cm EXCEPT !.activated = TRUE, !.posted = Append(@, [op |-> "cleanUp"])]
  /\ granted' = {cm.current}
  /\ UNCHANGED <<timers, wire, world, history>>

(* Every request fails, each block runs, nobody is authorized.              *)
RunCleanUp ==
  /\ HeadIs("cleanUp")
  /\ LET tries == { q.arg : q \in { x \in cm.requests : x.kind \in {"export", "import"} } }
         moves == { q \in cm.requests : q.kind \in MoveKinds }
         list  == \E q \in cm.requests : q.kind = "config"
         s == [Rest EXCEPT !.requests = {}, !.sent = {}, !.authorized = {}, !.fresh = Dcs,
                 !.updating = @ /\ ~list,
                 !.movingAuthorization = IF \E q \in moves : q.kind = "moveImport" THEN 0 ELSE @]
     IN /\ Becomes(FoldLeft(Retry, s, SetToSeq(tries)), wire)
        /\ timers' = timers \cup UNION { RetryTimers(cm, d) : d \in tries }
             \cup { [op |-> "move", dc |-> q.arg] : q \in { x \in moves : x.kind = "moveExport" } }
        /\ failed' = (failed \/ moves # {} \/ (list /\ cm.moving # DEFAULT))
        /\ calls' = [r \in Users \cup Medias |-> IF r \in Ran THEN calls[r] + 1 ELSE calls[r]]
  /\ UNCHANGED <<granted, world, refused, loggedOut>>

-----------------------------------------------------------------------------
Init ==
  \E s \in Saved :
  /\ cm = [current |-> 1, moving |-> DEFAULT, movingAuthorization |-> 0,
           activated |-> s.loggedIn, updating |-> FALSE,   \* updatingDcSettings
           known |-> s.known, keys |-> s.keys, authorized |-> s.authorized,
           requests |-> {},       \* requestQueue and runningRequests,
           sent |-> {},           \* those of them with a message id
           shaking |-> {}, exports |-> {},   \* actionQueue
           posted |-> <<>>,       \* the stage queue
           tries |-> 0,           \* moves begun
           fresh |-> {}, out |-> {},         \* in a handler: datacenters with new sessions, messages sent
           asked |-> {}]          \* history: what the application asked for
  /\ timers = {} /\ wire = {}
  /\ granted \in IF s.loggedIn THEN { {1} \cup g : g \in SUBSET s.authorized } ELSE {{}}
  /\ world = [redirects |-> MaxRedirects, faults |-> MaxFaults,
              updates |-> MaxUpdates, logouts |-> MaxLogouts]
  /\ calls = [r \in Users \cup Medias |-> 0] /\ refused = {}
  /\ loggedOut = FALSE /\ overlapped = FALSE /\ failed = FALSE

Answer(m) ==
  \/ Answered(m) \/ Unauthorized(m)
  \/ \E fault \in BOOLEAN :
       \/ MoveExported(m, fault) \/ MoveImported(m, fault)
       \/ Exported(m, fault) \/ Imported(m, fault) \/ Configured(m, fault)

RunHead == RunPerform \/ RunDrop \/ RunCleanUp

Next ==
  \/ RunHead \/ LogOut \/ SignIn
  \/ \E r \in Users \cup Medias : Perform(r)
  \/ \E hour \in BOOLEAN : Tick(hour)
  \/ \E d \in Dcs : HandshakeDone(d)
  \/ \E t \in timers : RunTimer(t)
  \/ \E m \in wire : Answer(m) \/ \E d \in Dcs : Redirected(m, d)

Spec == Init /\ [][Next]_vars

(* The threads run, keys are agreed, requests answered and timers fire; the *)
(* world need not redirect, fail or log out.                                *)
Work ==
  \/ RunHead \/ Tick(FALSE)
  \/ \E d \in Dcs : HandshakeDone(d)
  \/ \E t \in timers : RunTimer(t)
  \/ \E m \in wire : Answer(m)
Fairness == WF_vars(Work)

FairSpec == Spec /\ Fairness

-----------------------------------------------------------------------------
(* Properties. *)

Ids == Users \cup Medias \cup Nat
RequestType == [kind : Own \cup {"export"} \cup WithoutLogin, n : Ids, dc : Dcs \cup {DEFAULT}, arg : Nat]
Runnables == [op : {"perform"}, q : RequestType] \cup [op : {"drop"}, dc : Dcs] \cup [op : {"cleanUp"}]

TypeOK ==
  /\ cm.current \in Dcs \cup {DEFAULT} /\ cm.moving \in Dcs \cup {DEFAULT}
  /\ cm.movingAuthorization \in Dcs \cup {0}
  /\ {cm.activated, cm.updating} \subseteq BOOLEAN
  /\ cm.keys \subseteq cm.known /\ cm.known \subseteq Dcs /\ cm.authorized \subseteq Dcs
  /\ cm.requests \subseteq RequestType /\ cm.sent \subseteq cm.requests
  /\ cm.shaking \subseteq Dcs /\ cm.exports \subseteq [dc : Dcs, retryCount : 0..3]
  /\ cm.posted \in Seq(Runnables)
  /\ timers \subseteq [op : {"move", "export"}, dc : Dcs]
  /\ wire \subseteq [q : RequestType, at : Dcs, live : BOOLEAN]
  /\ granted \subseteq Dcs /\ refused \subseteq Medias \cup Users
  /\ {loggedOut, overlapped, failed} \subseteq BOOLEAN

(* currentDatacenterId is a datacenter's, unless two moves overlapped: the  *)
(* second import to succeed takes the place moved to from a move that is    *)
(* over, and makes DEFAULT_DATACENTER_ID current for good.                  *)
CurrentIsReal == cm.current \in cm.known \/ overlapped

(* Who is logged in is authorized where the application sends its requests, *)
(* so that the move does not log them out by a 401, unless moves overlapped *)
(* or the server refused a download, which logs nobody out.                 *)
CurrentIsAuthorized ==
  cm.activated => cm.current \in granted \/ overlapped \/ refused \cap Medias # {}

(* A move that nothing carries on any more has failed once (its retry sees  *)
(* movingToDatacenterId set and returns), or waits for an import that is    *)
(* not sent because its datacenter is not authorized.                       *)
Stuck == failed \/ \E q \in cm.requests : q.kind = "moveImport" /\ Barred(cm, q)
Carried ==
  \/ OnItsWay([cm EXCEPT !.requests = { q \in @ : q \in cm.sent \/ ~Barred(cm, q) }])
  \/ cm.updating
MoveIsCarried ==
  cm.moving # DEFAULT => Carried \/ Stuck

(* A block runs again only for a request answered 401, which stays.         *)
RunsAgain == \A r \in Users \cup Medias : calls[r] > 1 => r \in refused

(* An ExportAuthorizationAction in the queue, which keeps others for its    *)
(* datacenter out, has something to end it, unless it went on while nobody  *)
(* was logged in.                                                           *)
Moves(d) ==
  \/ \E q \in cm.requests : q.kind \in {"export", "import"} /\ q.arg = d
  \/ \E i \in DOMAIN cm.posted :
       \/ cm.posted[i].op = "perform" /\ cm.posted[i].q.kind \in {"export", "import"} /\ cm.posted[i].q.arg = d
       \/ cm.posted[i].op = "drop" /\ cm.posted[i].dc = d
  \/ [op |-> "export", dc |-> d] \in timers
ExportsGoOn == ~loggedOut => \A a \in cm.exports : Moves(a.dc)

(* A move ends, unless it is one of those nothing carries on.               *)
EveryMoveEnds ==
  (cm.moving # DEFAULT) ~> (cm.moving = DEFAULT \/ Stuck)

(* A request is answered in the end, whatever it waits for, unless a move   *)
(* got stuck or its user logged out.                                        *)
EveryRequestAnswered ==
  \A r \in Users \cup Medias :
    (r \in cm.asked) ~> (calls[r] > 0 \/ loggedOut \/ (cm.moving # DEFAULT /\ Stuck))

(* What moves keep in every state: types, a current datacenter that is real *)
(* and authorized, a move and exports that go on, and blocks run once.      *)
MoveSafe ==
  /\ TypeOK /\ CurrentIsReal /\ CurrentIsAuthorized
  /\ MoveIsCarried /\ ExportsGoOn /\ RunsAgain

(* A move ends and every request is answered.                               *)
MoveEnds == EveryMoveEnds /\ EveryRequestAnswered
=============================================================================
