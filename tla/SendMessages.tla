---------------------------- MODULE SendMessages ----------------------------
(***************************************************************************)
(* A message from the user's hand to the server: SendMessagesHelper on the *)
(* UI thread, the answers on the stage queue, the rows of messages and     *)
(* randoms on the storage queue, and the check for unsent messages that    *)
(* runs when the process starts and whenever unsentMessages empties.       *)
(*                                                                         *)
(* A message is one thing to the user and several to the program: a row    *)
(* under its local id and later under the id the server gave it, and the   *)
(* objects that were made of it, the one the user wrote and those a check  *)
(* has loaded.  All of them are changed by three threads.                  *)
(*                                                                         *)
(* Left out: secret chats, forwarding several at once, conversion of       *)
(* videos.  Uploading (FileUploader), the engine (RpcEngine) and the       *)
(* server are external.                                                    *)
(***************************************************************************)
EXTENDS Integers, Sequences, FiniteSets, FiniteSetsExt, SequencesExt

CONSTANTS
  MaxMessages, \* bound: messages the user writes, numbered in that order
  Files,       \* how many uploads each message needs: 0, 1 or 2 (with a thumb)
  Blocked,     \* messages a retry finds no recipient for: a broadcast whose
               \* chat is not open, or a user who is not known
  MaxObjects,  \* bound: message objects in memory
  MaxRandom,   \* bound: random ids drawn
  MaxRefusals, \* bound: requests the server refuses, uploads that fail
  MaxCancels,  \* bound: messages the user cancels
  MaxRetries,  \* bound: messages the user sends again
  MaxAcks,     \* bound: quick acknowledgements that arrive
  MaxTold,     \* bound: own messages a difference tells of
  MaxCrash     \* bound: times the process is killed

Messages == 1..MaxMessages

ASSUME ParameterAssumption ==
  /\ MaxMessages \in Nat /\ Files \in [Messages -> 0..2] /\ Blocked \subseteq Messages
  /\ {MaxObjects, MaxRandom, MaxRefusals, MaxCancels, MaxRetries, MaxAcks, MaxTold, MaxCrash} \subseteq Nat

Objects == 1..MaxObjects
Randoms == 1..MaxRandom
Locs    == { l \in Messages \X {1, 2} : l[2] <= Files[l[1]] }

\* Local ids are negative; the server's id of a message is here the random id
\* it was accepted with.
Mids == { -m : m \in Messages } \cup Randoms

VARIABLES  \* the memory of the process
  objs,    \* message objects: the message, id, random_id, send_state, and
           \* whether local_id is set, which no database row has
  screen,  \* the object of each message the user wrote in this process; 0: none
  unsent,  \* the keys of unsentMessages
  delayed, \* delayedMessages: the objects waiting for each upload
  uploads, \* locations being uploaded
  request, \* of each object: "none", "asked", "accepted" or "refused"
  acked,   \* objects whose request had its quick acknowledgement
  storage, \* the storage queue
  ui       \* the queue of the UI thread

VARIABLES  \* the database
  rows,    \* send_state of the row of each mid, or "none"
  randoms  \* the mid of each random id; 0: no row

VARIABLES  \* the server, and what was drawn and used up
  server,  \* the message each random id was accepted for; 0: none
  told,    \* accepted random ids a difference has told the client about
  drawn,   \* random ids drawn
  sent,    \* messages the user has written
  count    \* refusals, cancels, retries, acknowledgements and crashes so far

VARIABLES  \* history, read by properties only
  doubled, \* messages a check loaded while another object of theirs was at work, or
           \* after they had been cancelled
  outrun,  \* messages whose row was written under the id of the server
  torn,    \* messages whose row was left without its random id by a crash
  early,   \* messages whose row was written as sent before the answer
  ghost,   \* messages whose local row could not become the server's
  dropped  \* messages cancelled before any request of theirs was made

queues   == <<storage, ui>>
sending  == <<delayed, uploads, request, acked>>
memory   == <<objs, screen, unsent, sending, queues>>
database == <<rows, randoms>>
outside  == <<server, told, drawn, sent, count>>
past     == <<doubled, outrun, torn, early, ghost, dropped>>
vars     == <<memory, database, outside, past>>

NoObject == [m |-> 0]

TasksOf(q, ks) == { q[i] : i \in { j \in 1..Len(q) : q[j].k \in ks } }

\* Objects something will still use.
InUse ==
  { o \in Objects : request[o] # "none" }
  \cup { screen[m] : m \in Messages }
  \cup UNION { ToSet(delayed[l]) : l \in Locs }
  \cup { t.o : t \in TasksOf(storage, {"put", "update"}) }
  \cup { t.o : t \in TasksOf(ui, {"done", "failed", "ack"}) }
  \cup UNION { ToSet(t.os) : t \in TasksOf(ui, {"unsent", "unsentRest"}) }

Free == Objects \ InUse

Accepting(m) == { r \in Randoms : server[r] = m }

\* A request was made for the message in this process, or has arrived.
Asked(m) ==
  Accepting(m) # {} \/ \E o \in Objects : objs[o].m = m /\ request[o] # "none"

Busy(m) == \E o \in InUse \cap Objects : objs[o].m = m

-----------------------------------------------------------------------------
(* SendMessagesHelper, on the UI thread. *)

\* processSentMessage's condition for a check.
ChecksUnsent(id) == unsent # {} /\ unsent \ {id} = {}

\* processSentMessage, after the storage task t.
ProcessSent(id, q) ==
  /\ unsent' = unsent \ {id}
  /\ storage' = IF ChecksUnsent(id) THEN Append(q, [k |-> "load"]) ELSE q

\* performSendMessageRequest.
Perform(o) ==
  /\ request' = [request EXCEPT ![o] = "asked"]
  /\ acked' = acked \ {o}

\* putToDelayedMessages and uploadFile, which does nothing for a location that
\* is being uploaded.
Delay(o, l, waiting) ==
  /\ delayed' = [waiting EXCEPT ![l] = Append(@, o)]
  /\ uploads' = uploads \cup {l}

\* (Mutant: a retry draws a new random id.)
SendMessageAnew(o, contents) ==
  LET obj == [contents EXCEPT !.state = "sending", !.random = drawn + 1]
  IN /\ drawn < MaxRandom
     /\ drawn' = drawn + 1
     /\ objs' = [objs EXCEPT ![o] = obj]
     /\ storage' = Append(storage, [k |-> "put", o |-> o])
     /\ IF Files[obj.m] = 0
        THEN Perform(o) /\ UNCHANGED <<delayed, uploads>>
        ELSE Delay(o, <<obj.m, 1>>, delayed) /\ UNCHANGED <<request, acked>>

\* sendMessage of object o, whose contents are given: its row is put, and its
\* request made or its file uploaded first.
SendMessage(o, contents) ==
  LET fresh == contents.random = 0
      obj   == [contents EXCEPT !.state = "sending",
                                !.random = IF fresh THEN drawn + 1 ELSE @]
  IN /\ fresh => drawn < MaxRandom
     /\ drawn' = IF fresh THEN drawn + 1 ELSE drawn
     /\ objs' = [objs EXCEPT ![o] = obj]
     /\ storage' = Append(storage, [k |-> "put", o |-> o])
     /\ IF Files[obj.m] = 0
        THEN Perform(o) /\ UNCHANGED <<delayed, uploads>>
        ELSE Delay(o, <<obj.m, 1>>, delayed) /\ UNCHANGED <<request, acked>>

\* The user does something between two runnables of the UI thread.
BetweenTasks == ui # <<>> => ui[1].k # "unsentRest"

\* The user writes a message.
UserSends(o) ==
  /\ BetweenTasks /\ sent < MaxMessages /\ o = Min(Free)
  /\ sent' = sent + 1
  /\ SendMessage(o, [m |-> sent + 1, id |-> -(sent + 1), local |-> TRUE, random |-> 0,
                     state |-> "sending"])
  /\ screen' = [screen EXCEPT ![sent + 1] = o]
  /\ UNCHANGED <<unsent, ui, database, server, told, count, past>>

\* The user sends a message again that is shown as failed.
UserRetries(m) ==
  /\ BetweenTasks /\ screen[m] # 0 /\ objs[screen[m]].state = "failed" /\ objs[screen[m]].id < 0
  /\ count.retries < MaxRetries /\ m \notin Blocked
  /\ count' = [count EXCEPT !.retries = @ + 1]
  /\ SendMessage(screen[m], objs[screen[m]])
  /\ UNCHANGED <<screen, unsent, ui, database, server, told, sent, past>>

\* processUnsentMessages, one message of the runnable at a time: the message is
\* noted in unsentMessages and sent.
RetriesUnsent ==
  /\ ui # <<>> /\ ui[1].k \in {"unsent", "unsentRest"}
  /\ LET o    == ui[1].os[1]
         rest == Tail(ui[1].os)
     IN /\ ui' = IF rest = <<>> THEN Tail(ui)
                 ELSE <<[k |-> "unsentRest", os |-> rest]>> \o Tail(ui)
        /\ unsent' = unsent \cup {objs[o].id}
        /\ SendMessage(o, objs[o])
        /\ objs[o].m \notin Blocked
  /\ UNCHANGED <<screen, database, server, told, sent, count, past>>

\* The same for a message sendMessage returns early from: it is dealt with by
\* processSentMessage and keeps its row.
RetriesBlocked ==
  /\ ui # <<>> /\ ui[1].k \in {"unsent", "unsentRest"}
  /\ LET o    == ui[1].os[1]
         rest == Tail(ui[1].os)
     IN /\ objs[o].m \in Blocked
        /\ ui' = IF rest = <<>> THEN Tail(ui)
                 ELSE <<[k |-> "unsentRest", os |-> rest]>> \o Tail(ui)
        /\ unsent' = unsent \ {objs[o].id}
        /\ storage' = IF unsent \ {objs[o].id} = {} THEN Append(storage, [k |-> "load"])
                      ELSE storage
  /\ UNCHANGED <<objs, screen, sending, database, outside, past>>

\* FileDidUpload: every message waiting for the location goes on to its thumb,
\* or to its request.
DidUpload ==
  /\ ui # <<>> /\ ui[1].k = "uploaded"
  /\ ui' = Tail(ui)
  /\ LET l    == ui[1].l
         next == <<l[1], 2>>
     IN IF l[2] < Files[l[1]] /\ delayed[l] # <<>>
        THEN /\ delayed' = [delayed EXCEPT ![l] = <<>>, ![next] = @ \o delayed[l]]
             /\ uploads' = uploads \cup {next}
             /\ UNCHANGED <<request, acked>>
        ELSE /\ delayed' = [delayed EXCEPT ![l] = <<>>]
             /\ request' = [ o \in Objects |-> IF o \in ToSet(delayed[l]) THEN "asked"
                                               ELSE request[o] ]
             /\ acked' = acked \ ToSet(delayed[l])
             /\ UNCHANGED uploads
  /\ UNCHANGED <<objs, screen, unsent, storage, database, outside, past>>

\* What markMessageAsSendError and processSentMessage make of the storage queue
\* and of unsentMessages.
GivenUp(was, o) ==
  [q |-> Append(was.q, [k |-> "error", id |-> objs[o].id])
         \o (IF was.un # {} /\ was.un \ {objs[o].id} = {} THEN <<[k |-> "load"]>> ELSE <<>>),
   un |-> was.un \ {objs[o].id}]

\* FileDidFailUpload: every message waiting for the location has failed.
DidFailUpload ==
  /\ ui # <<>> /\ ui[1].k = "notUploaded"
  /\ ui' = Tail(ui)
  /\ LET l   == ui[1].l
         now == FoldLeft(GivenUp, [q |-> storage, un |-> unsent], delayed[l])
     IN /\ delayed' = [delayed EXCEPT ![l] = <<>>]
        /\ objs' = [ o \in Objects |-> IF o \in ToSet(delayed[l])
                                        THEN [objs[o] EXCEPT !.state = "failed"] ELSE objs[o] ]
        /\ storage' = now.q /\ unsent' = now.un
  /\ UNCHANGED <<screen, uploads, request, acked, database, outside, past>>

\* cancelSendingMessage: the first object with the id is taken out of each
\* list, the upload of one list that empties is cancelled, and the row deleted.
UserCancels(m) ==
  LET id   == objs[screen[m]].id
      has(l)   == \E i \in 1..Len(delayed[l]) : objs[delayed[l][i]].id = id
      first(l) == Min({ i \in 1..Len(delayed[l]) : objs[delayed[l][i]].id = id })
      left(l)  == IF has(l) THEN RemoveAt(delayed[l], first(l)) ELSE delayed[l]
      emptied  == { l \in Locs : has(l) /\ left(l) = <<>> }
  IN /\ BetweenTasks /\ screen[m] # 0 /\ objs[screen[m]].state = "sending"
     /\ count.cancels < MaxCancels
     /\ count' = [count EXCEPT !.cancels = @ + 1]
     /\ delayed' = [l \in Locs |-> left(l)]
     /\ \/ emptied = {} /\ UNCHANGED uploads
        \/ \E l \in emptied : uploads' = uploads \ {l}
     /\ storage' = Append(storage, [k |-> "delete", id |-> id])
     /\ dropped' = IF Asked(m) THEN dropped ELSE dropped \cup {m}
     /\ screen' = [screen EXCEPT ![m] = 0]
     /\ UNCHANGED <<objs, unsent, request, acked, ui, database, server, told, drawn, sent,
                    doubled, outrun, torn, early, ghost>>

\* What the answer posts to the UI thread.
Done ==
  /\ ui # <<>> /\ ui[1].k = "done"
  /\ ui' = Tail(ui)
  /\ objs' = [objs EXCEPT ![ui[1].o].state = "sent"]
  /\ ProcessSent(ui[1].id, storage)
  /\ UNCHANGED <<screen, sending, database, outside, past>>

Failed ==
  /\ ui # <<>> /\ ui[1].k = "failed"
  /\ ui' = Tail(ui)
  /\ objs' = [objs EXCEPT ![ui[1].o].state = "failed"]
  /\ ProcessSent(objs[ui[1].o].id, storage)
  /\ UNCHANGED <<screen, sending, database, outside, past>>

QuickAck ==
  /\ ui # <<>> /\ ui[1].k = "ack"
  /\ ui' = Tail(ui)
  /\ objs' = [objs EXCEPT ![ui[1].o].state = "sent"]
  /\ UNCHANGED <<screen, unsent, sending, storage, database, outside, past>>

\* What a difference posts about an own message it found by its random id.
Corrected ==
  /\ ui # <<>> /\ ui[1].k = "corrected"
  /\ ui' = Tail(ui)
  /\ ProcessSent(ui[1].id, storage)
  /\ UNCHANGED <<objs, screen, sending, database, outside, past>>

-----------------------------------------------------------------------------
(* The completion block, on the stage queue. *)

Accepted(o) ==
  /\ request[o] = "accepted"
  /\ request' = [request EXCEPT ![o] = "none"] /\ acked' = acked \ {o}
  /\ objs' = [objs EXCEPT ![o].id = objs[o].random]
  /\ storage' = Append(storage, [k |-> "update", o |-> o, old |-> objs[o].id,
                                 new |-> objs[o].random])
  /\ UNCHANGED <<screen, unsent, delayed, uploads, ui, database, outside, past>>

\* (Mutant: the row of the message is not marked.)
RefusedSilently(o) ==
  /\ request[o] = "refused"
  /\ request' = [request EXCEPT ![o] = "none"] /\ acked' = acked \ {o}
  /\ ui' = Append(ui, [k |-> "failed", o |-> o])
  /\ UNCHANGED <<objs, screen, unsent, delayed, uploads, storage, database, outside, past>>

Refused(o) ==
  /\ request[o] = "refused"
  /\ request' = [request EXCEPT ![o] = "none"] /\ acked' = acked \ {o}
  /\ storage' = Append(storage, [k |-> "error", id |-> objs[o].id])
  /\ ui' = Append(ui, [k |-> "failed", o |-> o])
  /\ UNCHANGED <<objs, screen, unsent, delayed, uploads, database, outside, past>>

-----------------------------------------------------------------------------
(* MessagesStorage, on the storage queue. *)

\* putMessagesInternal's messageId: the local id if it is known.
MessageId(obj) == IF obj.local THEN -obj.m ELSE obj.id

\* The row is replaced first, with the state the object has by now, and the
\* random id after it, in a statement of its own.
PutRow(t) ==
  /\ t.k = "put"
  /\ LET obj == objs[t.o]
         mid == MessageId(obj)
     IN /\ rows' = [rows EXCEPT ![mid] = obj.state]
        /\ storage' = <<[k |-> "putRandom", r |-> obj.random, id |-> mid]>> \o Tail(storage)
        /\ outrun' = IF mid > 0 THEN outrun \cup {obj.m} ELSE outrun
        /\ early' = IF mid < 0 /\ obj.state = "sent" THEN early \cup {obj.m} ELSE early
  /\ UNCHANGED <<randoms, ui, objs, doubled, torn, ghost>>

PutRandom(t) ==
  /\ t.k = "putRandom"
  /\ randoms' = [randoms EXCEPT ![t.r] = t.id]
  /\ storage' = Tail(storage)
  /\ UNCHANGED <<rows, ui, objs, doubled, outrun, torn, early, ghost>>

\* The UPDATE of updateMessageStateAndIdInternal, which fails if there is a
\* row of the new id.
Renamed(old, new) ==
  IF rows[old] = "none" \/ (old # new /\ rows[new] # "none") THEN rows
  ELSE [rows EXCEPT ![old] = "none", ![new] = "sent"]

Ghosts(old, new) ==
  IF old < 0 /\ rows[old] # "none" /\ rows[new] # "none" THEN ghost \cup {-old} ELSE ghost

\* The storage runnable of the completion block: a message with a file comes
\* back whole and is put as well.
Update(t) ==
  /\ t.k = "update"
  /\ rows' = IF Files[objs[t.o].m] = 0 THEN Renamed(t.old, t.new)
             ELSE [Renamed(t.old, t.new) EXCEPT ![t.new] = "sent"]
  /\ ghost' = Ghosts(t.old, t.new)
  /\ ui' = Append(ui, [k |-> "done", o |-> t.o, id |-> t.old])
  /\ storage' = Tail(storage)
  /\ UNCHANGED <<randoms, objs, doubled, outrun, torn, early>>

\* The own message in a difference: its row is found by the random id and
\* renamed, and the message itself is put by a later runnable.
UpdateById(t) ==
  /\ t.k = "updateId"
  /\ LET old == randoms[t.r]
     IN IF old = 0
        THEN UNCHANGED <<rows, ghost, ui>>
        ELSE /\ rows' = Renamed(old, t.r)
             /\ ghost' = Ghosts(old, t.r)
             /\ ui' = Append(ui, [k |-> "corrected", id |-> old])
  /\ storage' = Append(Tail(storage), [k |-> "putServer", r |-> t.r])
  /\ UNCHANGED <<randoms, objs, doubled, outrun, torn, early>>

PutServer(t) ==
  /\ t.k = "putServer"
  /\ rows' = [rows EXCEPT ![t.r] = "sent"]
  /\ storage' = Tail(storage)
  /\ UNCHANGED <<randoms, ui, objs, doubled, outrun, torn, early, ghost>>

\* markMessageAsSendError and markMessagesAsDeleted.
MarkRow(t) ==
  /\ t.k \in {"error", "delete"}
  /\ rows' = [rows EXCEPT ![t.id] =
                IF @ = "none" \/ t.k = "delete" THEN "none" ELSE "failed"]
  /\ storage' = Tail(storage)
  /\ UNCHANGED <<randoms, ui, objs, doubled, outrun, torn, early, ghost>>

\* getUnsentMessages: an object for each local row that is being sent, oldest
\* message first, with the random id that leads to the row.
GetUnsent(t) ==
  /\ t.k = "load"
  /\ LET found == SelectSeq([m \in Messages |-> m], LAMBDA m : rows[-m] = "sending")
         slots == SubSeq(SetToSortSeq(Free, <), 1, Len(found))
         at(o) == CHOOSE i \in 1..Len(slots) : slots[i] = o
         leads(m) == { r \in Randoms : randoms[r] = -m }
     IN /\ Cardinality(Free) >= Len(found)
        /\ objs' = [ o \in Objects |->
             IF o \notin ToSet(slots) THEN IF o \in Free THEN NoObject ELSE objs[o]
             ELSE [m |-> found[at(o)], id |-> -found[at(o)], local |-> FALSE,
                   random |-> IF leads(found[at(o)]) = {} THEN 0 ELSE Max(leads(found[at(o)])),
                   state |-> "sending"] ]
        /\ ui' = IF found = <<>> THEN ui ELSE Append(ui, [k |-> "unsent", os |-> slots])
        /\ doubled' = doubled \cup { m \in ToSet(found) : Busy(m) \/ m \in dropped }
  /\ storage' = Tail(storage)
  /\ UNCHANGED <<rows, randoms, outrun, torn, early, ghost>>

StorageRuns ==
  /\ storage # <<>>
  /\ LET t == storage[1]
     IN \/ PutRow(t) \/ PutRandom(t) \/ Update(t) \/ UpdateById(t) \/ PutServer(t)
        \/ MarkRow(t) \/ GetUnsent(t)
  /\ UNCHANGED <<screen, unsent, sending, outside, dropped>>

-----------------------------------------------------------------------------
(* The server, the uploads and the process. *)

\* A random id is carried out once; a repetition has the same answer.
Serve(o) ==
  /\ request[o] = "asked"
  /\ \/ /\ request' = [request EXCEPT ![o] = "accepted"]
        /\ server' = [server EXCEPT ![objs[o].random] = objs[o].m]
        /\ UNCHANGED count
     \/ /\ server[objs[o].random] = 0 /\ count.refusals < MaxRefusals
        /\ request' = [request EXCEPT ![o] = "refused"]
        /\ count' = [count EXCEPT !.refusals = @ + 1]
        /\ UNCHANGED server
  /\ UNCHANGED <<objs, screen, unsent, delayed, uploads, acked, queues, database, told, drawn,
                 sent, past>>

Acknowledge(o) ==
  /\ request[o] # "none" /\ o \notin acked /\ count.acks < MaxAcks
  /\ count' = [count EXCEPT !.acks = @ + 1]
  /\ acked' = acked \cup {o}
  /\ ui' = Append(ui, [k |-> "ack", o |-> o])
  /\ UNCHANGED <<objs, screen, unsent, delayed, uploads, request, storage, database, server,
                 told, drawn, sent, past>>

UploadEnds(l) ==
  /\ l \in uploads
  /\ uploads' = uploads \ {l}
  /\ \/ ui' = Append(ui, [k |-> "uploaded", l |-> l]) /\ UNCHANGED count
     \/ /\ count.refusals < MaxRefusals
        /\ count' = [count EXCEPT !.refusals = @ + 1]
        /\ ui' = Append(ui, [k |-> "notUploaded", l |-> l])
  /\ UNCHANGED <<objs, screen, unsent, delayed, request, acked, storage, database, server, told,
                 drawn, sent, past>>

\* A difference tells of an own message whose answer never came.
Difference(r) ==
  /\ server[r] # 0 /\ r \notin told /\ Cardinality(told) < MaxTold
  /\ told' = told \cup {r}
  /\ storage' = Append(storage, [k |-> "updateId", r |-> r])
  /\ UNCHANGED <<objs, screen, unsent, sending, ui, database, server, drawn, sent, count, past>>

\* The process is killed: requests on their way may still arrive.  When it is
\* started again it looks for unsent messages.
Crash ==
  /\ count.crashes < MaxCrash
  /\ count' = [count EXCEPT !.crashes = @ + 1]
  /\ \E arrived \in SUBSET { o \in Objects : request[o] = "asked" } :
       server' = [ r \in Randoms |->
         IF \E o \in arrived : objs[o].random = r
         THEN objs[CHOOSE o \in arrived : objs[o].random = r].m ELSE server[r] ]
  /\ torn' = IF storage # <<>> /\ storage[1].k = "putRandom" /\ storage[1].id < 0
             THEN torn \cup {-storage[1].id} ELSE torn
  /\ objs' = [o \in Objects |-> NoObject] /\ screen' = [m \in Messages |-> 0]
  /\ unsent' = {} /\ delayed' = [l \in Locs |-> <<>>] /\ uploads' = {}
  /\ request' = [o \in Objects |-> "none"] /\ acked' = {}
  /\ storage' = <<[k |-> "load"]>> /\ ui' = <<>>
  /\ UNCHANGED <<database, told, drawn, sent, doubled, outrun, early, ghost, dropped>>

Init ==
  /\ objs = [o \in Objects |-> NoObject] /\ screen = [m \in Messages |-> 0]
  /\ unsent = {} /\ delayed = [l \in Locs |-> <<>>] /\ uploads = {}
  /\ request = [o \in Objects |-> "none"] /\ acked = {}
  /\ storage = <<[k |-> "load"]>> /\ ui = <<>>
  /\ rows = [i \in Mids |-> "none"] /\ randoms = [r \in Randoms |-> 0]
  /\ server = [r \in Randoms |-> 0] /\ told = {} /\ drawn = 0 /\ sent = 0
  /\ count = [refusals |-> 0, cancels |-> 0, retries |-> 0, acks |-> 0, crashes |-> 0]
  /\ doubled = {} /\ outrun = {} /\ torn = {} /\ early = {} /\ ghost = {} /\ dropped = {}

UiRuns ==
  \/ RetriesUnsent \/ RetriesBlocked \/ DidUpload \/ DidFailUpload
  \/ Done \/ Failed \/ QuickAck \/ Corrected

Next ==
  \/ \E o \in Free : UserSends(o)
  \/ \E m \in Messages : UserRetries(m) \/ UserCancels(m)
  \/ UiRuns \/ StorageRuns
  \/ \E o \in Objects : Accepted(o) \/ Refused(o) \/ Serve(o) \/ Acknowledge(o)
  \/ \E l \in Locs : UploadEnds(l)
  \/ \E r \in Randoms : Difference(r)
  \/ Crash

Spec == Init /\ [][Next]_vars

\* The queues are worked off, every request is answered and every upload ends:
\* what RpcEngine and FileUploader promise while there is a network.
Fairness ==
  /\ WF_vars(UiRuns) /\ WF_vars(StorageRuns)
  /\ \A o \in Objects : WF_vars(Accepted(o) \/ Refused(o)) /\ WF_vars(Serve(o))
  /\ \A l \in Locs : WF_vars(UploadEnds(l))

FairSpec == Spec /\ Fairness

-----------------------------------------------------------------------------
(* Properties. *)

States == {"none", "sending", "sent", "failed"}

\* The variables have their types, whatever is in a queue or in use has an object,
\* and every request has a random id.
TypeOK ==
  /\ \A o \in InUse \cap Objects : objs[o].m \in Messages /\ objs[o].id \in Mids
                                   /\ objs[o].state \in States \ {"none"}
  /\ \A o \in Objects : request[o] # "none" => objs[o].random \in Randoms
  /\ unsent \subseteq Mids
  /\ \A i \in 1..Len(ui) : ui[i].k \in {"unsent", "unsentRest"} => ui[i].os # <<>>
  /\ rows \in [Mids -> States] /\ randoms \in [Randoms -> Mids \cup {0}]
  /\ server \in [Randoms -> 0..MaxMessages] /\ drawn \in 0..MaxRandom

\* A message is delivered twice only if its row lost its random id: written
\* without it when the process died, or written under the id of the server, by
\* a copy that was put after it had been answered.
DeliveredOnce ==
  \A m \in Messages : Cardinality(Accepting(m)) > 1 => m \in outrun \cup torn

\* A row is not marked as sent while it has its local id, that is before the
\* server's answer, unless a quick acknowledgement came before the row was written:
\* such a message is not sent again if its answer is lost.
SentIsAccepted ==
  \A m \in Messages : rows[-m] = "sent" => m \in early

\* A row that is being sent is carried by something that will send it or mark
\* it: an object at work, or a runnable of either queue.  The row beside a row of
\* the server's id, and the row nobody can receive, wait for the next check.
AtWork(m) ==
  \/ \E o \in Objects : objs[o].m = m /\ request[o] # "none"
  \/ \E l \in Locs : l[1] = m /\ delayed[l] # <<>>
  \/ \E i \in 1..Len(storage) : storage[i].k # "putServer"
  \/ ui # <<>>

NothingForgotten ==
  \A m \in Messages : rows[-m] = "sending" => AtWork(m) \/ m \in ghost \cup Blocked

\* A message cancelled before any request of its was made is not sent later,
\* unless a check made a copy of it, before it was cancelled or because the
\* process died before its row was deleted.
CancelHolds ==
  \A m \in dropped \ doubled : Accepting(m) = {}

\* A row without a random id is sent under a new one at every check: here this
\* ends at the bound.
DrawnOut == drawn = MaxRandom

\* Every message ends: its row is not being sent for ever, unless it stands
\* beside a row of the server's id or nobody can receive it.
EveryMessageEnds ==
  \A m \in Messages :
    (rows[-m] = "sending") ~> (rows[-m] # "sending" \/ m \in ghost \cup Blocked \/ DrawnOut)

\* The checks come to an end, with the same exceptions.
ChecksEnd == <>[](TasksOf(storage, {"load"}) = {}) \/ <>(ghost \cup Blocked # {} \/ DrawnOut)

\* What sending keeps in every state: types, each message delivered once, marked
\* as sent once accepted, not forgotten while it is to be sent, and silent once it
\* is cancelled.
MessagesSafe == TypeOK /\ DeliveredOnce /\ SentIsAccepted /\ NothingForgotten /\ CancelHolds

\* Messages end, and so do the checks for unsent ones.
MessagesEnd == EveryMessageEnds /\ ChecksEnd
=============================================================================
