----------------------------- MODULE PacketReader -----------------------------
(***************************************************************************)
(* TcpConnection.readData: cutting the bytes of a socket into packets and  *)
(* quick acknowledgements.  Bytes come in pieces of any size; what is not  *)
(* yet whole is kept in restOfTheData, a buffer of the pool, and parsed    *)
(* there when more has come.                                               *)
(*                                                                         *)
(* A byte is named by the item of the stream it belongs to and its place   *)
(* in it.  A ByteBuffer is its bytes with a position and a limit.  The     *)
(* network thread runs the loop of readData one turn at a time; another    *)
(* thread may take a buffer from the pool in between.                      *)
(***************************************************************************)
EXTENDS Integers, Sequences, FiniteSets, FiniteSetsExt, SequencesExt

CONSTANTS
  Streams,    \* what the server may send: sequences of items
  Classes,    \* capacities of the buffers of the pool
  Scrap,      \* what is asked for an incomplete header: 16384
  MaxTaken    \* bound: buffers another thread takes from the pool

(* An item is [kind, words]: an "ack", or a packet of so many words with a  *)
(* "short" or a "long" header; "bad" announces a length that is refused.    *)
ItemsAssumption ==
  \A s \in Streams : \A i \in DOMAIN s :
    s[i].kind \in {"ack", "short", "long", "bad"} /\ s[i].words \in Nat
CapacitiesAssumption ==
  Classes \subseteq Nat /\ Scrap \in Nat /\ MaxTaken \in Nat

None == 0
Net == 1      \* PyroSelector.networkBuffer
Junk == [item |-> 0, off |-> 0]

VARIABLES
  stream, got,  \* what the server sends, and how many bytes of it were read
  pc,           \* "idle", "parse" in the loop, "closed", "wild" after junk
  heap, pool,   \* the ByteBuffers; those free, the oldest first
  rest, last,   \* restOfTheData, lastPacketLength
  buf, later,   \* the buffer parsed, parseLaterBuffer
  packets, acks \* what was posted to the delegate
VARIABLES       \* history
  kept,         \* acknowledgements parsed in restOfTheData
  astray,       \* a packet was measured from an acknowledgement before it
  taken         \* buffers another thread took

vars == <<stream, got, pc, heap, pool, rest, last, buf, later, packets, acks, kept, astray, taken>>

-----------------------------------------------------------------------------
(* The stream. *)

HeaderSize(item) == IF item.kind = "short" THEN 1 ELSE 4
BodySize(item) == 4 * item.words
BytesOf == [s \in Streams |->
  FlattenSeq([i \in DOMAIN s |-> [j \in 1..(HeaderSize(s[i]) + BodySize(s[i])) |->
                                    [item |-> i, off |-> j - 1]]])]
EndsOf == [s \in Streams |->
  [i \in DOMAIN s |-> MapThenSumSet(LAMBDA j : HeaderSize(s[j]) + BodySize(s[j]), 1..i)]]

Bytes == BytesOf[stream]
Header(i) == HeaderSize(stream[i])
Length(i) == BodySize(stream[i])
Size(i) == Header(i) + Length(i)
IsPacket(i) == stream[i].kind \in {"short", "long"}

(* ByteBuffer. *)
Capacity(b) == Len(b.data)
Remaining(b) == b.limit - b.pos
Unread(b) == SubSeq(b.data, b.pos + 1, b.limit)
Put(b, bytes) ==
  [b EXCEPT !.data = [k \in DOMAIN @ |-> IF k > b.pos /\ k <= b.pos + Len(bytes)
                                           THEN bytes[k - b.pos] ELSE @[k]],
            !.pos = @ + Len(bytes)]
Fresh(capacity, size) ==
  [data |-> [k \in 1..capacity |-> Junk], pos |-> 0, limit |-> size]

(* BuffersStorage.  A pool and its heap in one record. *)
Storage == [heap |-> heap, pool |-> pool]
ClassOf(size) ==
  LET fit == {c \in Classes : c >= size} IN IF fit = {} THEN size ELSE Min(fit)

\* getFreeBuffer
Free(m, size) ==
  {k \in DOMAIN m.pool : Capacity(m.heap[m.pool[k]]) = ClassOf(size)}
Got(m, size) ==
  IF Free(m, size) = {} THEN Len(m.heap) + 1 ELSE m.pool[Min(Free(m, size))]
Get(m, size) ==
  LET new == Fresh(ClassOf(size), size) IN
  IF Free(m, size) = {}
    THEN [m EXCEPT !.heap = Append(@, new)]
    ELSE [heap |-> [m.heap EXCEPT ![Got(m, size)] = new],
          pool |-> RemoveAt(m.pool, Min(Free(m, size)))]

\* reuseFreeBuffer: whoever reads the buffer from now on reads junk
Reuse(m, b) ==
  IF b = None THEN m
  ELSE [heap |-> [m.heap EXCEPT ![b].data = [k \in DOMAIN @ |-> Junk]],
        pool |-> IF Capacity(m.heap[b]) \in Classes THEN Append(m.pool, b) ELSE m.pool]

Store(m) == heap' = m.heap /\ pool' = m.pool

(* Nothing is read between two calls from the network buffer, nor from a    *)
(* free one.                                                                *)
Emptied(m) == [m EXCEPT !.heap[Net] = [data |-> <<>>, pos |-> 0, limit |-> 0]]
Settled(m) ==
  [Emptied(m) EXCEPT !.heap =
     [k \in DOMAIN @ |-> IF k \in ToSet(m.pool) \cup taken THEN Fresh(Capacity(@[k]), 0) ELSE @[k]]]
Return(m) == pc' = "idle" /\ buf' = None /\ later' = None /\ Store(Settled(m))

-----------------------------------------------------------------------------
(* readData, up to its loop. *)

Appended(m, bytes) ==   \* lastPacketLength = 0: more of a header or of an ack
  LET old == m.heap[rest]
      new == Get(m, old.limit + Len(bytes))
      id == Got(m, old.limit + Len(bytes)) IN
  IF Capacity(old) - old.pos >= Len(bytes)
    THEN [mem |-> [m EXCEPT !.heap[rest] =
                     Put([old EXCEPT !.limit = old.pos + Len(bytes)], bytes)],
          rest |-> rest]
    ELSE [mem |-> Reuse([new EXCEPT !.heap[id] =
                           Put(@, SubSeq(old.data, 1, old.limit) \o bytes)], rest),
          rest |-> id]

Received(n) ==
  LET bytes == SubSeq(Bytes, got + 1, got + n) IN
  [Storage EXCEPT !.heap[Net] = [data |-> bytes, pos |-> 0, limit |-> n]]

Receive(n) ==
  /\ pc = "idle" /\ got + n <= Len(Bytes)
  /\ got' = got + n
  /\ UNCHANGED <<stream, last, packets, acks, kept, astray, taken>>

ReceiveFirst(n) ==
  /\ rest = None /\ Receive(n)
  /\ pc' = "parse" /\ buf' = Net /\ later' = None /\ Store(Received(n))
  /\ UNCHANGED rest

ReceiveMore(n) ==
  /\ rest # None /\ last = 0 /\ Receive(n)
  /\ LET a == Appended(Received(n), SubSeq(Bytes, got + 1, got + n)) IN
       /\ rest' = a.rest /\ buf' = a.rest
       /\ Store(Emptied([a.mem EXCEPT !.heap[a.rest].pos = 0]))
  /\ pc' = "parse" /\ later' = None

ReceiveBody(n) ==
  /\ rest # None /\ last # 0 /\ Receive(n)
  /\ LET room == last - heap[rest].pos
         len == IF room <= n THEN room ELSE n
         m == Received(n)
         read == [m EXCEPT !.heap[rest] = Put(@, SubSeq(m.heap[Net].data, 1, len)),
                           !.heap[Net].pos = len] IN
       IF len < room
         THEN Return(read)
         ELSE /\ pc' = "parse" /\ buf' = rest
              /\ later' = IF len < n THEN Net ELSE None
              /\ Store([read EXCEPT !.heap[rest].pos = 0])
  /\ UNCHANGED rest

-----------------------------------------------------------------------------
(* One turn of the loop. *)

FirstByte == heap[buf].data[heap[buf].pos + 1]
Sensible(byte) == byte # Junk /\ byte.off = 0
Parses(kinds) ==
  pc = "parse" /\ Remaining(heap[buf]) > 0 /\ Sensible(FirstByte) /\ stream[FirstByte.item].kind \in kinds

EndLoop ==
  /\ pc = "parse" /\ Remaining(heap[buf]) <= 0
  /\ Return(Storage)
  /\ UNCHANGED <<stream, got, rest, last, packets, acks, kept, astray, taken>>

Ack ==
  /\ Parses({"ack"}) /\ Remaining(heap[buf]) >= 4
  /\ acks' = Append(acks, FirstByte.item)
  /\ heap' = [heap EXCEPT ![buf].pos = @ + 4]
  /\ kept' = IF buf = rest THEN kept \cup {FirstByte.item} ELSE kept
  /\ UNCHANGED <<stream, got, pc, pool, rest, last, buf, later, packets, astray, taken>>

\* fewer than 4 bytes of an acknowledgement or of a long header: kept
KeepScrap ==
  LET g == Get(Storage, Scrap)
      id == Got(Storage, Scrap)
      scrap == Put(g.heap[id], Unread(heap[buf])) IN
  /\ Return(Reuse([g EXCEPT !.heap[id] = [scrap EXCEPT !.limit = scrap.pos]], rest))
  /\ rest' = id /\ last' = 0

ScrapOfAck ==
  /\ Parses({"ack"}) /\ Remaining(heap[buf]) < 4
  /\ KeepScrap
  /\ UNCHANGED <<stream, got, packets, acks, kept, astray, taken>>

ScrapOfHeader ==
  /\ Parses({"long", "bad"}) /\ Remaining(heap[buf]) < 4
  /\ IF rest = None \/ heap[rest].pos # 0
       THEN KeepScrap
       ELSE /\ Return([Storage EXCEPT !.heap[rest].pos = heap[rest].limit])
            /\ UNCHANGED <<rest, last>>
  /\ UNCHANGED <<stream, got, packets, acks, kept, astray, taken>>

\* a length over 2 MB: reconnect()
BadLength ==
  /\ Parses({"bad"}) /\ Remaining(heap[buf]) >= 4
  /\ pc' = "closed" /\ rest' = None /\ last' = 0 /\ buf' = None /\ later' = None
  /\ Store(Settled(Reuse(Storage, rest)))
  /\ UNCHANGED <<stream, got, packets, acks, kept, astray, taken>>

\* the packet is longer than what there is: kept until it is whole
KeepBody(len) ==
  LET g == Get(Storage, len)
      id == Got(Storage, len) IN
  IF rest = None \/ Capacity(heap[rest]) < len
    THEN /\ rest' = id
         /\ Return(Reuse([g EXCEPT !.heap[id] = Put(@, Unread(heap[buf]))], rest))
    ELSE /\ Return([Storage EXCEPT !.heap[rest] =
                      [@ EXCEPT !.pos = Min({heap[rest].limit, len}), !.limit = len]])
         /\ UNCHANGED rest

NeedsBody ==
  /\ Parses({"short", "long"})
  /\ Remaining(heap[buf]) >= Header(FirstByte.item) /\ Remaining(heap[buf]) < Size(FirstByte.item)
  /\ KeepBody(Size(FirstByte.item))
  /\ last' = Size(FirstByte.item)
  /\ astray' = (astray \/ (buf = rest /\ Capacity(heap[rest]) >= last' /\ heap[buf].pos # 0))
  /\ UNCHANGED <<stream, got, packets, acks, kept, taken>>

\* restOfTheData after a packet: given back when used up, else moved to its start
IsUsedUp(b) == (last # 0 /\ b.pos = last) \/ (last = 0 /\ Remaining(b) = 0)
(* (Mutant: what was parsed stays in front.) *)
CompactNot(b) == b

Compact(b) ==
  [data |-> [k \in DOMAIN b.data |->
               IF k <= Remaining(b) THEN b.data[b.pos + k] ELSE b.data[k]],
   pos |-> 0, limit |-> Remaining(b)]

Body(b, i) == SubSeq(b.data, b.pos + Header(i) + 1, b.pos + Size(i))
Posted(b, i) ==   \* the item whose body was handed on, 0 if it is none
  IF Body(b, i) = [j \in 1..Length(i) |-> [item |-> i, off |-> Header(i) + j - 1]] THEN i ELSE 0

Packet ==
  /\ Parses({"short", "long"}) /\ Remaining(heap[buf]) >= Size(FirstByte.item)
  /\ packets' = Append(packets, Posted(heap[buf], FirstByte.item))
  /\ LET m == [Storage EXCEPT !.heap[buf].pos = @ + Size(FirstByte.item)] IN
       IF rest # None /\ IsUsedUp(m.heap[rest])
         THEN Store(Reuse(m, rest)) /\ rest' = None
         ELSE /\ Store(IF rest = None THEN m ELSE [m EXCEPT !.heap[rest] = Compact(@)])
              /\ UNCHANGED rest
  /\ buf' = IF later # None THEN later ELSE buf
  /\ later' = None
  /\ UNCHANGED <<stream, got, pc, last, acks, kept, astray, taken>>

\* bytes that do not begin an item: whatever follows
Wild ==
  /\ pc = "parse" /\ Remaining(heap[buf]) > 0 /\ ~Sensible(FirstByte)
  /\ pc' = "wild"
  /\ UNCHANGED <<stream, got, heap, pool, rest, last, buf, later, packets, acks, kept, astray, taken>>

\* Another thread: getFreeBuffer hands out the oldest buffer of a class, all of
\* which it asks for.
Take(c) ==
  /\ Cardinality(taken) < MaxTaken /\ pc # "wild" /\ Free(Storage, c) # {}
  /\ Store(Get(Storage, c))
  /\ taken' = taken \cup {Got(Storage, c)}
  /\ UNCHANGED <<stream, got, pc, rest, last, buf, later, packets, acks, kept, astray>>

-----------------------------------------------------------------------------
Init ==
  /\ stream \in Streams /\ got = 0
  /\ pc = "idle"
  /\ heap = <<[data |-> <<>>, pos |-> 0, limit |-> 0]>> /\ pool = <<>>
  /\ rest = None /\ last = 0 /\ buf = None /\ later = None
  /\ packets = <<>> /\ acks = <<>>
  /\ kept = {} /\ astray = FALSE /\ taken = {}

Turn ==
  \/ EndLoop \/ Ack \/ ScrapOfAck \/ ScrapOfHeader
  \/ BadLength \/ NeedsBody \/ Packet \/ Wild

Next ==
  \/ \E n \in 1..(Len(Bytes) - got) : ReceiveFirst(n) \/ ReceiveMore(n) \/ ReceiveBody(n)
  \/ Turn
  \/ \E c \in Classes : Take(c)

Spec == Init /\ [][Next]_vars
-----------------------------------------------------------------------------
TypeOK ==
  /\ stream \in Streams /\ got \in 0..Len(Bytes)
  /\ pc \in {"idle", "parse", "closed", "wild"}
  /\ \A k \in DOMAIN heap :
       0 <= heap[k].pos /\ heap[k].pos <= heap[k].limit /\ heap[k].limit <= Capacity(heap[k])
  /\ {rest, buf} \subseteq {None} \cup DOMAIN heap /\ later \in {None, Net}
  /\ last \in Nat

Whole == {i \in DOMAIN stream : EndsOf[stream][i] <= got}

(* The bytes decoded as a header are the first ones of an item: readData's  *)
(* bookkeeping of position, limit and length never loses its place.  It may *)
(* in two ways: another thread took, between two turns of the loop, the     *)
(* buffer readData had just given back and looks at once more; or a packet  *)
(* was begun in restOfTheData behind an acknowledgement, which is not taken *)
(* out of it, and its length was counted from the acknowledgement.          *)
KeepsItsPlace == pc = "wild" => buf \in taken \/ astray

(* The packets handed to the delegate are those of the stream, whole, in    *)
(* order and once, however the bytes are cut; unless one was measured from  *)
(* an acknowledgement they are all of them.                                 *)
PacketsAreThose ==
  /\ \A j, k \in DOMAIN packets : j < k => packets[j] < packets[k]
  /\ 0 \notin ToSet(packets)
  /\ astray \/ IsPrefix(packets, SelectSeq([i \in DOMAIN stream |-> i], IsPacket))

(* Between two reads all that has come whole was handed on, unless a packet *)
(* was measured from an acknowledgement.                                    *)
CaughtUp ==
  pc = "idle" => astray \/ Whole = ToSet(packets) \cup ToSet(acks)

(* A quick acknowledgement is reported again only if it was parsed in       *)
(* restOfTheData, where it stays until a packet behind it is whole.         *)
RepeatedAcksWereKept ==
  \A j, k \in DOMAIN acks : j < k /\ acks[j] = acks[k] => acks[k] \in kept

(* A buffer has one holder: it is free once, and neither kept nor taken by  *)
(* another thread while it is.                                              *)
OneHolder ==
  /\ IsInjective(pool)
  /\ rest \notin ToSet(pool) \cup taken
  /\ ToSet(pool) \cap taken = {}

(* What reading keeps in every state: types, its place in the stream, the   *)
(* packets and acknowledgements handed on, and the pool of buffers.         *)
StreamSafe ==
  TypeOK /\ KeepsItsPlace /\ PacketsAreThose /\ CaughtUp /\ RepeatedAcksWereKept /\ OneHolder
=============================================================================
