---------------------------- MODULE TxPathProofs ----------------------------
(* Proofs about TxPath, for every size of the sequence number space and of *)
(* the ring buffer, every length of the stream, every write, window, loss, *)
(* repetition and reordering.                                              *)
EXTENDS TxPath, BasicLemmas

-----------------------------------------------------------------------------
(* The inductive invariant: types *)

Address == 0 .. BufSize - 1
SeqNumbs == 0 .. SeqSpace - 1
Byte == -1 .. StreamLen - 1
SessStates == {"ESTABLISHED", "CLOSED"}
AppEntry == [ackd : Address, mempt : Address, minWindow : Address]
SarEntry == [ackd : SeqNumbs, notAckd : SeqNumbs, count : 0 .. 3, fastRt : BOOLEAN]
Pushed == [ackd : Address, minWindow : Address]
AppWrite == [len : WriteLens, app : AppEntry, sess : SessStates]
TxEvent == [rt : {FALSE}, notAckd : SeqNumbs, len : WriteLens]
RtEvent == [rt : {TRUE}, ackd : SeqNumbs, used : Address, segments : 0 .. 3]
AckRead == [sess : SessStates, ack : SeqNumbs, win : Windows, prevAck : SeqNumbs,
            nextByte : SeqNumbs, count : 0 .. 3, fastRt : BOOLEAN]
Segments == [seq : SeqNumbs, bytes : Seq(Byte)]
Acks == [ack : SeqNumbs, win : Windows]
Timers == [active : BOOLEAN, retries : 0 .. RetryLimit]

Register(r, S) == r = <<>> \/ (r = <<r[1]>> /\ r[1] \in S)
Fifo(q, S) == q \in Seq(S) /\ Len(q) <= Depth

PointerTypes == /\ sess \in SessStates /\ app \in AppEntry /\ sar \in SarEntry
                /\ Fifo(ackPush, Pushed)
ClientTypes == /\ written \in 0 .. StreamLen /\ Register(tasi, AppWrite)
               /\ Fifo(data, Seq(Byte)) /\ mem \in [Address -> Byte]
EventTypes == /\ Fifo(appEv, WriteLens) /\ timerEv \in 0 .. Depth /\ fastEv \in 0 .. Depth
              /\ Register(ml, TxEvent \cup RtEvent) /\ Register(rx, AckRead)
TimerTypes == /\ timer \in Timers /\ setQ \in 0 .. Depth
              /\ Fifo(clearQ, BOOLEAN) /\ Register(update, BOOLEAN)
WireTypes == /\ net \subseteq Segments /\ acks \subseteq Acks
             /\ got \in Seq(Byte) /\ edge \in Nat
Types == PointerTypes /\ ClientTypes /\ EventTypes /\ TimerTypes /\ WireTypes

-----------------------------------------------------------------------------
(* The inductive invariant: the pointers as places in the stream *)

Acked == Pos(sar.ackd)
Sent == Pos(sar.notAckd)
Slot(p) == Ring(SeqNumb(p))

(* The place in the stream that a ring address stands for, less than a     *)
(* buffer's length behind what has been written.                           *)
Behind(a) == written - Ring(app.mempt + BufSize - a)

(* The pointers are in order, and nothing is written beyond the window. *)
Order == /\ Acked <= Len(got) /\ Len(got) <= Sent /\ Sent <= written /\ written <= edge
         /\ app.mempt = Slot(written)

(* An acknowledgement on its way from rxTcpFSM to the application: each    *)
(* copy of ackd is older than the one it was made from, and its window     *)
(* ends within the window the peer has advertised.                         *)
Copy(c, last) == /\ 0 <= Behind(c.ackd) /\ Behind(c.ackd) <= last
                 /\ Behind(c.ackd) + c.minWindow <= edge
AppCopy == Copy(app, Acked)
PushCopies ==
  /\ \A i \in 1 .. Len(ackPush) :
       Copy(ackPush[i], Acked) /\ Behind(app.ackd) <= Behind(ackPush[i].ackd)
  /\ \A i, j \in 1 .. Len(ackPush) :
       i <= j => Behind(ackPush[i].ackd) <= Behind(ackPush[j].ackd)
TasiCopy ==
  tasi # <<>> => /\ Copy(tasi[1].app, Behind(app.ackd)) /\ tasi[1].app.mempt = app.mempt
                 /\ written + tasi[1].len <= StreamLen
AckSeen(a) == Pos(a.ack) <= Len(got) /\ Pos(a.ack) + a.win <= edge
RxRead ==
  rx # <<>> => /\ AckSeen(rx[1]) /\ rx[1].prevAck = sar.ackd
               /\ Pos(rx[1].ack) <= Pos(rx[1].nextByte) /\ Pos(rx[1].nextByte) <= Sent
               /\ Acked <= Pos(rx[1].nextByte)
Copies == AppCopy /\ PushCopies /\ TasiCopy /\ RxRead /\ \A a \in acks : AckSeen(a)

(* The payloads on their way to metaLoader continue what it has sent, in   *)
(* the order and with the lengths of the events.                           *)
Start(i) == IF i <= Len(data) THEN data[i][1] ELSE written
Loaded == ml # <<>> /\ ~ml[1].rt
Shift == IF Loaded THEN 1 ELSE 0
Payloads ==
  /\ Len(data) = Len(appEv) + Shift
  /\ Loaded => ml[1].notAckd = sar.notAckd /\ Len(data[1]) = ml[1].len
  /\ \A i \in 1 .. Len(appEv) : Len(data[i + Shift]) = appEv[i]
  /\ Start(1) = Sent
  /\ \A i \in 1 .. Len(data) :
       /\ Len(data[i]) > 0 /\ Start(i + 1) = Start(i) + Len(data[i]) /\ Start(i + 1) <= written
       /\ \A j \in 1 .. Len(data[i]) : data[i][j] = Start(i) + j - 1

(* A retransmission covers bytes that have been sent. *)
RtCovers == ml # <<>> /\ ml[1].rt => Pos(ml[1].ackd) + ml[1].used <= Sent

(* The ring holds what is not acknowledged. *)
RingHolds == \A p \in Unacked : mem[Slot(p)] = p

(* A segment in the network holds the bytes of its place in the stream, up *)
(* to what the peer has.                                                   *)
Intact(s) ==
  \A i \in 1 .. Len(s.bytes) : Pos(s.seq) + i - 1 < Len(got) \/ s.bytes[i] = Pos(s.seq) + i - 1
InNet == \A s \in net : Pos(s.seq) + Len(s.bytes) <= Sent

Inv == Types /\ Order /\ Copies /\ Payloads /\ RtCovers /\ RingHolds /\ InNet

(* In the first session, whose second access finds its own buffer: *)
Received == /\ \A s \in net : Intact(s)
            /\ \A i \in 1 .. Len(got) : got[i] = i - 1

-----------------------------------------------------------------------------
(* Sequence numbers and ring addresses *)

(* The constants as the provers need them. *)
LEMMA Sizes ==
  /\ SeqSpace \in Nat \ {0} /\ BufSize \in Nat \ {0} /\ StreamLen \in Nat \ {0}
  /\ Mss \in Nat \ {0} /\ Depth \in Nat \ {0} /\ RetryLimit \in Nat \ {0}
  /\ StreamLen < SeqSpace /\ Isn \in 0 .. SeqSpace - 1
  /\ WriteLens \subseteq 1 .. BufSize - 1 /\ CongWindows \subseteq 1 .. BufSize - 1
  /\ Windows \subseteq 0 .. BufSize - 1
  BY SizeAssumption

LEMMA Divides == SeqSpace % BufSize = 0
  BY SizeAssumption

(* The ring is not larger than the sequence number space. *)
LEMMA RingFits == BufSize <= SeqSpace
<1>1. SUFFICES ASSUME SeqSpace < BufSize PROVE FALSE
  BY Sizes
<1>2. SeqSpace \in 0 .. BufSize - 1
  BY <1>1, Sizes
<1>3. SeqSpace % BufSize = SeqSpace
  BY <1>2, Sizes, ModSmall
<1> QED
  BY <1>3, Divides, Sizes

(* The place of a sequence number. *)
LEMMA PosIs ==
  ASSUME NEW seq \in SeqNumbs
  PROVE  /\ Pos(seq) \in 0 .. SeqSpace - 1
         /\ Pos(seq) = IF seq >= Isn THEN seq - Isn ELSE seq + SeqSpace - Isn
<1>1. CASE seq >= Isn
  <2>1. seq - Isn \in 0 .. SeqSpace - 1 /\ seq + SeqSpace - Isn = (seq - Isn) + SeqSpace
    BY <1>1, Sizes DEF SeqNumbs
  <2>2. ((seq - Isn) + SeqSpace) % SeqSpace = seq - Isn
    BY <2>1, Sizes, ModSmall
  <2> QED
    BY <1>1, <2>1, <2>2 DEF Pos
<1>2. CASE ~(seq >= Isn)
  <2>1. seq + SeqSpace - Isn \in 0 .. SeqSpace - 1
    BY <1>2, Sizes DEF SeqNumbs
  <2>2. (seq + SeqSpace - Isn) % SeqSpace = seq + SeqSpace - Isn
    BY <2>1, Sizes, ModSmall
  <2> QED
    BY <1>2, <2>1, <2>2 DEF Pos
<1> QED
  BY <1>1, <1>2

(* The sequence number of a place. *)
LEMMA SeqIs ==
  ASSUME NEW p \in 0 .. SeqSpace - 1
  PROVE  /\ SeqNumb(p) \in SeqNumbs
         /\ SeqNumb(p) = IF Isn + p < SeqSpace THEN Isn + p ELSE Isn + p - SeqSpace
         /\ Pos(SeqNumb(p)) = p
<1>1. SeqNumb(p) = IF Isn + p < SeqSpace THEN Isn + p ELSE Isn + p - SeqSpace
  <2>1. Isn % SeqSpace = Isn
    BY Sizes, ModSmall
  <2>2. p \in 0 .. SeqSpace /\ Isn \in Int
    BY Sizes
  <2> QED
    BY <2>1, <2>2, Sizes, ModAdd DEF SeqNumb
<1>2. SeqNumb(p) \in SeqNumbs
  BY <1>1, Sizes DEF SeqNumbs
<1>3. Pos(SeqNumb(p)) = p
  BY <1>1, <1>2, PosIs, Sizes
<1> QED
  BY <1>1, <1>2, <1>3

(* A sequence number is the one of its place. *)
LEMMA SeqOfPos ==
  ASSUME NEW seq \in SeqNumbs
  PROVE  SeqNumb(Pos(seq)) = seq
  BY PosIs, SeqIs, Sizes DEF SeqNumbs

(* Moving on in the stream. *)
LEMMA PosAdd ==
  ASSUME NEW seq \in SeqNumbs, NEW n \in Nat, Pos(seq) + n < SeqSpace
  PROVE  /\ (seq + n) % SeqSpace \in SeqNumbs
         /\ Pos((seq + n) % SeqSpace) = Pos(seq) + n
<1>1. n \in 0 .. SeqSpace
  BY PosIs, Sizes
<1>2. seq % SeqSpace = seq
  BY Sizes, ModSmall DEF SeqNumbs
<1>3. (seq + n) % SeqSpace = IF seq + n < SeqSpace THEN seq + n ELSE seq + n - SeqSpace
  <2>1. seq \in Int
    BY DEF SeqNumbs
  <2> QED
    BY <1>1, <1>2, <2>1, Sizes, ModAdd
<1> DEFINE t == (seq + n) % SeqSpace
<1> HIDE DEF t
<1>4. t = IF seq + n < SeqSpace THEN seq + n ELSE seq + n - SeqSpace
  BY <1>3 DEF t
<1>5. t \in SeqNumbs
  BY <1>4, <1>1, Sizes DEF SeqNumbs
<1>6. /\ Pos(seq) = IF seq >= Isn THEN seq - Isn ELSE seq + SeqSpace - Isn
      /\ Pos(t) = IF t >= Isn THEN t - Isn ELSE t + SeqSpace - Isn
  BY <1>5, PosIs
<1>7. Pos(t) = Pos(seq) + n
  BY <1>4, <1>5, <1>6, Sizes DEF SeqNumbs
<1> QED
  BY <1>5, <1>7 DEF t

(* The ring address of a place: it does not wrap with the sequence number. *)
LEMMA SlotIs == \A p \in Int : Slot(p) = (Isn + p) % BufSize /\ Slot(p) \in Address
<1> SUFFICES ASSUME NEW p \in Int PROVE Slot(p) = (Isn + p) % BufSize /\ Slot(p) \in Address
  OBVIOUS
<1>1. Isn + p \in Int
  BY Sizes
<1>2. Slot(p) = (Isn + p) % BufSize
  BY <1>1, Sizes, Divides, ModMod DEF Slot, Ring, SeqNumb
<1> QED
  BY <1>1, <1>2, Sizes, ModRange DEF Address

LEMMA RingOfSeq ==
  ASSUME NEW seq \in SeqNumbs
  PROVE  Ring(seq) = Slot(Pos(seq))
  BY SeqOfPos DEF Slot

LEMMA SlotAdd ==
  ASSUME NEW p \in Int, NEW d \in 0 .. BufSize
  PROVE  Slot(p + d) = IF Slot(p) + d < BufSize THEN Slot(p) + d ELSE Slot(p) + d - BufSize
<1>1. Isn + p \in Int /\ p + d \in Int /\ Isn + (p + d) = (Isn + p) + d
  BY Sizes
<1>2. /\ Slot(p) = (Isn + p) % BufSize
      /\ Slot(p + d) = ((Isn + p) + d) % BufSize
  BY <1>1, SlotIs
<1> QED
  BY <1>1, <1>2, Sizes, ModAdd

LEMMA RingRange == \A x \in Int : Ring(x) \in Nat /\ Ring(x) \in 0 .. BufSize - 1
  BY Sizes, ModRange DEF Ring

(* The distance of two ring addresses is the one of their places. *)
LEMMA SlotDistance ==
  ASSUME NEW p \in Int, NEW d \in 0 .. BufSize - 1
  PROVE  Ring(Slot(p + d) + BufSize - Slot(p)) = d
<1>1. Slot(p) \in Address /\ Slot(p + d) \in Address
  BY SlotIs, Sizes
<1>2. Slot(p + d) = IF Slot(p) + d < BufSize THEN Slot(p) + d ELSE Slot(p) + d - BufSize
  BY SlotAdd, Sizes
<1>3. \/ Slot(p + d) + BufSize - Slot(p) = d + BufSize
      \/ Slot(p + d) + BufSize - Slot(p) = d
  BY <1>1, <1>2, Sizes DEF Address
<1> QED
  BY <1>3, Sizes, ModSmall DEF Ring

(* The place of a ring address that lies behind place w. *)
LEMMA SlotBehind ==
  ASSUME NEW w \in Int, NEW a \in Address
  PROVE  /\ Ring(Slot(w) + BufSize - a) \in 0 .. BufSize - 1
         /\ Slot(w - Ring(Slot(w) + BufSize - a)) = a
<1> DEFINE d == Ring(Slot(w) + BufSize - a)
<1>1. Slot(w) \in Address /\ Slot(w) \in Int /\ a \in Int
  BY SlotIs, Sizes DEF Address
<1>2. d \in 0 .. BufSize - 1
  <2>1. Slot(w) + BufSize - a \in Int
    BY <1>1, Sizes
  <2> QED
    BY <2>1, Sizes, ModRange DEF Ring
<1>3. d = IF Slot(w) >= a THEN Slot(w) - a ELSE Slot(w) + BufSize - a
  <2>1. CASE Slot(w) >= a
    <3>1. Slot(w) - a \in 0 .. BufSize - 1 /\ Slot(w) + BufSize - a = (Slot(w) - a) + BufSize
      BY <1>1, <2>1, Sizes DEF Address
    <3> QED
      BY <2>1, <3>1, Sizes, ModSmall DEF Ring
  <2>2. CASE ~(Slot(w) >= a)
    <3>1. Slot(w) + BufSize - a \in 0 .. BufSize - 1
      BY <1>1, <2>2, Sizes DEF Address
    <3> QED
      BY <2>2, <3>1, Sizes, ModSmall DEF Ring
  <2> QED
    BY <2>1, <2>2
<1> HIDE DEF d
<1>4. w - d \in Int /\ (w - d) + d = w /\ d \in 0 .. BufSize
  BY <1>2, Sizes
<1>5. Slot(w) = IF Slot(w - d) + d < BufSize THEN Slot(w - d) + d
                ELSE Slot(w - d) + d - BufSize
  BY <1>4, SlotAdd
<1>6. Slot(w - d) \in Address
  BY <1>4, SlotIs
<1>7. Slot(w - d) = a
  BY <1>1, <1>2, <1>3, <1>5, <1>6, Sizes DEF Address
<1> QED
  BY <1>2, <1>7 DEF d

-----------------------------------------------------------------------------
(* Registers and FIFOs *)

LEMMA RegisterValue ==
  ASSUME NEW S, NEW r, Register(r, S), r # <<>>
  PROVE  r[1] \in S /\ r = <<r[1]>> /\ Len(r) = 1
  BY DEF Register

LEMMA RegisterSet ==
  ASSUME NEW S, NEW e \in S
  PROVE  Register(<<e>>, S) /\ <<e>> # <<>> /\ <<e>>[1] = e
  BY DEF Register

LEMMA RegisterEmpty == \A S : Register(<<>>, S)
  BY DEF Register

LEMMA FifoAppend ==
  ASSUME NEW S, NEW q, Fifo(q, S), Room(q), NEW e \in S
  PROVE  Fifo(Append(q, e), S)
  BY Sizes DEF Fifo, Room

LEMMA FifoTail ==
  ASSUME NEW S, NEW q, Fifo(q, S), q # <<>>
  PROVE  Fifo(Tail(q), S) /\ Head(q) \in S
  BY Sizes DEF Fifo

LEMMA FifoEmpty == \A S : Fifo(<<>>, S)
  BY Sizes DEF Fifo

(* The network holds what it held and the new message. *)
LEMMA AddBounds ==
  ASSUME NEW m, NEW msgs, NEW cap, NEW after \in Add(m, msgs, cap)
  PROVE  after \subseteq msgs \cup {m}
  BY DEF Add

-----------------------------------------------------------------------------
(* What a step leaves alone *)

LEMMA PointerFrame == PointerTypes /\ UNCHANGED <<sess, app, sar, ackPush>> => PointerTypes'
  BY DEF PointerTypes
LEMMA ClientFrame == ClientTypes /\ UNCHANGED client => ClientTypes'
  BY DEF ClientTypes, client
LEMMA EventFrame == EventTypes /\ UNCHANGED <<events, ml, rx>> => EventTypes'
  BY DEF EventTypes, events
LEMMA TimerFrame == TimerTypes /\ UNCHANGED timers => TimerTypes'
  BY DEF TimerTypes, timers
LEMMA WireFrame == WireTypes /\ UNCHANGED wire => WireTypes'
  BY DEF WireTypes, wire

LEMMA OrderFrame == Order /\ UNCHANGED <<app, sar, written, got, edge>> => Order'
  BY DEF Order, Acked, Sent
LEMMA BehindFrame == UNCHANGED <<app.mempt, written>> => \A a : Behind(a)' = Behind(a)
  BY DEF Behind
LEMMA AppCopyFrame == AppCopy /\ UNCHANGED <<app, sar.ackd, written, edge>> => AppCopy'
  BY DEF AppCopy, Copy, Behind, Acked
LEMMA PushFrame == PushCopies /\ UNCHANGED <<app, sar.ackd, written, edge, ackPush>> => PushCopies'
  BY DEF PushCopies, Copy, Behind, Acked
LEMMA TasiFrame == TasiCopy /\ UNCHANGED <<app, written, edge, tasi>> => TasiCopy'
  BY DEF TasiCopy, Copy, Behind
LEMMA RxFrame == RxRead /\ UNCHANGED <<rx, sar, got, edge>> => RxRead'
  BY DEF RxRead, AckSeen, Sent, Acked
LEMMA CopiesFrame ==
  Copies /\ UNCHANGED <<app, sar, written, edge, ackPush, tasi, rx, got, acks>> => Copies'
  BY AppCopyFrame, PushFrame, TasiFrame, RxFrame DEF Copies, AckSeen
LEMMA PayloadFrame == Payloads /\ UNCHANGED <<data, appEv, ml, sar.notAckd, written>> => Payloads'
  BY DEF Payloads, Start, Loaded, Shift, Sent
LEMMA RtFrame == RtCovers /\ UNCHANGED <<ml, sar.notAckd>> => RtCovers'
  BY DEF RtCovers, Sent
LEMMA RingFrame == RingHolds /\ UNCHANGED <<mem, sar.ackd, written>> => RingHolds'
  BY DEF RingHolds, Unacked
LEMMA NetFrame == InNet /\ UNCHANGED <<net, sar.notAckd>> => InNet'
  BY DEF InNet, Sent

(* The places are numbers. *)
LEMMA Places ==
  ASSUME Inv
  PROVE  /\ Acked \in Nat /\ Sent \in Nat /\ Len(got) \in Nat /\ written \in Nat /\ edge \in Nat
         /\ sar.ackd \in SeqNumbs /\ sar.notAckd \in SeqNumbs
         /\ app.ackd \in Address /\ app.mempt \in Address /\ app.minWindow \in Address
         /\ Acked <= Len(got) /\ Len(got) <= Sent /\ Sent <= written /\ written <= edge
         /\ written <= StreamLen /\ written < SeqSpace
<1>1. sar.ackd \in SeqNumbs /\ sar.notAckd \in SeqNumbs
  BY DEF Inv, Types, PointerTypes, SarEntry
<1>2. app.ackd \in Address /\ app.mempt \in Address /\ app.minWindow \in Address
  BY DEF Inv, Types, PointerTypes, AppEntry
<1>3. Acked \in Nat /\ Sent \in Nat
  BY <1>1, PosIs, Sizes DEF Acked, Sent
<1>4. Len(got) \in Nat /\ written \in Nat /\ edge \in Nat /\ written <= StreamLen
  BY Sizes DEF Inv, Types, WireTypes, ClientTypes
<1> QED
  BY <1>1, <1>2, <1>3, <1>4, Sizes DEF Inv, Order

(* A ring address and its place behind the writes. *)
LEMMA BehindIs ==
  ASSUME Inv, NEW a \in Address
  PROVE  /\ Behind(a) \in Int /\ written - BufSize < Behind(a) /\ Behind(a) <= written
         /\ Slot(Behind(a)) = a
         /\ Ring(app.mempt + BufSize - a) = written - Behind(a)
<1>1. written \in Int /\ app.mempt = Slot(written)
  BY Places DEF Inv, Order
<1>2. /\ Ring(app.mempt + BufSize - a) \in 0 .. BufSize - 1
      /\ Slot(written - Ring(app.mempt + BufSize - a)) = a
  BY <1>1, SlotBehind
<1> QED
  BY <1>1, <1>2, Sizes DEF Behind

(* The place of the ring address of a place that is behind the writes w. *)
LEMMA DistanceIs ==
  ASSUME NEW w \in Int, NEW k \in Int, k <= w, w - k < BufSize
  PROVE  w - Ring(Slot(w) + BufSize - Slot(k)) = k
<1>1. w - k \in 0 .. BufSize - 1 /\ k + (w - k) = w
  BY Sizes
<1>2. Ring(Slot(k + (w - k)) + BufSize - Slot(k)) = w - k
  BY <1>1, SlotDistance
<1> QED
  BY <1>1, <1>2

-----------------------------------------------------------------------------
(* The application's side keeps the invariant *)

LEMMA RequestStep ==
  ASSUME Inv, NEW n \in WriteLens, AppRequest(n)
  PROVE  Inv'
<1> DEFINE t == [len |-> n, app |-> app, sess |-> sess]
<1>1. t \in AppWrite
  BY DEF Inv, Types, PointerTypes, AppWrite
<1>2. tasi' = <<t>> /\ t.app = app /\ t.len = n /\ written + n <= StreamLen
  BY DEF AppRequest
<1>3. UNCHANGED <<sess, app, sar, written, data, mem, events, ml, ackPush, rx, timers, wire>>
  BY DEF AppRequest
<1> HIDE DEF t
<1>4. Register(tasi', AppWrite) /\ tasi'[1] = t
  BY <1>1, <1>2, RegisterSet
<1>5. Types'
  <2>1. ClientTypes'
    BY <1>3, <1>4 DEF Inv, Types, ClientTypes
  <2> QED
    BY <1>3, <2>1, PointerFrame, EventFrame, TimerFrame, WireFrame DEF Inv, Types
<1>6. TasiCopy'
  <2>1. \A a : Behind(a)' = Behind(a)
    BY <1>3, BehindFrame
  <2>2. Behind(app.ackd) \in Int
    BY Places, BehindIs
  <2> QED
    BY <1>2, <1>3, <1>4, <2>1, <2>2 DEF Inv, Copies, AppCopy, TasiCopy, Copy, wire
<1>7. Copies'
  BY <1>3, <1>6, AppCopyFrame, PushFrame, RxFrame DEF Inv, Copies, AckSeen, wire
<1> QED
  BY <1>3, <1>5, <1>7, OrderFrame, PayloadFrame, RtFrame, RingFrame, NetFrame
  DEF Inv, wire, events

LEMMA RefuseStep ==
  ASSUME Inv, AppRefuse
  PROVE  Inv'
<1>1. tasi' = <<>>
  BY DEF AppRefuse
<1>2. UNCHANGED <<sess, app, sar, written, data, mem, events, ml, ackPush, rx, timers, wire>>
  BY DEF AppRefuse
<1>3. Types'
  <2>1. ClientTypes'
    BY <1>1, <1>2, RegisterEmpty DEF Inv, Types, ClientTypes
  <2> QED
    BY <1>2, <2>1, PointerFrame, EventFrame, TimerFrame, WireFrame DEF Inv, Types
<1>4. Copies'
  BY <1>1, <1>2, AppCopyFrame, PushFrame, RxFrame DEF Inv, Copies, TasiCopy, AckSeen, wire
<1> QED
  BY <1>2, <1>3, <1>4, OrderFrame, PayloadFrame, RtFrame, RingFrame, NetFrame
  DEF Inv, wire, events

(* What tasi_metaLoader's tests guarantee, on a copy of the pointers that  *)
(* may be old: the write fits the ring and the window.                     *)
LEMMA WriteFits ==
  ASSUME Inv, tasi # <<>>, ~Refused(tasi[1])
  PROVE  /\ tasi[1] \in AppWrite /\ tasi[1].len \in 1 .. BufSize - 1
         /\ tasi[1].app.mempt = app.mempt
         /\ written + tasi[1].len <= StreamLen
         /\ written + tasi[1].len - Behind(app.ackd) < BufSize
         /\ written + tasi[1].len <= edge
<1> DEFINE t == tasi[1]
           a == t.app.ackd
           n == t.len
           d == written - Behind(a)
<1>1. t \in AppWrite
  BY RegisterValue DEF Inv, Types, ClientTypes
<1>2. n \in 1 .. BufSize - 1 /\ a \in Address /\ t.app.minWindow \in Address
  BY <1>1, Sizes DEF AppWrite, AppEntry
<1>3. /\ Copy(t.app, Behind(app.ackd)) /\ t.app.mempt = app.mempt
      /\ written + n <= StreamLen
  BY DEF Inv, Copies, TasiCopy
<1>4. /\ Behind(a) \in Int /\ d \in 0 .. BufSize - 1
      /\ Ring(app.mempt + BufSize - a) = d
  <2>1. /\ Behind(a) \in Int /\ written - BufSize < Behind(a) /\ Behind(a) <= written
        /\ Ring(app.mempt + BufSize - a) = written - Behind(a)
    BY <1>2, BehindIs
  <2>2. written \in Nat
    BY Places
  <2> HIDE DEF a
  <2> QED
    BY <2>1, <2>2, Sizes
<1>5. Behind(app.ackd) \in Int
  BY Places, BehindIs
<1>6. n <= MaxWriteLength(t.app) /\ n <= UsableWindow(t.app)
  <2>1. ~(n > MaxWriteLength(t.app)) /\ ~(UsableWindow(t.app) < n)
    BY DEF Refused
  <2>2. a + BufSize - t.app.mempt + BufSize - 1 \in Int
    BY <1>2, <1>3, Places, Sizes, SMTT(40) DEF Address
  <2>3. MaxWriteLength(t.app) \in Int
    BY <2>2, Sizes, ModRange DEF MaxWriteLength, Ring
  <2>4. UsableWindow(t.app) = IF t.app.minWindow > d THEN t.app.minWindow - d ELSE 0
    BY <1>3, <1>4 DEF UsableWindow
  <2>5. UsableWindow(t.app) \in Int
    BY <2>4, <1>2, <1>4, Sizes DEF Address
  <2> QED
    BY <1>2, <2>1, <2>3, <2>5
<1>7. MaxWriteLength(t.app) = BufSize - 1 - d
  <2>1. app.mempt \in Address /\ app.mempt \in Int
    BY Places DEF Address
  <2>2. Slot(Behind(a)) = a /\ Slot(written) = app.mempt /\ Behind(a) + d = written
    BY <1>2, <1>4, BehindIs, Places, SMTT(40) DEF Inv, Order
  <2>3. app.mempt = IF a + d < BufSize THEN a + d ELSE a + d - BufSize
    <3>1. d \in 0 .. BufSize
      BY <1>4, Sizes
    <3> QED
      BY <1>4, <2>2, <3>1, SlotAdd
  <2> DEFINE e == BufSize - 1 - d
  <2>4. e \in 0 .. BufSize - 1
    BY <1>4, Sizes
  <2>5. \/ a + BufSize - app.mempt + BufSize - 1 = e + BufSize
        \/ a + BufSize - app.mempt + BufSize - 1 = e + BufSize + BufSize
    BY <1>2, <1>4, <2>1, <2>3, Sizes, SMTT(40) DEF Address
  <2> HIDE DEF e
  <2>6. Ring(a + BufSize - app.mempt + BufSize - 1) = e
    BY <2>4, <2>5, Sizes, ModSmall DEF Ring
  <2> QED
    BY <1>3, <2>6 DEF MaxWriteLength, e
<1>8. UsableWindow(t.app) = IF t.app.minWindow > d THEN t.app.minWindow - d ELSE 0
  BY <1>3, <1>4 DEF UsableWindow
<1>9. 0 <= Behind(a) /\ Behind(a) <= Behind(app.ackd) /\ Behind(a) + t.app.minWindow <= edge
  BY <1>3 DEF Copy
<1>10. written + n - Behind(app.ackd) < BufSize
  BY <1>2, <1>4, <1>5, <1>6, <1>7, <1>9, Places, Sizes, SMTT(40)
<1>11. written + n <= edge
  <2>1. written \in Nat /\ edge \in Nat /\ t.app.minWindow \in Nat
    BY <1>2, Places DEF Address
  <2>2. n <= t.app.minWindow - d
    BY <1>2, <1>4, <1>6, <1>8, <2>1
  <2> QED
    BY <1>2, <1>4, <1>9, <2>1, <2>2
<1> QED
  BY <1>1, <1>2, <1>3, <1>10, <1>11

(* The write is the next payload, and the bytes of the ring that are not   *)
(* acknowledged stay where they are.                                       *)
LEMMA AcceptStep ==
  ASSUME Inv, AppAccept
  PROVE  Inv'
<1> DEFINE n == tasi[1].len
           w == written + n
           load == [i \in 1 .. n |-> written + i - 1]
<1>1. /\ tasi[1] \in AppWrite /\ n \in 1 .. BufSize - 1 /\ n \in WriteLens
      /\ tasi[1].app.mempt = app.mempt
      /\ w <= StreamLen /\ w - Behind(app.ackd) < BufSize /\ w <= edge
  <2>1. tasi # <<>> /\ ~Refused(tasi[1])
    BY DEF AppAccept
  <2>2. tasi[1] \in AppWrite
    BY <2>1, WriteFits
  <2>3. n \in WriteLens
    BY <2>2 DEF AppWrite
  <2>4. /\ n \in 1 .. BufSize - 1 /\ tasi[1].app.mempt = app.mempt
        /\ w <= StreamLen /\ w - Behind(app.ackd) < BufSize /\ w <= edge
    <3>1. /\ tasi[1].len \in 1 .. BufSize - 1 /\ tasi[1].app.mempt = app.mempt
          /\ written + tasi[1].len <= StreamLen
          /\ written + tasi[1].len - Behind(app.ackd) < BufSize
          /\ written + tasi[1].len <= edge
      BY <2>1, WriteFits
    <3>2. written \in Nat /\ Behind(app.ackd) \in Int
      BY Places, BehindIs
    <3> QED
      BY <3>1, <3>2, Sizes
  <2> HIDE DEF n, w
  <2> QED
    BY <2>2, <2>3, <2>4
<1>2. /\ appEv' = Append(appEv, n) /\ data' = Append(data, load)
      /\ mem' = WriteRing(app.mempt, n) /\ app' = [app EXCEPT !.mempt = Ring(app.mempt + n)]
      /\ written' = w /\ tasi' = <<>> /\ Room(appEv) /\ Room(data)
  BY <1>1 DEF AppAccept
<1>3. UNCHANGED <<sess, sar, timerEv, fastEv, ml, ackPush, rx, timers, wire>>
  BY DEF AppAccept
<1>4. written \in Nat /\ w \in Nat /\ app.mempt \in Address /\ app.mempt = Slot(written)
  BY <1>1, Places DEF Inv, Order
<1>5. load \in Seq(Byte) /\ Len(load) = n /\ (\A j \in 1 .. n : load[j] = written + j - 1)
  <2>1. \A i \in 1 .. n : written + i - 1 \in Byte
    BY <1>1, <1>4, Sizes DEF Byte
  <2>2. load \in [1 .. n -> Byte] /\ n \in Nat
    BY <1>1, <2>1, Sizes
  <2>3. \A j \in 1 .. n : load[j] = written + j - 1
    OBVIOUS
  <2> HIDE DEF load, n
  <2> QED
    BY <2>2, <2>3, FunctionIsSeq
<1> HIDE DEF n, w, load
<1>6. w = written + n
  BY DEF w
<1>7. Slot(w) = Ring(app.mempt + n) /\ Slot(w) \in Address
  <2>1. n \in 0 .. BufSize /\ app.mempt \in Int
    BY <1>1, <1>4, Sizes DEF Address
  <2>2. app.mempt % BufSize = app.mempt
    BY <1>4, Sizes, ModSmall DEF Address
  <2>3. (app.mempt + n) % BufSize = IF app.mempt + n < BufSize THEN app.mempt + n
                                    ELSE app.mempt + n - BufSize
    BY <2>1, <2>2, Sizes, ModAdd
  <2> QED
    BY <1>4, <1>6, <2>1, <2>3, SlotAdd, SlotIs DEF Ring
<1>8. app' \in AppEntry /\ app'.ackd = app.ackd /\ app'.minWindow = app.minWindow
        /\ app'.mempt = Slot(w)
  BY <1>2, <1>7 DEF Inv, Types, PointerTypes, AppEntry
<1>9. ASSUME NEW a \in Address, Behind(app.ackd) <= Behind(a)
      PROVE  Behind(a)' = Behind(a)
  <2>1. /\ Behind(a) \in Int /\ Behind(a) <= written /\ Slot(Behind(a)) = a
        /\ Behind(app.ackd) \in Int
    BY BehindIs, Places
  <2>2. Behind(a) <= w /\ w - Behind(a) < BufSize
    BY <1>1, <1>4, <1>6, <1>9, <2>1, Sizes
  <2>3. w - Ring(Slot(w) + BufSize - Slot(Behind(a))) = Behind(a)
    BY <1>4, <2>1, <2>2, DistanceIs
  <2> QED
    BY <1>2, <1>8, <2>1, <2>3 DEF Behind
<1>10. Types'
  <2>1. PointerTypes'
    BY <1>3, <1>8 DEF Inv, Types, PointerTypes
  <2>2. mem' \in [Address -> Byte]
    <3>1. ASSUME NEW a \in Address
          PROVE  (IF Ring(a + BufSize - app.mempt) < n
                  THEN written + Ring(a + BufSize - app.mempt) ELSE mem[a]) \in Byte
      <4>1. a + BufSize - app.mempt \in Int
        BY <1>4, Sizes DEF Address
      <4>2. Ring(a + BufSize - app.mempt) \in Nat
        BY <4>1, Sizes, RingRange
      <4>3. mem[a] \in Byte
        BY DEF Inv, Types, ClientTypes
      <4> HIDE DEF Ring
      <4> QED
        BY <1>1, <1>4, <1>6, <4>2, <4>3, Sizes DEF Byte
    <3> QED
      BY <1>2, <3>1 DEF WriteRing, Address
  <2>3. ClientTypes'
    <3>1. Fifo(data', Seq(Byte))
      BY <1>2, <1>5, FifoAppend DEF Inv, Types, ClientTypes
    <3> QED
      BY <1>1, <1>2, <1>4, <2>2, <3>1, RegisterEmpty, Sizes DEF ClientTypes
  <2>4. EventTypes'
    <3>1. Fifo(appEv', WriteLens)
      BY <1>1, <1>2, FifoAppend DEF Inv, Types, EventTypes
    <3> QED
      BY <1>3, <3>1 DEF Inv, Types, EventTypes
  <2> QED
    BY <1>3, <2>1, <2>3, <2>4, TimerFrame, WireFrame DEF Inv, Types
<1>11. Order'
  <2>1. UNCHANGED <<Acked, Sent, got, edge>>
    BY <1>3 DEF Acked, Sent, wire
  <2> QED
    BY <1>1, <1>2, <1>6, <1>8, <2>1, Places DEF Order
<1>12. Copies'
  <2>1. UNCHANGED <<Acked, edge, ackPush, got, acks>> /\ app.ackd \in Address
    BY <1>3, Places DEF Acked, wire
  <2>2. Behind(app.ackd)' = Behind(app.ackd)
    <3>1. Behind(app.ackd) <= Behind(app.ackd)
      BY Places, BehindIs
    <3>2. ASSUME NEW a, a = app.ackd PROVE Behind(a)' = Behind(a)
      BY <1>9, <2>1, <3>1, <3>2
    <3> QED
      BY <1>8, <3>2 DEF Behind
  <2>3. AppCopy'
    BY <1>8, <2>1, <2>2 DEF Inv, Copies, AppCopy, Copy
  <2>4. ASSUME NEW i \in 1 .. Len(ackPush)
        PROVE  /\ Behind(ackPush[i].ackd)' = Behind(ackPush[i].ackd)
               /\ Copy(ackPush[i], Acked)'
               /\ Behind(app.ackd) <= Behind(ackPush[i].ackd)
    <3>1. ackPush[i] \in Pushed
      BY DEF Inv, Types, PointerTypes, Fifo
    <3>2. ackPush[i].ackd \in Address
      BY <3>1 DEF Pushed
    <3>3. Copy(ackPush[i], Acked) /\ Behind(app.ackd) <= Behind(ackPush[i].ackd)
      BY DEF Inv, Copies, PushCopies
    <3>4. ASSUME NEW a, a = ackPush[i].ackd PROVE Behind(a)' = Behind(a)
      BY <1>9, <3>2, <3>3, <3>4
    <3>5. Behind(ackPush[i].ackd)' = Behind(ackPush[i].ackd)
      BY <2>1, <3>4 DEF Behind
    <3> QED
      BY <2>1, <3>3, <3>5 DEF Copy
  <2>5. PushCopies'
    <3>1. \A i, j \in 1 .. Len(ackPush) :
            i <= j => Behind(ackPush[i].ackd) <= Behind(ackPush[j].ackd)
      BY DEF Inv, Copies, PushCopies
    <3> QED
      BY <2>1, <2>2, <2>4, <3>1 DEF PushCopies
  <2>6. RxRead'
    BY <1>3, RxFrame DEF Inv, Copies, wire
  <2> QED
    BY <1>2, <2>1, <2>3, <2>5, <2>6 DEF Inv, Copies, TasiCopy, AckSeen
<1>13. Payloads'
  <2>1. /\ data \in Seq(Seq(Byte)) /\ appEv \in Seq(WriteLens)
        /\ Len(data) \in Nat /\ Len(appEv) \in Nat
    BY DEF Inv, Types, ClientTypes, EventTypes, Fifo
  <2>2. /\ data' \in Seq(Seq(Byte)) /\ Len(data') = Len(data) + 1
        /\ \A i \in 1 .. Len(data) : data'[i] = data[i]
        /\ data'[Len(data) + 1] = load
    BY <1>2, <1>5, <2>1, Appended
  <2>3. /\ Len(appEv') = Len(appEv) + 1
        /\ \A i \in 1 .. Len(appEv) : appEv'[i] = appEv[i]
        /\ appEv'[Len(appEv) + 1] = n
    BY <1>1, <1>2, <2>1, Appended
  <2>4. Shift' = Shift /\ Loaded' = Loaded /\ Sent' = Sent /\ Shift \in {0, 1}
    BY <1>3 DEF Shift, Loaded, Sent
  <2>5. /\ \A i \in 1 .. Len(data) + 1 : Start(i)' = Start(i)
        /\ Start(Len(data) + 1) = written
        /\ \A k : k = Len(data) + 2 => Start(k)' = w
    <3>1. ASSUME NEW i \in 1 .. Len(data) + 1 PROVE Start(i)' = Start(i)
      <4>1. CASE i <= Len(data)
        BY <2>1, <2>2, <4>1 DEF Start
      <4>2. CASE i = Len(data) + 1
        <5>1. load[1] = written
          BY <1>1, <1>4, <1>5
        <5>2. Start(i)' = load[1]
          BY <2>1, <2>2, <4>2 DEF Start
        <5> QED
          BY <2>1, <4>2, <5>1, <5>2 DEF Start
      <4> QED
        BY <2>1, <4>1, <4>2
    <3>2. Start(Len(data) + 1) = written
      BY <2>1 DEF Start
    <3>3. ~(Len(data) + 2 <= Len(data'))
      BY <2>1, <2>2
    <3>4. ASSUME NEW k, k = Len(data) + 2 PROVE Start(k)' = w
      BY <1>2, <3>3, <3>4 DEF Start
    <3> QED
      BY <3>1, <3>2, <3>4
  <2>6. Payloads
    BY DEF Inv
  <2>7. Len(data') = Len(appEv') + Shift'
    BY <2>1, <2>2, <2>3, <2>4, <2>6 DEF Payloads
  <2>8. Loaded' => ml'[1].notAckd = sar'.notAckd /\ Len(data'[1]) = ml'[1].len
    <3>1. Loaded => 1 \in 1 .. Len(data)
      BY <2>1, <2>6 DEF Payloads, Shift
    <3> QED
      BY <1>3, <2>2, <2>4, <2>6, <3>1 DEF Payloads
  <2>9. ASSUME NEW i \in 1 .. Len(appEv') PROVE Len(data'[i + Shift']) = appEv'[i]
    <3>1. CASE i <= Len(appEv)
      <4>1. i \in 1 .. Len(appEv) /\ i + Shift \in 1 .. Len(data)
        BY <2>1, <2>3, <2>4, <2>6, <3>1 DEF Payloads
      <4> QED
        BY <2>2, <2>3, <2>4, <2>6, <4>1 DEF Payloads
    <3>2. CASE i = Len(appEv) + 1
      <4>1. i + Shift' = Len(data) + 1
        BY <2>1, <2>4, <2>6, <3>2 DEF Payloads
      <4> QED
        BY <1>5, <2>2, <2>3, <3>2, <4>1
    <3> QED
      BY <2>1, <2>3, <3>1, <3>2
  <2>10. Start(1)' = Sent'
    BY <2>1, <2>4, <2>5, <2>6 DEF Payloads
  <2>11. ASSUME NEW i \in 1 .. Len(data')
         PROVE  /\ Len(data'[i]) > 0 /\ Start(i + 1)' = Start(i)' + Len(data'[i])
                /\ Start(i + 1)' <= w
                /\ \A j \in 1 .. Len(data'[i]) : data'[i][j] = Start(i)' + j - 1
    <3>1. CASE i <= Len(data)
      <4>1. i \in 1 .. Len(data) /\ i \in 1 .. Len(data) + 1 /\ i + 1 \in 1 .. Len(data) + 1
        BY <2>1, <2>2, <3>1
      <4>2. /\ Len(data[i]) > 0 /\ Start(i + 1) = Start(i) + Len(data[i])
            /\ Start(i + 1) <= written
            /\ \A j \in 1 .. Len(data[i]) : data[i][j] = Start(i) + j - 1
        BY <2>6, <4>1 DEF Payloads
      <4>3. data'[i] = data[i] /\ Start(i)' = Start(i) /\ Start(i + 1)' = Start(i + 1)
        BY <2>2, <2>5, <4>1
      <4>4. Start(i) \in Int /\ Len(data[i]) \in Nat
        <5>1. data[i] \in Seq(Byte) /\ 1 \in 1 .. Len(data[i])
          BY <2>1, <4>1, <4>2
        <5>2. data[i][1] \in Byte
          BY <5>1
        <5> QED
          BY <5>1, <5>2, <4>1, Sizes DEF Start, Byte
      <4> QED
        BY <1>1, <1>4, <1>6, <4>2, <4>3, <4>4
    <3>2. CASE i = Len(data) + 1
      <4>1. i + 1 = Len(data) + 2 /\ i \in 1 .. Len(data) + 1
        BY <2>1, <3>2
      <4>2. data'[i] = load /\ Start(i)' = written /\ Start(i + 1)' = w
        BY <2>2, <2>5, <3>2, <4>1
      <4>3. Len(load) > 0 /\ w = written + Len(load) /\ w <= w
        BY <1>1, <1>4, <1>5, <1>6
      <4> QED
        BY <1>5, <4>2, <4>3
    <3> QED
      BY <2>1, <2>2, <3>1, <3>2
  <2> QED
    BY <1>2, <2>7, <2>8, <2>9, <2>10, <2>11 DEF Payloads
<1>14. RingHolds'
  <2>1. Acked' = Acked /\ Acked \in Nat /\ w - Acked < BufSize
    <3>1. Behind(app.ackd) <= Acked /\ Behind(app.ackd) \in Int
      BY Places, BehindIs DEF Inv, Copies, AppCopy, Copy
    <3> QED
      BY <1>1, <1>3, <1>4, <3>1, Places, Sizes DEF Acked
  <2>2. ASSUME NEW p \in Acked .. w - 1 PROVE mem'[Slot(p)] = p
    <3>1. p \in Int /\ Slot(p) \in Address
      BY <2>1, SlotIs
    <3>2. mem'[Slot(p)] = IF Ring(Slot(p) + BufSize - Slot(written)) < n
                          THEN written + Ring(Slot(p) + BufSize - Slot(written))
                          ELSE mem[Slot(p)]
      BY <1>2, <1>4, <3>1 DEF WriteRing, Address
    <3>3. CASE p >= written
      <4>1. p - written \in 0 .. BufSize - 1 /\ written + (p - written) = p /\ p - written < n
        BY <1>1, <1>4, <1>6, <2>1, <3>3, Sizes
      <4>2. Ring(Slot(p) + BufSize - Slot(written)) = p - written
        BY <1>4, <4>1, SlotDistance
      <4> QED
        BY <3>2, <4>1, <4>2
    <3>4. CASE p < written
      <4>1. written - p \in 1 .. BufSize - 1 - n /\ p \in Acked .. written - 1
        BY <1>1, <1>4, <1>6, <2>1, <3>4, Sizes
      <4>2. Slot(written) = IF Slot(p) + (written - p) < BufSize THEN Slot(p) + (written - p)
                            ELSE Slot(p) + (written - p) - BufSize
        <5>1. written - p \in 0 .. BufSize /\ p + (written - p) = written
          BY <1>1, <1>4, <3>1, <4>1, Sizes
        <5> QED
          BY <3>1, <5>1, SlotAdd
      <4> DEFINE e == BufSize - (written - p)
      <4>3. e \in 0 .. BufSize - 1 /\ e >= n
        BY <1>1, <1>4, <3>1, <4>1, Sizes
      <4>4. \/ Slot(p) + BufSize - Slot(written) = e
            \/ Slot(p) + BufSize - Slot(written) = e + BufSize
        BY <1>4, <3>1, <4>2, <4>1, Sizes DEF Address
      <4> HIDE DEF e
      <4>5. Ring(Slot(p) + BufSize - Slot(written)) = e
        BY <4>3, <4>4, Sizes, ModSmall DEF Ring
      <4>6. mem[Slot(p)] = p
        BY <4>1 DEF Inv, RingHolds, Unacked, Acked
      <4> QED
        BY <1>1, <3>2, <4>3, <4>5, <4>6
    <3> QED
      BY <1>4, <2>1, <3>3, <3>4
  <2> QED
    BY <1>2, <2>1, <2>2 DEF RingHolds, Unacked, Acked
<1> QED
  BY <1>3, <1>10, <1>11, <1>12, <1>13, <1>14, RtFrame, NetFrame DEF Inv, wire

(* The copy in tx_app_table is replaced by the oldest one on its way. *)
LEMMA PushStep ==
  ASSUME Inv, TakeAckPush
  PROVE  Inv'
<1> DEFINE h == ackPush[1]
<1>1. ackPush \in Seq(Pushed) /\ Len(ackPush) <= Depth /\ ackPush # <<>>
  BY DEF Inv, Types, PointerTypes, Fifo, TakeAckPush
<1>2. /\ h \in Pushed /\ Head(ackPush) = h /\ Len(ackPush) \in Nat \ {0}
      /\ ackPush' \in Seq(Pushed) /\ Len(ackPush') = Len(ackPush) - 1
      /\ \A i \in 1 .. Len(ackPush) - 1 : ackPush'[i] = ackPush[i + 1]
  BY <1>1, HeadAndTail DEF TakeAckPush
<1>3. /\ app' \in AppEntry /\ app'.mempt = app.mempt
      /\ app'.ackd = h.ackd /\ app'.minWindow = h.minWindow
  BY <1>2 DEF TakeAckPush, Inv, Types, PointerTypes, AppEntry, Pushed
<1>4. UNCHANGED <<sess, sar, client, events, ml, rx, timers, wire>>
  BY DEF TakeAckPush
<1> HIDE DEF h
<1>5. \A a : Behind(a)' = Behind(a)
  BY <1>3, <1>4, BehindFrame DEF client
<1>6. UNCHANGED <<Acked, edge, tasi, written, got, acks>> /\ 1 \in 1 .. Len(ackPush)
  BY <1>2, <1>4 DEF Acked, wire, client
<1>7. \A i \in 1 .. Len(ackPush) : ackPush[i].ackd \in Address /\ Behind(ackPush[i].ackd) \in Int
  <2>1. \A i \in 1 .. Len(ackPush) : ackPush[i].ackd \in Address
    <3>1. \A i \in 1 .. Len(ackPush) : ackPush[i] \in Pushed
      BY <1>1
    <3> QED
      BY <3>1 DEF Pushed
  <2> QED
    BY <2>1, BehindIs
<1>8. /\ Copy(h, Acked) /\ Behind(app.ackd) <= Behind(h.ackd)
      /\ Behind(h.ackd) \in Int /\ Behind(app.ackd) \in Int
  BY <1>6, <1>7, Places, BehindIs DEF Inv, Copies, PushCopies, h
<1>9. Types'
  <2>1. PointerTypes'
    BY <1>1, <1>2, <1>3, <1>4, Sizes DEF Inv, Types, PointerTypes, Fifo
  <2> QED
    BY <1>4, <2>1, ClientFrame, EventFrame, TimerFrame, WireFrame DEF Inv, Types
<1>10. AppCopy'
  BY <1>3, <1>5, <1>6, <1>8 DEF AppCopy, Copy
<1>11. PushCopies'
  <2>1. \A i \in 1 .. Len(ackPush) : Copy(ackPush[i], Acked)
    BY DEF Inv, Copies, PushCopies
  <2>2. \A i, j \in 1 .. Len(ackPush) :
          i <= j => Behind(ackPush[i].ackd) <= Behind(ackPush[j].ackd)
    BY DEF Inv, Copies, PushCopies
  <2>3. ASSUME NEW i \in 1 .. Len(ackPush')
        PROVE  /\ i + 1 \in 1 .. Len(ackPush) /\ ackPush'[i] = ackPush[i + 1]
               /\ Behind(ackPush[i].ackd)' = Behind(ackPush[i + 1].ackd)
    <3>1. i + 1 \in 1 .. Len(ackPush) /\ ackPush'[i] = ackPush[i + 1]
      BY <1>2
    <3>2. ASSUME NEW a, a = ackPush'[i].ackd PROVE Behind(a)' = Behind(ackPush[i + 1].ackd)
      BY <1>5, <3>1, <3>2
    <3> QED
      BY <3>1, <3>2 DEF Behind
  <2>4. ASSUME NEW i \in 1 .. Len(ackPush')
        PROVE  Copy(ackPush[i], Acked)' /\ Behind(app.ackd)' <= Behind(ackPush[i].ackd)'
    <3>1. i + 1 \in 1 .. Len(ackPush) /\ 1 <= i + 1
      BY <2>3
    <3>2. Behind(h.ackd) <= Behind(ackPush[i + 1].ackd)
      BY <1>6, <2>2, <3>1 DEF h
    <3>3. Copy(ackPush[i + 1], Acked)
      BY <2>1, <3>1
    <3>4. Behind(app.ackd)' = Behind(h.ackd)
      <4>1. ASSUME NEW a, a = app'.ackd PROVE Behind(a)' = Behind(h.ackd)
        BY <1>3, <1>5, <4>1
      <4> QED
        BY <4>1 DEF Behind
    <3> QED
      BY <1>5, <1>6, <2>3, <3>2, <3>3, <3>4 DEF Copy
  <2>5. ASSUME NEW i \in 1 .. Len(ackPush'), NEW j \in 1 .. Len(ackPush'), i <= j
        PROVE  Behind(ackPush[i].ackd)' <= Behind(ackPush[j].ackd)'
    <3>1. i + 1 <= j + 1
      BY <1>2, <2>5
    <3> QED
      BY <2>2, <2>3, <3>1
  <2> QED
    BY <2>4, <2>5 DEF PushCopies
<1>12. TasiCopy'
  <2>1. CASE tasi = <<>>
    BY <1>6, <2>1 DEF TasiCopy
  <2>2. CASE tasi # <<>>
    <3>1. tasi[1] \in AppWrite
      BY <2>2, RegisterValue DEF Inv, Types, ClientTypes
    <3>2. Behind(tasi[1].app.ackd) \in Int
      BY <3>1, BehindIs DEF AppWrite, AppEntry
    <3>3. Copy(tasi[1].app, Behind(app.ackd)) /\ tasi[1].app.mempt = app.mempt
            /\ written + tasi[1].len <= StreamLen
      BY <2>2 DEF Inv, Copies, TasiCopy
    <3>4. Copy(tasi[1].app, Behind(h.ackd))
      BY <1>8, <3>2, <3>3 DEF Copy
    <3> QED
      BY <1>3, <1>5, <1>6, <3>3, <3>4 DEF TasiCopy, Copy
  <2> QED
    BY <2>1, <2>2
<1>13. Copies'
  BY <1>4, <1>10, <1>11, <1>12, RxFrame DEF Inv, Copies, AckSeen, wire
<1>14. Order'
  BY <1>3, <1>4 DEF Inv, Order, Acked, Sent, wire, client
<1> QED
  BY <1>4, <1>9, <1>13, <1>14, PayloadFrame, RtFrame, RingFrame, NetFrame
  DEF Inv, wire, events, client

-----------------------------------------------------------------------------
(* metaLoader keeps the invariant *)

LEMMA LoadTxStep ==
  ASSUME Inv, MlLoadTx
  PROVE  Inv'
<1> DEFINE e == [rt |-> FALSE, notAckd |-> sar.notAckd, len |-> Head(appEv)]
<1>1. appEv \in Seq(WriteLens) /\ Len(appEv) <= Depth /\ appEv # <<>> /\ ml = <<>>
  BY DEF Inv, Types, EventTypes, Fifo, MlLoadTx
<1>2. /\ Head(appEv) \in WriteLens /\ Head(appEv) = appEv[1] /\ Len(appEv) \in Nat \ {0}
      /\ appEv' \in Seq(WriteLens) /\ Len(appEv') = Len(appEv) - 1
      /\ \A i \in 1 .. Len(appEv) - 1 : appEv'[i] = appEv[i + 1]
  BY <1>1, HeadAndTail DEF MlLoadTx
<1>3. e \in TxEvent /\ ~e.rt /\ e.notAckd = sar.notAckd /\ e.len = appEv[1]
  BY <1>2, Places DEF TxEvent
<1>4. ml' = <<e>>
  BY DEF MlLoadTx
<1>5. UNCHANGED <<sess, app, sar, client, timerEv, fastEv, ackPush, rx, timers, wire>>
  BY DEF MlLoadTx
<1> HIDE DEF e
<1>6. Register(ml', TxEvent \cup RtEvent) /\ ml' # <<>> /\ ml'[1] = e
  BY <1>3, <1>4, RegisterSet
<1>7. Types'
  <2>1. EventTypes'
    BY <1>1, <1>2, <1>5, <1>6, Sizes DEF Inv, Types, EventTypes, Fifo
  <2> QED
    BY <1>5, <2>1, PointerFrame, ClientFrame, TimerFrame, WireFrame DEF Inv, Types
<1>8. Payloads'
  <2>1. Payloads /\ ~Loaded /\ Shift = 0 /\ Loaded' /\ Shift' = 1
    BY <1>1, <1>3, <1>6 DEF Inv, Loaded, Shift
  <2>2. data' = data /\ Sent' = Sent /\ (\A i : Start(i)' = Start(i)) /\ written' = written
    BY <1>5 DEF client, Sent, Start
  <2>3. Len(data) = Len(appEv) /\ \A i \in 1 .. Len(appEv) : Len(data[i + 0]) = appEv[i]
    BY <1>2, <2>1 DEF Payloads
  <2>4. \A i \in 1 .. Len(appEv) : Len(data[i]) = appEv[i]
    BY <2>3
  <2>5. Len(data') = Len(appEv') + Shift'
    BY <1>2, <2>1, <2>2, <2>3
  <2>6. ml'[1].notAckd = sar'.notAckd /\ Len(data'[1]) = ml'[1].len
    BY <1>2, <1>3, <1>5, <1>6, <2>2, <2>4
  <2>7. ASSUME NEW i \in 1 .. Len(appEv') PROVE Len(data'[i + Shift']) = appEv'[i]
    <3>1. i + 1 \in 1 .. Len(appEv) /\ appEv'[i] = appEv[i + 1]
      BY <1>2
    <3> QED
      BY <2>1, <2>2, <2>4, <3>1
  <2> QED
    BY <2>1, <2>2, <2>5, <2>6, <2>7 DEF Payloads
<1>9. RtCovers'
  BY <1>3, <1>6 DEF RtCovers
<1> QED
  BY <1>5, <1>7, <1>8, <1>9, OrderFrame, CopiesFrame, RingFrame, NetFrame
  DEF Inv, wire, client

(* The bytes in flight are fewer than the ring holds. *)
LEMMA InFlightFits ==
  ASSUME Inv
  PROVE  Sent - Acked \in 0 .. BufSize - 1 /\ written - Acked < BufSize
<1>1. Behind(app.ackd) <= Acked /\ Behind(app.ackd) \in Int /\ written - BufSize < Behind(app.ackd)
  BY Places, BehindIs DEF Inv, Copies, AppCopy, Copy
<1> QED
  BY <1>1, Places, Sizes

(* UsedLength is the number of bytes in flight. *)
LEMMA UsedIs ==
  ASSUME Inv
  PROVE  UsedLength(sar) = Sent - Acked
<1> DEFINE d == Sent - Acked
<1>1. d \in 0 .. BufSize - 1 /\ d \in 0 .. SeqSpace - 1
  BY InFlightFits, RingFits, Sizes
<1>2. sar.ackd \in SeqNumbs /\ sar.notAckd \in SeqNumbs
  BY Places
<1>3. \/ sar.notAckd + SeqSpace - sar.ackd = d
      \/ sar.notAckd + SeqSpace - sar.ackd = d + SeqSpace
  <2>1. /\ Acked = IF sar.ackd >= Isn THEN sar.ackd - Isn ELSE sar.ackd + SeqSpace - Isn
        /\ Sent = IF sar.notAckd >= Isn THEN sar.notAckd - Isn
                  ELSE sar.notAckd + SeqSpace - Isn
    BY <1>2, PosIs DEF Acked, Sent
  <2> QED
    BY <1>1, <1>2, <2>1, Sizes DEF SeqNumbs
<1> HIDE DEF d
<1>4. d % BufSize = d
  BY <1>1, Sizes, ModSmall
<1>5. (d + SeqSpace) % BufSize = d
  <2>1. (d + SeqSpace) % SeqSpace = d /\ d + SeqSpace \in Int
    BY <1>1, Sizes, ModSmall
  <2> QED
    BY <1>4, <2>1, Sizes, Divides, ModMod
<1> QED
  BY <1>3, <1>4, <1>5 DEF UsedLength, Ring, d

LEMMA LoadRtStep ==
  ASSUME Inv, MlLoadRt
  PROVE  Inv'
<1> DEFINE e == [rt |-> TRUE, ackd |-> sar.ackd, used |-> UsedLength(sar), segments |-> 0]
<1>1. UsedLength(sar) \in Address /\ Acked + UsedLength(sar) <= Sent
  BY UsedIs, InFlightFits, Places DEF Address
<1>2. e \in RtEvent /\ e.rt /\ e.ackd = sar.ackd /\ e.used = UsedLength(sar)
  BY <1>1, Places DEF RtEvent
<1>3. ml = <<>> /\ ml' = <<e>>
  BY DEF MlLoadRt
<1>4. UNCHANGED <<sess, app, sar, client, appEv, ackPush, rx, timers, wire>>
  BY DEF MlLoadRt
<1>5. timerEv' \in 0 .. Depth /\ fastEv' \in 0 .. Depth
  BY Sizes DEF Inv, Types, EventTypes, MlLoadRt
<1> HIDE DEF e
<1>6. Register(ml', TxEvent \cup RtEvent) /\ ml' # <<>> /\ ml'[1] = e
  BY <1>2, <1>3, RegisterSet
<1>7. Types'
  <2>1. EventTypes'
    BY <1>4, <1>5, <1>6 DEF Inv, Types, EventTypes
  <2> QED
    BY <1>4, <2>1, PointerFrame, ClientFrame, TimerFrame, WireFrame DEF Inv, Types
<1>8. Payloads'
  <2>1. ~Loaded /\ ~Loaded' /\ Shift' = Shift
    BY <1>2, <1>3, <1>6 DEF Loaded, Shift
  <2>2. UNCHANGED <<data, appEv, written, sar, Sent>> /\ (\A i : Start(i)' = Start(i))
    BY <1>4 DEF client, Sent, Start
  <2> QED
    BY <2>1, <2>2 DEF Inv, Payloads
<1>9. RtCovers'
  BY <1>1, <1>2, <1>4, <1>6 DEF RtCovers, Sent, Acked
<1> QED
  BY <1>4, <1>7, <1>8, <1>9, OrderFrame, CopiesFrame, RingFrame, NetFrame
  DEF Inv, wire, client

(* The payload at the head is the one the loaded event was made for, and   *)
(* is sent as the next bytes of the stream.                                *)
LEMMA NextPayload ==
  ASSUME Inv, MlTx
  PROVE  /\ Loaded /\ ml[1] \in TxEvent /\ data[1] \in Seq(Byte)
         /\ ml[1].notAckd = sar.notAckd /\ ml[1].len = Len(data[1])
         /\ Len(data[1]) \in Nat \ {0}
         /\ Start(1) = Sent /\ Start(2) = Sent + Len(data[1]) /\ Start(2) <= written
         /\ \A j \in 1 .. Len(data[1]) : data[1][j] = Sent + j - 1
         /\ sar' = [sar EXCEPT !.notAckd = (ml[1].notAckd + ml[1].len) % SeqSpace]
         /\ sar'.notAckd \in SeqNumbs /\ sar'.ackd = sar.ackd
         /\ Sent' = Sent + Len(data[1])
<1>1. ml # <<>> /\ ~ml[1].rt /\ data # <<>>
  BY DEF MlTx
<1>2. ml[1] \in TxEvent
  <2>1. ml[1] \in TxEvent \cup RtEvent
    BY <1>1, RegisterValue DEF Inv, Types, EventTypes
  <2> QED
    BY <1>1, <2>1 DEF RtEvent
<1>3. data \in Seq(Seq(Byte)) /\ 1 \in 1 .. Len(data)
  BY <1>1 DEF Inv, Types, ClientTypes, Fifo
<1>4. data[1] \in Seq(Byte)
  BY <1>3
<1>5. /\ Loaded /\ ml[1].notAckd = sar.notAckd /\ ml[1].len = Len(data[1])
      /\ Start(1) = Sent /\ Len(data[1]) > 0 /\ Start(1 + 1) = Start(1) + Len(data[1])
      /\ Start(1 + 1) <= written
      /\ \A j \in 1 .. Len(data[1]) : data[1][j] = Start(1) + j - 1
  BY <1>1, <1>3 DEF Inv, Payloads, Loaded
<1>6. Len(data[1]) \in Nat \ {0}
  BY <1>4, <1>5
<1>7. sar' = [sar EXCEPT !.notAckd = (ml[1].notAckd + ml[1].len) % SeqSpace]
  BY DEF MlTx
<1>8. sar'.notAckd = (sar.notAckd + Len(data[1])) % SeqSpace /\ sar'.ackd = sar.ackd
  BY <1>5, <1>7 DEF Inv, Types, PointerTypes, SarEntry
<1>9. Pos(sar.notAckd) + Len(data[1]) < SeqSpace
  BY <1>5, <1>6, Places, Sizes DEF Sent
<1>10. sar'.notAckd \in SeqNumbs /\ Sent' = Sent + Len(data[1])
  BY <1>6, <1>8, <1>9, Places, PosAdd DEF Sent
<1> QED
  BY <1>1, <1>2, <1>4, <1>5, <1>6, <1>7, <1>8, <1>10

LEMMA MlTxStep ==
  ASSUME Inv, MlTx
  PROVE  Inv'
<1> DEFINE n == Len(data[1])
<1>1. /\ Loaded /\ ml[1] \in TxEvent /\ data[1] \in Seq(Byte)
      /\ ml[1].notAckd = sar.notAckd /\ ml[1].len = n /\ n \in Nat \ {0}
      /\ Start(1) = Sent /\ Start(2) = Sent + n /\ Start(2) <= written
      /\ \A j \in 1 .. n : data[1][j] = Sent + j - 1
      /\ sar' = [sar EXCEPT !.notAckd = (ml[1].notAckd + ml[1].len) % SeqSpace]
      /\ sar'.notAckd \in SeqNumbs /\ sar'.ackd = sar.ackd /\ Sent' = Sent + n
  BY NextPayload
<1>2. /\ data \in Seq(Seq(Byte)) /\ Len(data) <= Depth /\ data # <<>>
  BY DEF Inv, Types, ClientTypes, Fifo, MlTx
<1>3. /\ Head(data) = data[1] /\ Len(data) \in Nat \ {0}
      /\ data' \in Seq(Seq(Byte)) /\ Len(data') = Len(data) - 1
      /\ \A i \in 1 .. Len(data) - 1 : data'[i] = data[i + 1]
  BY <1>2, HeadAndTail DEF MlTx
<1>4. ml' = <<>> /\ setQ' = setQ + 1 /\ setQ < Depth
  BY DEF MlTx
<1>5. net' \subseteq net \cup {Segment(sar.notAckd, data[1])}
  BY <1>1, <1>3, AddBounds DEF MlTx
<1>6. UNCHANGED <<sess, app, written, tasi, mem, events, ackPush, rx, timer, clearQ,
                  update, acks, got, edge>>
  BY DEF MlTx
<1>7. Sent \in Nat /\ written \in Nat /\ Acked' = Acked
  BY <1>1, Places DEF Acked
<1>8. Types'
  <2>1. sar' \in SarEntry
    BY <1>1 DEF Inv, Types, PointerTypes, SarEntry
  <2>2. PointerTypes'
    BY <1>6, <2>1 DEF Inv, Types, PointerTypes
  <2>3. ClientTypes'
    BY <1>2, <1>3, <1>6, Sizes DEF Inv, Types, ClientTypes, Fifo
  <2>4. EventTypes'
    BY <1>4, <1>6, RegisterEmpty DEF Inv, Types, EventTypes, events
  <2>5. TimerTypes'
    BY <1>4, <1>6, Sizes DEF Inv, Types, TimerTypes
  <2>6. Segment(sar.notAckd, data[1]) \in Segments
    BY <1>1, Places DEF Segment, Segments
  <2>7. WireTypes'
    BY <1>5, <1>6, <2>6 DEF Inv, Types, WireTypes
  <2> QED
    BY <2>2, <2>3, <2>4, <2>5, <2>7 DEF Types
<1>9. Order'
  BY <1>1, <1>6, <1>7, Places DEF Inv, Order
<1>10. Copies'
  <2>1. RxRead'
    <3>1. CASE rx = <<>>
      BY <1>6, <3>1 DEF RxRead
    <3>2. CASE rx # <<>>
      <4>1. rx[1].nextByte \in SeqNumbs
        <5>1. rx[1] \in AckRead
          BY <3>2, RegisterValue DEF Inv, Types, EventTypes
        <5> QED
          BY <5>1 DEF AckRead
      <4>2. Pos(rx[1].nextByte) \in Nat
        BY <4>1, PosIs, Sizes
      <4>3. Pos(rx[1].nextByte) <= Sent'
        BY <1>1, <1>7, <3>2, <4>2 DEF Inv, Copies, RxRead
      <4> QED
        BY <1>1, <1>6, <1>7, <3>2, <4>3 DEF Inv, Copies, RxRead, AckSeen
    <3> QED
      BY <3>1, <3>2
  <2> QED
    BY <1>1, <1>6, <2>1, AppCopyFrame, PushFrame, TasiFrame DEF Inv, Copies, AckSeen
<1>11. Payloads'
  <2>1. Payloads /\ Loaded /\ Shift = 1 /\ ~Loaded' /\ Shift' = 0
    BY <1>1, <1>4 DEF Inv, Loaded, Shift
  <2>2. Len(appEv) \in Nat /\ appEv' = appEv
    BY <1>6 DEF Inv, Types, EventTypes, Fifo, events
  <2>3. ASSUME NEW i \in 1 .. Len(data) PROVE Start(i)' = Start(i + 1)
    <3>1. CASE i = Len(data)
      BY <1>3, <1>6, <3>1 DEF Start
    <3>2. CASE i # Len(data)
      <4>1. i \in 1 .. Len(data) - 1
        BY <1>3, <3>2
      <4> QED
        BY <1>3, <4>1 DEF Start
    <3> QED
      BY <3>1, <3>2
  <2>4. Len(data') = Len(appEv') + Shift'
    BY <1>3, <2>1, <2>2 DEF Payloads
  <2>5. ASSUME NEW i \in 1 .. Len(appEv') PROVE Len(data'[i + Shift']) = appEv'[i]
    <3>1. i \in 1 .. Len(appEv) /\ i \in 1 .. Len(data) - 1 /\ i + 0 = i
      BY <1>3, <2>1, <2>2 DEF Payloads
    <3>2. Len(data[i + 1]) = appEv[i]
      BY <2>1, <3>1 DEF Payloads
    <3> QED
      BY <1>3, <2>1, <2>2, <3>1, <3>2
  <2>6. Start(1)' = Sent'
    <3>1. 1 \in 1 .. Len(data) /\ 1 + 1 = 2
      BY <1>3
    <3> QED
      BY <1>1, <2>3, <3>1
  <2>7. ASSUME NEW i \in 1 .. Len(data')
        PROVE  /\ Len(data'[i]) > 0 /\ Start(i + 1)' = Start(i)' + Len(data'[i])
               /\ Start(i + 1)' <= written'
               /\ \A j \in 1 .. Len(data'[i]) : data'[i][j] = Start(i)' + j - 1
    <3>1. /\ i \in 1 .. Len(data) /\ i + 1 \in 1 .. Len(data) /\ data'[i] = data[i + 1]
          /\ i \in 1 .. Len(data) - 1
      BY <1>3
    <3>2. Start(i)' = Start(i + 1) /\ Start(i + 1)' = Start((i + 1) + 1)
      BY <2>3, <3>1
    <3>3. /\ Len(data[i + 1]) > 0 /\ Start((i + 1) + 1) = Start(i + 1) + Len(data[i + 1])
          /\ Start((i + 1) + 1) <= written
          /\ \A j \in 1 .. Len(data[i + 1]) : data[i + 1][j] = Start(i + 1) + j - 1
      BY <2>1, <3>1 DEF Payloads
    <3> QED
      BY <1>6, <3>1, <3>2, <3>3
  <2> QED
    BY <2>1, <2>4, <2>5, <2>6, <2>7 DEF Payloads
<1>12. RtCovers'
  BY <1>4 DEF RtCovers
<1>13. InNet'
  <2>1. ASSUME NEW x \in net' PROVE Pos(x.seq) + Len(x.bytes) <= Sent'
    <3>1. CASE x \in net
      <4>1. x \in Segments
        BY <3>1 DEF Inv, Types, WireTypes
      <4>2. Pos(x.seq) \in Nat /\ Len(x.bytes) \in Nat
        BY <4>1, PosIs, Sizes DEF Segments
      <4>3. Pos(x.seq) + Len(x.bytes) <= Sent
        BY <3>1 DEF Inv, InNet
      <4> QED
        BY <1>1, <1>7, <4>2, <4>3
    <3>2. CASE x = Segment(sar.notAckd, data[1])
      BY <1>1, <1>7, <3>2 DEF Segment, Sent
    <3> QED
      BY <1>5, <2>1, <3>1, <3>2
  <2> QED
    BY <2>1 DEF InNet
<1> QED
  BY <1>1, <1>6, <1>8, <1>9, <1>10, <1>11, <1>12, <1>13, RingFrame DEF Inv

(* What the memory returns for an access within the ring. *)
LEMMA BytesIs ==
  ASSUME Inv, NEW c, c.addr \in Nat, c.len \in Nat, c.addr + c.len <= BufSize
  PROVE  /\ Bytes(c) \in Seq(Byte) /\ Len(Bytes(c)) = c.len
         /\ c.session = SessionId =>
              \A i \in 1 .. c.len : Bytes(c)[i] = mem[c.addr + i - 1]
<1>1. ASSUME NEW i \in 1 .. c.len
      PROVE  (IF c.session = SessionId THEN mem[c.addr + i - 1] ELSE -1) \in Byte
  <2>1. c.addr + i - 1 \in Address
    BY Sizes DEF Address
  <2>2. mem[c.addr + i - 1] \in Byte /\ -1 \in Byte
    BY <2>1, Sizes DEF Inv, Types, ClientTypes, Byte
  <2> QED
    BY <2>2
<1>2. Bytes(c) \in [1 .. c.len -> Byte]
  BY <1>1 DEF Bytes
<1>3. Bytes(c) \in Seq(Byte) /\ Len(Bytes(c)) = c.len
  BY <1>2, FunctionIsSeq
<1> QED
  BY <1>3 DEF Bytes

(* What a read of n bytes from address at on returns. *)
LEMMA ReadRingIs ==
  ASSUME Inv, NEW at \in Address, NEW n \in 1 .. BufSize
  PROVE  /\ ReadRing(at, n) \in Seq(Byte) /\ Len(ReadRing(at, n)) = n
         /\ SessionId = 0 =>
              \A i \in 1 .. n : ReadRing(at, n)[i] =
                                mem[IF at + i - 1 < BufSize THEN at + i - 1
                                    ELSE at + i - 1 - BufSize]
<1> DEFINE c == [session |-> SessionId, addr |-> at, len |-> n]
           first == BufSize - at
           c1 == [session |-> SessionId, addr |-> at, len |-> first]
           c2 == [session |-> 0, addr |-> 0, len |-> n - first]
<1>1. at \in Nat /\ first \in Nat /\ at < BufSize
  BY Sizes DEF Address
<1>2. CASE at + n > BufSize
  <2>1. Breakdown(c) = <<c1, c2>>
    BY <1>2 DEF Breakdown
  <2>2. ReadRing(at, n) = Bytes(c1) \o Bytes(c2)
    BY <2>1 DEF ReadRing
  <2>3. /\ Bytes(c1) \in Seq(Byte) /\ Len(Bytes(c1)) = first
        /\ \A i \in 1 .. first : Bytes(c1)[i] = mem[at + i - 1]
    <3>1. c1.addr = at /\ c1.len = first /\ c1.session = SessionId
      OBVIOUS
    <3> HIDE DEF c1
    <3>2. c1.addr + c1.len <= BufSize
      BY <1>1, <3>1, Sizes
    <3> QED
      BY <1>1, <3>1, <3>2, BytesIs
  <2>4. /\ Bytes(c2) \in Seq(Byte) /\ Len(Bytes(c2)) = n - first
        /\ SessionId = 0 => \A i \in 1 .. n - first : Bytes(c2)[i] = mem[i - 1]
    <3>1. c2.addr = 0 /\ c2.len = n - first /\ c2.session = 0
      OBVIOUS
    <3> HIDE DEF c2
    <3>2. c2.addr + c2.len <= BufSize /\ c2.addr \in Nat /\ c2.len \in Nat
      BY <1>1, <1>2, <3>1, Sizes
    <3>3. /\ Bytes(c2) \in Seq(Byte) /\ Len(Bytes(c2)) = c2.len
          /\ SessionId = 0 => \A i \in 1 .. c2.len : Bytes(c2)[i] = mem[c2.addr + i - 1]
      BY <3>1, <3>2, BytesIs
    <3>4. \A i \in 1 .. c2.len : c2.addr + i - 1 = i - 1
      BY <3>1, <3>2
    <3> QED
      BY <3>1, <3>3, <3>4
  <2> HIDE DEF c1, c2
  <2>5. ReadRing(at, n) \in Seq(Byte) /\ Len(ReadRing(at, n)) = n
    <3>1. first + (n - first) = n
      BY <1>1
    <3>2. /\ Bytes(c1) \o Bytes(c2) \in Seq(Byte)
          /\ Len(Bytes(c1) \o Bytes(c2)) = Len(Bytes(c1)) + Len(Bytes(c2))
      BY <2>3, <2>4
    <3> QED
      BY <2>2, <2>3, <2>4, <3>1, <3>2
  <2>6. ASSUME SessionId = 0, NEW i \in 1 .. n
        PROVE  ReadRing(at, n)[i] = mem[IF at + i - 1 < BufSize THEN at + i - 1
                                        ELSE at + i - 1 - BufSize]
    <3>1. CASE i <= first
      <4>1. i \in 1 .. first /\ at + i - 1 < BufSize
        BY <1>1, <3>1, Sizes
      <4>2. (Bytes(c1) \o Bytes(c2))[i] = Bytes(c1)[i]
        BY <2>3, <2>4, <4>1
      <4> QED
        BY <2>2, <2>3, <4>1, <4>2
    <3>2. CASE i > first
      <4>1. i - first \in 1 .. n - first /\ ~(at + i - 1 < BufSize)
              /\ (i - first) - 1 = at + i - 1 - BufSize
        BY <1>1, <3>2, Sizes
      <4>2. (Bytes(c1) \o Bytes(c2))[i] = Bytes(c2)[i - first]
        BY <1>1, <2>3, <2>4, <3>2, <4>1
      <4>3. Bytes(c2)[i - first] = mem[(i - first) - 1]
        BY <2>4, <2>6, <4>1
      <4> QED
        BY <2>2, <4>1, <4>2, <4>3
    <3> QED
      BY <1>1, <3>1, <3>2
  <2> QED
    BY <2>5, <2>6
<1>3. CASE ~(at + n > BufSize)
  <2>1. Breakdown(c) = <<c>>
    BY <1>3 DEF Breakdown
  <2>2. ReadRing(at, n) = Bytes(c)
    BY <2>1 DEF ReadRing
  <2>3. c.addr = at /\ c.len = n /\ c.session = SessionId
    OBVIOUS
  <2> HIDE DEF c
  <2>4. c.addr + c.len <= BufSize /\ c.len \in Nat
    BY <1>1, <1>3, <2>3, Sizes
  <2>5. /\ Bytes(c) \in Seq(Byte) /\ Len(Bytes(c)) = n
        /\ \A i \in 1 .. n : Bytes(c)[i] = mem[at + i - 1]
    BY <1>1, <2>3, <2>4, BytesIs
  <2>6. \A i \in 1 .. n : at + i - 1 < BufSize
    BY <1>1, <1>3, Sizes
  <2> QED
    BY <2>2, <2>5, <2>6
<1> QED
  BY <1>2, <1>3

(* A retransmission: the segment lies within what has been sent. *)
LEMMA RtSegment ==
  ASSUME Inv, MlRt
  PROVE  /\ ml[1] \in RtEvent /\ Pos(ml[1].ackd) \in Nat
         /\ Pos(ml[1].ackd) + ml[1].used <= Sent
         /\ PkgAddr(ml[1]) = Slot(Pos(ml[1].ackd)) /\ PkgAddr(ml[1]) \in Address
<1>1. ml # <<>> /\ ml[1].rt
  BY DEF MlRt
<1>2. ml[1] \in RtEvent
  <2>1. ml[1] \in TxEvent \cup RtEvent
    BY <1>1, RegisterValue DEF Inv, Types, EventTypes
  <2> QED
    BY <1>1, <2>1 DEF TxEvent
<1>3. ml[1].ackd \in SeqNumbs
  BY <1>2 DEF RtEvent
<1>4. Pos(ml[1].ackd) \in Nat
  BY <1>3, PosIs, Sizes
<1>5. PkgAddr(ml[1]) = Slot(Pos(ml[1].ackd))
  BY <1>3, RingOfSeq DEF PkgAddr
<1> QED
  BY <1>1, <1>2, <1>4, <1>5, SlotIs DEF Inv, RtCovers

LEMMA MlRtStep ==
  ASSUME Inv, MlRt
  PROVE  Inv'
<1> DEFINE m == ml[1]
           len == IF m.used > Mss THEN Mss ELSE m.used
           seg == Segment(m.ackd, ReadRing(PkgAddr(m), len))
           next == [m EXCEPT !.ackd = (@ + Mss) % SeqSpace, !.used = @ - Mss, !.segments = @ + 1]
<1>1. /\ m \in RtEvent /\ Pos(m.ackd) \in Nat /\ Pos(m.ackd) + m.used <= Sent
      /\ PkgAddr(m) \in Address
  BY RtSegment
<1>2. m.ackd \in SeqNumbs /\ m.used \in Address /\ m.segments \in 0 .. 3 /\ m.rt
  BY <1>1 DEF RtEvent
<1>3. m.used \in Nat /\ m.used < BufSize /\ len \in Nat /\ len <= m.used
  BY <1>2, Sizes DEF Address
<1>4. UNCHANGED <<sess, app, sar, client, events, ackPush, rx, timer, clearQ, update, acks,
                  got, edge>>
  BY DEF MlRt
<1>5. ml' = IF m.used > Mss /\ m.segments # 3 THEN <<next>> ELSE <<>>
  BY DEF MlRt
<1>6. net' \subseteq net \cup {seg} /\ setQ' \in 0 .. Depth /\ (len = 0 => net' = net)
  <2>1. setQ \in 0 .. Depth /\ setQ < Depth
    BY DEF Inv, Types, TimerTypes, MlRt
  <2>2. CASE len # 0
    <3>1. net' \in Add(seg, net, SegCap) /\ setQ' = setQ + 1
      BY <2>2 DEF MlRt
    <3> QED
      BY <2>1, <2>2, <3>1, AddBounds, Sizes
  <2>3. CASE len = 0
    BY <2>1, <2>3 DEF MlRt
  <2> QED
    BY <2>2, <2>3
<1>7. Sent \in Nat /\ Sent' = Sent /\ Sent <= written
  BY <1>4, Places DEF Sent
<1>8. ASSUME m.used > Mss, m.segments # 3
      PROVE  /\ next \in RtEvent /\ next.rt /\ Pos(next.ackd) + next.used <= Sent
  <2>1. Pos(m.ackd) + Mss < SeqSpace
    BY <1>1, <1>3, <1>7, <1>8, Places, Sizes
  <2>2. /\ (m.ackd + Mss) % SeqSpace \in SeqNumbs
        /\ Pos((m.ackd + Mss) % SeqSpace) = Pos(m.ackd) + Mss
    BY <1>2, <2>1, PosAdd, Sizes
  <2>3. m.used - Mss \in Address
    BY <1>3, <1>8, Sizes DEF Address
  <2>4. m.segments + 1 \in 0 .. 3
    BY <1>2, <1>8
  <2>5. next \in RtEvent /\ next.rt /\ next.ackd = (m.ackd + Mss) % SeqSpace
          /\ next.used = m.used - Mss
    BY <1>1, <2>2, <2>3, <2>4 DEF RtEvent
  <2> QED
    BY <1>1, <1>3, <1>7, <2>2, <2>5, Sizes
<1> HIDE DEF next
<1>9. Register(ml', TxEvent \cup RtEvent) /\ (ml' # <<>> => ml'[1].rt)
        /\ (ml' # <<>> => Pos(ml'[1].ackd) + ml'[1].used <= Sent)
  <2>1. CASE m.used > Mss /\ m.segments # 3
    BY <1>5, <1>8, <2>1, RegisterSet
  <2>2. CASE ~(m.used > Mss /\ m.segments # 3)
    BY <1>5, <2>2, RegisterEmpty
  <2> QED
    BY <2>1, <2>2
<1>10. len # 0 => seg \in Segments /\ seg.seq = m.ackd /\ Len(seg.bytes) = len
  <2>1. SUFFICES ASSUME len # 0 PROVE seg \in Segments /\ seg.seq = m.ackd /\ Len(seg.bytes) = len
    OBVIOUS
  <2>2. len \in 1 .. BufSize
    BY <1>3, <2>1, Sizes
  <2> HIDE DEF m, len
  <2>3. ReadRing(PkgAddr(m), len) \in Seq(Byte) /\ Len(ReadRing(PkgAddr(m), len)) = len
    BY <1>1, <2>2, ReadRingIs
  <2> QED
    BY <1>2, <2>3 DEF Segment, Segments
<1>11. Types'
  <2>1. EventTypes'
    BY <1>4, <1>9 DEF Inv, Types, EventTypes, events
  <2>2. TimerTypes'
    BY <1>4, <1>6 DEF Inv, Types, TimerTypes
  <2>3. WireTypes'
    <3> HIDE DEF seg, len
    <3> QED
      BY <1>4, <1>6, <1>10 DEF Inv, Types, WireTypes
  <2> QED
    BY <1>4, <2>1, <2>2, <2>3, PointerFrame, ClientFrame DEF Inv, Types
<1>12. Payloads'
  <2>1. ~Loaded /\ ~Loaded' /\ Shift' = Shift
    BY <1>2, <1>9 DEF Loaded, Shift
  <2>2. UNCHANGED <<data, appEv, written, sar, Sent>> /\ (\A i : Start(i)' = Start(i))
    BY <1>4 DEF client, Sent, Start, events
  <2> QED
    BY <2>1, <2>2 DEF Inv, Payloads
<1>13. RtCovers'
  BY <1>7, <1>9 DEF RtCovers
<1>14. InNet'
  <2>1. ASSUME NEW x \in net' PROVE Pos(x.seq) + Len(x.bytes) <= Sent'
    <3>1. CASE x \in net
      BY <1>7, <3>1 DEF Inv, InNet
    <3>2. CASE x \notin net
      <4>1. x = seg /\ len # 0
        <5> HIDE DEF seg, len
        <5> QED
          BY <1>6, <2>1, <3>2
      <4>2. x.seq = m.ackd /\ Len(x.bytes) = len
        <5> HIDE DEF seg, len
        <5> QED
          BY <1>10, <4>1
      <4> HIDE DEF len
      <4> QED
        BY <1>1, <1>3, <1>7, <4>2
    <3> QED
      BY <3>1, <3>2
  <2> QED
    BY <2>1 DEF InNet
<1> QED
  BY <1>4, <1>11, <1>12, <1>13, <1>14, OrderFrame, CopiesFrame, RingFrame DEF Inv, client

-----------------------------------------------------------------------------
(* rxTcpFSM and the timer keep the invariant *)

LEMMA RxLoadStep ==
  ASSUME Inv, NEW a \in acks, RxLoad(a)
  PROVE  Inv'
<1> DEFINE r == [sess |-> sess, ack |-> a.ack, win |-> a.win, prevAck |-> sar.ackd,
                 nextByte |-> sar.notAckd, count |-> sar.count, fastRt |-> sar.fastRt]
<1>1. a \in Acks
  BY DEF Inv, Types, WireTypes
<1>2. r \in AckRead
  BY <1>1 DEF Inv, Types, PointerTypes, SarEntry, AckRead, Acks
<1>3. r.ack = a.ack /\ r.win = a.win /\ r.prevAck = sar.ackd /\ r.nextByte = sar.notAckd
  OBVIOUS
<1>4. rx' = <<r>>
  BY DEF RxLoad
<1>5. UNCHANGED <<sess, app, sar, client, events, ml, ackPush, timers, wire>>
  BY DEF RxLoad
<1> HIDE DEF r
<1>6. Register(rx', AckRead) /\ rx'[1] = r
  BY <1>2, <1>4, RegisterSet
<1>7. Types'
  <2>1. EventTypes'
    BY <1>5, <1>6 DEF Inv, Types, EventTypes, events
  <2> QED
    BY <1>5, <2>1, PointerFrame, ClientFrame, TimerFrame, WireFrame DEF Inv, Types
<1>8. RxRead'
  <2>1. Pos(a.ack) \in Nat /\ AckSeen(a)
    BY <1>1, PosIs, Sizes DEF Acks, Inv, Copies
  <2>2. Pos(a.ack) <= Sent
    BY <2>1, Places DEF AckSeen
  <2> QED
    BY <1>3, <1>5, <1>6, <2>1, <2>2, Places DEF RxRead, AckSeen, Sent, Acked, wire
<1>9. Copies'
  BY <1>5, <1>8, AppCopyFrame, PushFrame, TasiFrame DEF Inv, Copies, AckSeen, wire, client
<1> QED
  BY <1>5, <1>7, <1>9, OrderFrame, PayloadFrame, RtFrame, RingFrame, NetFrame
  DEF Inv, wire, client, events

(* The test of rxTcpFSM, on numbers that wrap: the acknowledgement moves   *)
(* the pointer forward, although nextByte may be old.                      *)
LEMMA AckForward ==
  ASSUME Inv, rx # <<>>, InFlight(rx[1])
  PROVE  Acked <= Pos(rx[1].ack)
<1> DEFINE r == rx[1]
<1>1. r \in AckRead
  BY RegisterValue DEF Inv, Types, EventTypes
<1>2. r.ack \in SeqNumbs /\ r.prevAck \in SeqNumbs /\ r.nextByte \in SeqNumbs
  BY <1>1 DEF AckRead
<1>3. /\ r.prevAck = sar.ackd /\ Pos(r.ack) <= Pos(r.nextByte)
  BY DEF Inv, Copies, RxRead
<1>4. Pos(r.prevAck) <= Pos(r.nextByte)
  <2>1. Pos(r.ack) \in Nat /\ Pos(r.nextByte) \in Nat /\ Pos(r.prevAck) = Acked
    BY <1>2, <1>3, PosIs, Sizes DEF Acked
  <2>2. Acked <= Pos(r.nextByte)
    BY DEF Inv, Copies, RxRead
  <2> QED
    BY <2>1, <2>2
<1>5. /\ Pos(r.ack) = IF r.ack >= Isn THEN r.ack - Isn ELSE r.ack + SeqSpace - Isn
      /\ Pos(r.prevAck) = IF r.prevAck >= Isn THEN r.prevAck - Isn
                          ELSE r.prevAck + SeqSpace - Isn
      /\ Pos(r.nextByte) = IF r.nextByte >= Isn THEN r.nextByte - Isn
                           ELSE r.nextByte + SeqSpace - Isn
  BY <1>2, PosIs
<1>6. \/ r.prevAck <= r.ack /\ r.ack <= r.nextByte
      \/ (r.prevAck <= r.ack \/ r.ack <= r.nextByte) /\ r.nextByte < r.prevAck
  BY DEF InFlight
<1> HIDE DEF r
<1>7. Pos(r.prevAck) <= Pos(r.ack)
  BY <1>2, <1>3, <1>4, <1>5, <1>6, Sizes DEF SeqNumbs
<1> QED
  BY <1>3, <1>7 DEF r, Acked

LEMMA RxAckStep ==
  ASSUME Inv, RxAck
  PROVE  Inv'
<1> DEFINE r == rx[1]
<1>1. rx # <<>> /\ Room(clearQ) /\ Room(ackPush) /\ fastEv < Depth /\ rx' = <<>>
  BY DEF RxAck
<1>2. r \in AckRead
  BY <1>1, RegisterValue DEF Inv, Types, EventTypes
<1>3. r.ack \in SeqNumbs /\ r.win \in Windows /\ r.count \in 0 .. 3 /\ r.fastRt \in BOOLEAN
  BY <1>2 DEF AckRead
<1>4. UNCHANGED <<sess, app, client, appEv, timerEv, ml, timer, setQ, update, wire>>
  BY DEF RxAck
<1>5. /\ clearQ' = Append(clearQ, r.ack = r.nextByte)
      /\ fastEv' = fastEv + 1 \/ fastEv' = fastEv
  BY DEF RxAck
<1>6. EventTypes' /\ TimerTypes'
  <2>1. fastEv' \in 0 .. Depth
    BY <1>1, <1>5, Sizes DEF Inv, Types, EventTypes
  <2>2. (r.ack = r.nextByte) \in BOOLEAN
    OBVIOUS
  <2>3. Fifo(clearQ', BOOLEAN)
    BY <1>1, <1>5, <2>2, FifoAppend DEF Inv, Types, TimerTypes
  <2> QED
    BY <1>1, <1>4, <2>1, <2>3, RegisterEmpty DEF Inv, Types, EventTypes, TimerTypes
<1>7. CASE ~(r.sess = "ESTABLISHED" /\ InFlight(r))
  <2>1. UNCHANGED <<sar, ackPush>>
    BY <1>7 DEF RxAck
  <2>2. Types'
    BY <1>4, <1>6, <2>1, PointerFrame, ClientFrame, WireFrame DEF Inv, Types
  <2>3. Copies'
    BY <1>1, <1>4, <2>1, AppCopyFrame, PushFrame, TasiFrame
    DEF Inv, Copies, RxRead, AckSeen, wire, client
  <2> QED
    BY <1>4, <2>1, <2>2, <2>3, OrderFrame, PayloadFrame, RtFrame, RingFrame, NetFrame
    DEF Inv, wire, client
<1>8. CASE r.sess = "ESTABLISHED" /\ InFlight(r)
  <2>1. PICK c \in CongWindows :
          ackPush' = Append(ackPush, [ackd |-> Ring(r.ack),
                                      minWindow |-> IF c < r.win THEN c ELSE r.win])
    BY <1>8 DEF RxAck
  <2> DEFINE e == [ackd |-> Ring(r.ack), minWindow |-> IF c < r.win THEN c ELSE r.win]
             k == Pos(r.ack)
  <2>2. sar' = [sar EXCEPT !.ackd = r.ack, !.count = Count(r),
                           !.fastRt = Count(r) = 3 \/ FastRt(r)]
    BY <1>8 DEF RxAck
  <2>3. k \in Nat /\ Acked <= k /\ k <= Len(got) /\ k + r.win <= edge
    <3>1. AckSeen(r)
      BY <1>1 DEF Inv, Copies, RxRead
    <3> QED
      BY <1>1, <1>3, <1>8, <3>1, AckForward, PosIs, Sizes DEF AckSeen
  <2>4. /\ sar' \in SarEntry /\ Acked' = k /\ Sent' = Sent /\ sar'.notAckd = sar.notAckd
        /\ sar'.ackd = r.ack
    <3>1. Count(r) \in 0 .. 3 /\ (Count(r) = 3 \/ FastRt(r)) \in BOOLEAN
      BY <1>3 DEF Count, FastRt
    <3>2. /\ sar' \in SarEntry /\ sar'.ackd = r.ack /\ sar'.notAckd = sar.notAckd
      BY <1>3, <2>2, <3>1 DEF Inv, Types, PointerTypes, SarEntry
    <3> QED
      BY <3>2 DEF Acked, Sent
  <2>5. e.ackd = Slot(k) /\ e.ackd \in Address
    <3>1. Slot(k) \in Address
      BY <2>3, SlotIs
    <3> QED
      BY <1>3, <3>1, RingOfSeq
  <2>6. e.minWindow \in Address /\ e.minWindow <= r.win /\ r.win \in Nat
    <3>1. r.win \in 0 .. BufSize - 1 /\ c \in 1 .. BufSize - 1
      BY <1>3, Sizes
    <3>2. e.minWindow = IF c < r.win THEN c ELSE r.win
      OBVIOUS
    <3> HIDE DEF e, r
    <3> QED
      BY <3>1, <3>2, Sizes DEF Address
  <2>7. e \in Pushed
    BY <2>5, <2>6 DEF Pushed
  <2> HIDE DEF e, k
  <2>8. Behind(e.ackd) = k
    <3>1. k \in Int /\ k <= written /\ written - k < BufSize /\ written \in Int
      BY <2>3, InFlightFits, Places, Sizes
    <3>2. written - Ring(Slot(written) + BufSize - Slot(k)) = k
      BY <3>1, DistanceIs
    <3> QED
      BY <2>5, <3>2 DEF Behind, Inv, Order
  <2>9. Copy(e, k)
    <3>1. k + e.minWindow <= edge
      BY <2>3, <2>6, Places DEF Address
    <3> QED
      BY <2>3, <2>8, <3>1 DEF Copy
  <2>10. /\ ackPush \in Seq(Pushed) /\ Len(ackPush) \in Nat
         /\ ackPush' \in Seq(Pushed) /\ Len(ackPush') = Len(ackPush) + 1
         /\ \A i \in 1 .. Len(ackPush) : ackPush'[i] = ackPush[i]
         /\ ackPush'[Len(ackPush) + 1] = e
    <3>1. ackPush \in Seq(Pushed) /\ ackPush' = Append(ackPush, e)
      BY <2>1 DEF Inv, Types, PointerTypes, Fifo, e
    <3> QED
      BY <2>7, <3>1, Appended
  <2>11. UNCHANGED <<edge, written, app, tasi, got, acks, data, mem, net>>
           /\ \A a : Behind(a)' = Behind(a)
    BY <1>4, BehindFrame DEF wire, client
  <2>12. Types'
    <3>1. Fifo(ackPush', Pushed)
      BY <1>1, <2>10, Sizes DEF Fifo, Room
    <3>2. PointerTypes'
      BY <1>4, <2>4, <3>1 DEF Inv, Types, PointerTypes
    <3> QED
      BY <1>4, <1>6, <3>2, ClientFrame, WireFrame DEF Inv, Types
  <2>13. Order'
    BY <2>3, <2>4, <2>11, Places DEF Inv, Order
  <2>14. \A a : Copy(a, Acked) /\ Behind(a.ackd) \in Int => Copy(a, k) /\ Behind(a.ackd) <= k
    BY <2>3, Places DEF Copy
  <2>15. \A a : Copy(a, k) => Copy(a, Acked)'
    BY <2>4, <2>11 DEF Copy
  <2>16. Behind(app.ackd) \in Int /\ Copy(app, Acked) /\ Behind(app.ackd)' = Behind(app.ackd)
    BY <2>11, Places, BehindIs DEF Inv, Copies, AppCopy, Behind
  <2>17. AppCopy'
    BY <2>4, <2>11, <2>14, <2>16 DEF AppCopy, Copy
  <2>18. ASSUME NEW i \in 1 .. Len(ackPush)
         PROVE  /\ Copy(ackPush[i], k) /\ Behind(app.ackd) <= Behind(ackPush[i].ackd)
                /\ Behind(ackPush[i].ackd) <= k /\ ackPush'[i] = ackPush[i]
    <3>1. ackPush[i] \in Pushed
      BY <2>10
    <3>2. Behind(ackPush[i].ackd) \in Int
      BY <3>1, BehindIs DEF Pushed
    <3>3. Copy(ackPush[i], Acked) /\ Behind(app.ackd) <= Behind(ackPush[i].ackd)
      BY DEF Inv, Copies, PushCopies
    <3> QED
      BY <2>10, <2>14, <3>2, <3>3
  <2>19. ASSUME NEW i \in 1 .. Len(ackPush')
         PROVE  /\ Copy(ackPush'[i], k) /\ Behind(app.ackd) <= Behind(ackPush'[i].ackd)
                /\ Behind(ackPush'[i].ackd) <= k
    <3>1. CASE i = Len(ackPush) + 1
      BY <2>3, <2>8, <2>9, <2>10, <2>14, <2>16, <3>1
    <3>2. CASE i # Len(ackPush) + 1
      <4>1. i \in 1 .. Len(ackPush)
        BY <2>10, <3>2
      <4> QED
        BY <2>18, <4>1
    <3> QED
      BY <3>1, <3>2
  <2>20. ASSUME NEW i \in 1 .. Len(ackPush'), NEW j \in 1 .. Len(ackPush'), i <= j
         PROVE  Behind(ackPush'[i].ackd) <= Behind(ackPush'[j].ackd)
    <3>1. CASE j = Len(ackPush) + 1
      BY <2>8, <2>10, <2>19, <3>1
    <3>2. CASE j # Len(ackPush) + 1
      <4>1. i \in 1 .. Len(ackPush) /\ j \in 1 .. Len(ackPush)
        BY <2>10, <2>20, <3>2
      <4>2. Behind(ackPush[i].ackd) <= Behind(ackPush[j].ackd)
        BY <2>20, <4>1 DEF Inv, Copies, PushCopies
      <4> QED
        BY <2>10, <4>1, <4>2
    <3> QED
      BY <3>1, <3>2
  <2>21. PushCopies'
    <3>1. ASSUME NEW i \in 1 .. Len(ackPush')
          PROVE  /\ Copy(ackPush[i], Acked)' /\ Behind(app.ackd)' <= Behind(ackPush[i].ackd)'
                 /\ Behind(ackPush[i].ackd)' = written - Ring(app.mempt + BufSize - ackPush'[i].ackd)
      BY <2>4, <2>11, <2>16, <2>19 DEF Copy, Behind
    <3> QED
      BY <2>20, <3>1 DEF PushCopies, Behind
  <2>22. Copies'
    BY <1>1, <2>11, <2>17, <2>21, TasiFrame DEF Inv, Copies, RxRead, AckSeen
  <2>23. RingHolds'
    <3>1. \A p \in k .. written - 1 : p \in Acked .. written - 1
      BY <2>3, Places
    <3> QED
      BY <2>4, <2>11, <3>1 DEF Inv, RingHolds, Unacked, Acked
  <2> QED
    BY <1>4, <2>4, <2>11, <2>12, <2>13, <2>22, <2>23, PayloadFrame, RtFrame, NetFrame DEF Inv
<1> QED
  BY <1>7, <1>8

LEMMA TimerStep ==
  ASSUME Inv, ClearRead \/ ClearLate \/ TimerSet \/ Timeout
  PROVE  Inv'
<1>1. UNCHANGED <<app, sar, client, appEv, fastEv, ml, ackPush, rx, wire>>
  BY DEF ClearRead, ClearLate, TimerSet, Timeout, events
<1>2. sess' \in SessStates /\ timerEv' \in 0 .. Depth /\ TimerTypes'
  <2>1. /\ sess \in SessStates /\ timerEv \in 0 .. Depth /\ timer \in Timers /\ setQ \in 0 .. Depth
        /\ Fifo(clearQ, BOOLEAN) /\ Register(update, BOOLEAN)
    BY DEF Inv, Types, PointerTypes, EventTypes, TimerTypes
  <2>2. \A b \in BOOLEAN : Clear(b) => timer' \in Timers
    BY <2>1, Sizes DEF Clear, Timers
  <2>3. CASE ClearRead
    <3>1. Head(clearQ) \in BOOLEAN /\ Fifo(clearQ', BOOLEAN)
      BY <2>1, <2>3, FifoTail DEF ClearRead
    <3>2. timer' \in Timers /\ Register(update', BOOLEAN)
      BY <2>1, <2>2, <2>3, <3>1, RegisterSet DEF ClearRead
    <3> QED
      BY <2>1, <2>3, <3>1, <3>2 DEF ClearRead, TimerTypes, events
  <2>4. CASE ClearLate
    <3>1. update[1] \in BOOLEAN
      BY <2>1, <2>4, RegisterValue DEF ClearLate
    <3> QED
      BY <2>1, <2>2, <2>4, <3>1, RegisterEmpty DEF ClearLate, TimerTypes, events
  <2>5. CASE TimerSet
    <3>1. timer' \in Timers
      BY <2>1, <2>5 DEF TimerSet, Timers
    <3>2. setQ' \in 0 .. Depth
      BY <2>1, <2>5, Sizes DEF TimerSet
    <3> QED
      BY <2>1, <2>5, <3>1, <3>2 DEF TimerSet, TimerTypes, events
  <2>6. CASE Timeout
    <3>1. timerEv' \in 0 .. Depth /\ sess' \in SessStates
      BY <2>1, <2>6, Sizes DEF Timeout, SessStates
    <3>2. timer.retries \in 0 .. RetryLimit
      BY <2>1 DEF Timers
    <3>3. timer.retries < RetryLimit => timer.retries + 1 \in 0 .. RetryLimit
      BY <3>2, Sizes
    <3>4. 0 \in 0 .. RetryLimit
      BY Sizes
    <3>5. timer' \in Timers
      <4>1. CASE timer.retries < RetryLimit
        <5>1. timer' = [active |-> FALSE, retries |-> timer.retries + 1]
          BY <2>6, <4>1 DEF Timeout
        <5> QED
          BY <3>3, <4>1, <5>1 DEF Timers
      <4>2. CASE ~(timer.retries < RetryLimit)
        <5>1. timer' = [active |-> FALSE, retries |-> 0]
          BY <2>6, <4>2 DEF Timeout
        <5> QED
          BY <3>4, <5>1 DEF Timers
      <4> QED
        BY <4>1, <4>2
    <3> QED
      BY <2>1, <2>6, <3>1, <3>5 DEF Timeout, TimerTypes
  <2> QED
    BY <2>3, <2>4, <2>5, <2>6
<1>3. Types'
  <2>1. PointerTypes' /\ EventTypes'
    BY <1>1, <1>2 DEF Inv, Types, PointerTypes, EventTypes
  <2> QED
    BY <1>1, <1>2, <2>1, ClientFrame, WireFrame DEF Inv, Types
<1> QED
  BY <1>1, <1>3, OrderFrame, CopiesFrame, PayloadFrame, RtFrame, RingFrame, NetFrame
  DEF Inv, wire, client

(* The peer takes a segment: its acknowledgement and its window. *)
LEMMA PeerTakes ==
  ASSUME Inv, NEW x \in net, NEW w \in Windows, PeerReceive(x, w)
  PROVE  /\ got' \in Seq(Byte) /\ Len(got') \in Nat /\ Len(got) <= Len(got') /\ Len(got') <= Sent
         /\ \A i \in 1 .. Len(got) : got'[i] = got[i]
         /\ \A i \in Len(got) + 1 .. Len(got') :
              /\ i - Pos(x.seq) \in 1 .. Len(x.bytes)
              /\ got'[i] = x.bytes[i - Pos(x.seq)]
<1> DEFINE p == Pos(x.seq)
           skip == Len(got) - p
           rest == SubSeq(x.bytes, skip + 1, Len(x.bytes))
<1>1. x \in Segments
  BY DEF Inv, Types, WireTypes
<1>2. p \in Nat /\ x.bytes \in Seq(Byte) /\ Len(x.bytes) \in Nat
  BY <1>1, PosIs, Sizes DEF Segments
<1>3. p + Len(x.bytes) <= Sent /\ got \in Seq(Byte) /\ Len(got) \in Nat /\ skip \in Int
  BY <1>2, Places DEF Inv, InNet, Types, WireTypes
<1>4. got' = IF skip \in 0 .. Len(x.bytes) THEN got \o rest ELSE got
  BY DEF PeerReceive
<1>5. CASE skip \in 0 .. Len(x.bytes)
  <2> HIDE DEF p
  <2>1. /\ rest \in Seq(Byte) /\ Len(rest) = Len(x.bytes) - skip
        /\ \A j \in 1 .. Len(x.bytes) - skip : rest[j] = x.bytes[skip + j]
    <3>1. skip + 1 \in 1 .. Len(x.bytes) + 1
      BY <1>2, <1>5
    <3> HIDE DEF skip
    <3>2. \A b \in Seq(Byte), k \in Nat : k + 1 <= Len(b) + 1 =>
            /\ SubSeq(b, k + 1, Len(b)) \in Seq(Byte)
            /\ Len(SubSeq(b, k + 1, Len(b))) = Len(b) - k
            /\ \A j \in 1 .. Len(b) - k : SubSeq(b, k + 1, Len(b))[j] = b[k + j]
      OBVIOUS
    <3> QED
      BY <1>2, <1>5, <3>1, <3>2, SMTT(40)
  <2> HIDE DEF rest, skip
  <2>2. /\ got' \in Seq(Byte) /\ Len(got') = Len(got) + Len(rest)
        /\ \A i \in 1 .. Len(got) : got'[i] = got[i]
        /\ \A i \in Len(got) + 1 .. Len(got) + Len(rest) : got'[i] = rest[i - Len(got)]
    <3>1. got' = got \o rest
      BY <1>4, <1>5 DEF skip, rest
    <3> QED
      BY <1>3, <2>1, <3>1, Concatenated
  <2>3. Len(got') = p + Len(x.bytes)
    BY <1>2, <1>3, <2>1, <2>2 DEF skip
  <2>4. ASSUME NEW i \in Len(got) + 1 .. Len(got')
        PROVE  i - p \in 1 .. Len(x.bytes) /\ got'[i] = x.bytes[i - p]
    <3>1. i - Len(got) \in 1 .. Len(x.bytes) - skip /\ skip + (i - Len(got)) = i - p
            /\ i - p \in 1 .. Len(x.bytes)
      BY <1>2, <1>3, <1>5, <2>3 DEF skip
    <3> QED
      BY <2>1, <2>2, <3>1
  <2>5. Len(got') \in Nat /\ Len(got) <= Len(got') /\ Len(got') <= Sent
    BY <1>2, <1>3, <1>5, <2>3, Places DEF skip
  <2> QED
    BY <2>2, <2>4, <2>5 DEF p
<1>6. CASE ~(skip \in 0 .. Len(x.bytes))
  <2>1. got' = got
    BY <1>4, <1>6
  <2> QED
    BY <1>3, <2>1, Places
<1> QED
  BY <1>5, <1>6

LEMMA PeerStep ==
  ASSUME Inv, NEW x \in net, NEW w \in Windows, PeerReceive(x, w)
  PROVE  Inv'
<1>1. /\ got' \in Seq(Byte) /\ Len(got') \in Nat /\ Len(got) <= Len(got') /\ Len(got') <= Sent
  BY PeerTakes
<1>2. edge <= edge' /\ edge' = Len(got') + w /\ w \in Nat /\ edge' \in Nat /\ edge \in Nat
  <2>1. w \in Nat
    BY Sizes
  <2> QED
    BY <1>1, <2>1, Places DEF PeerReceive
<1>3. UNCHANGED <<sess, app, sar, client, events, ml, ackPush, rx, timers, net>>
  BY DEF PeerReceive
<1> DEFINE a == [ack |-> SeqNumb(Len(got')), win |-> w]
<1>4. acks' \subseteq acks \cup {a}
  BY AddBounds DEF PeerReceive
<1>5. Len(got') \in 0 .. SeqSpace - 1
  BY <1>1, Places, Sizes
<1>6. /\ a \in Acks /\ Pos(a.ack) = Len(got') /\ a.win = w
  BY <1>5, SeqIs DEF Acks
<1> HIDE DEF a
<1>7. UNCHANGED <<Acked, Sent, written, tasi>> /\ (\A b : Behind(b)' = Behind(b))
  BY <1>3, BehindFrame DEF Acked, Sent, client
<1>8. Types'
  <2>1. WireTypes'
    BY <1>1, <1>2, <1>3, <1>4, <1>6 DEF Inv, Types, WireTypes
  <2> QED
    BY <1>3, <2>1, PointerFrame, ClientFrame, EventFrame, TimerFrame DEF Inv, Types
<1>9. Order'
  BY <1>1, <1>2, <1>3, <1>7, Places DEF Inv, Order
<1>10. ASSUME NEW c, NEW last, Behind(c.ackd) \in Int, c.minWindow \in Int, Copy(c, last)
       PROVE  Behind(c.ackd) + c.minWindow <= edge'
  BY <1>2, <1>10 DEF Copy
<1>11. AppCopy'
  <2>1. Behind(app.ackd) \in Int /\ app.minWindow \in Int /\ Copy(app, Acked)
    BY Places, BehindIs DEF Inv, Copies, AppCopy, Address
  <2>2. Behind(app.ackd) + app.minWindow <= edge'
    BY <1>10, <2>1
  <2> QED
    BY <1>3, <1>7, <2>1, <2>2 DEF AppCopy, Copy, Behind
<1>12. PushCopies'
  <2>1. ASSUME NEW i \in 1 .. Len(ackPush)
        PROVE  Copy(ackPush[i], Acked)'
    <3>1. ackPush[i] \in Pushed
      BY DEF Inv, Types, PointerTypes, Fifo
    <3>2. Behind(ackPush[i].ackd) \in Int /\ ackPush[i].minWindow \in Int
      BY <3>1, BehindIs DEF Pushed, Address
    <3>3. Copy(ackPush[i], Acked)
      BY DEF Inv, Copies, PushCopies
    <3>4. Behind(ackPush[i].ackd) + ackPush[i].minWindow <= edge'
      BY <1>10, <3>2, <3>3
    <3> QED
      BY <1>3, <1>7, <3>3, <3>4 DEF Copy, Behind
  <2> QED
    BY <1>3, <1>7, <2>1 DEF Inv, Copies, PushCopies, Behind
<1>13. TasiCopy'
  <2>1. CASE tasi = <<>>
    BY <1>7, <2>1 DEF TasiCopy
  <2>2. CASE tasi # <<>>
    <3>1. tasi[1] \in AppWrite
      BY <2>2, RegisterValue DEF Inv, Types, ClientTypes
    <3>2. tasi[1].app \in AppEntry
      BY <3>1 DEF AppWrite
    <3>3. Behind(tasi[1].app.ackd) \in Int /\ tasi[1].app.minWindow \in Int
      BY <3>2, BehindIs DEF AppEntry, Address
    <3>4. Copy(tasi[1].app, Behind(app.ackd)) /\ tasi[1].app.mempt = app.mempt
            /\ written + tasi[1].len <= StreamLen
      BY <2>2 DEF Inv, Copies, TasiCopy
    <3>5. Behind(tasi[1].app.ackd) + tasi[1].app.minWindow <= edge'
      BY <1>10, <3>3, <3>4
    <3> QED
      BY <1>3, <1>7, <3>4, <3>5 DEF TasiCopy, Copy, Behind
  <2> QED
    BY <2>1, <2>2
<1>14. ASSUME NEW b, b.ack \in SeqNumbs, b.win \in Windows, AckSeen(b)
       PROVE  Pos(b.ack) <= Len(got') /\ Pos(b.ack) + b.win <= edge'
  <2>1. Pos(b.ack) \in Nat
    BY <1>14, PosIs, Sizes
  <2>2. b.win \in Nat
    <3>1. \A v \in Windows : v \in Nat
      BY Sizes
    <3> QED
      BY <1>14, <3>1
  <2> QED
    BY <1>1, <1>2, <1>14, <2>1, <2>2, Places DEF AckSeen
<1>15. RxRead'
  <2>1. CASE rx = <<>>
    BY <1>3, <2>1 DEF RxRead
  <2>2. CASE rx # <<>>
    <3>1. rx[1] \in AckRead
      BY <2>2, RegisterValue DEF Inv, Types, EventTypes
    <3>2. rx[1].ack \in SeqNumbs /\ rx[1].win \in Windows
      BY <3>1 DEF AckRead
    <3>3. Pos(rx[1].ack) <= Len(got') /\ Pos(rx[1].ack) + rx[1].win <= edge'
      BY <1>14, <2>2, <3>2 DEF Inv, Copies, RxRead
    <3> QED
      BY <1>3, <1>7, <2>2, <3>3 DEF Inv, Copies, RxRead, AckSeen
  <2> QED
    BY <2>1, <2>2
<1>16. \A b \in acks' : AckSeen(b)'
  <2>1. ASSUME NEW b \in acks PROVE AckSeen(b)'
    <3>1. b \in Acks /\ AckSeen(b)
      BY DEF Inv, Types, WireTypes, Copies
    <3> QED
      BY <1>14, <3>1 DEF Acks, AckSeen
  <2>2. ASSUME NEW b, b = a PROVE AckSeen(b)'
    <3>1. Len(got') <= Len(got') /\ Len(got') + w <= edge'
      BY <1>1, <1>2
    <3> QED
      BY <1>6, <2>2, <3>1 DEF AckSeen
  <2> QED
    BY <1>4, <2>1, <2>2
<1>17. Copies'
  BY <1>11, <1>12, <1>13, <1>15, <1>16 DEF Copies
<1> QED
  BY <1>3, <1>8, <1>9, <1>17, PayloadFrame, RtFrame, RingFrame, NetFrame
  DEF Inv, client, events

-----------------------------------------------------------------------------
(* The theorems *)

LEMMA InvInit == Init => Inv
<1> SUFFICES ASSUME Init PROVE Inv
  OBVIOUS
<1>1. PICK w \in Windows, c \in CongWindows :
        /\ app = [ackd |-> Ring(Isn), mempt |-> Ring(Isn), minWindow |-> IF c < w THEN c ELSE w]
        /\ edge = w
  BY DEF Init
<1> DEFINE low == IF c < w THEN c ELSE w
<1>2. w \in 0 .. BufSize - 1 /\ low \in Address /\ low <= w
  BY Sizes DEF Address
<1>3. Isn \in SeqNumbs /\ Pos(Isn) = 0
  BY PosIs, Sizes DEF SeqNumbs
<1>4. Ring(Isn) = Slot(0) /\ Slot(0) \in Address
  BY <1>3, RingOfSeq, SlotIs
<1> HIDE DEF low
<1>5. app \in AppEntry /\ app.ackd = Slot(0) /\ app.mempt = Slot(0) /\ app.minWindow = low
  BY <1>1, <1>2, <1>4 DEF AppEntry, low
<1>6. /\ sess = "ESTABLISHED" /\ sar = [ackd |-> Isn, notAckd |-> Isn, count |-> 0, fastRt |-> FALSE]
      /\ written = 0 /\ tasi = <<>> /\ data = <<>> /\ mem = [a \in 0 .. BufSize - 1 |-> -1]
      /\ appEv = <<>> /\ timerEv = 0 /\ fastEv = 0 /\ ml = <<>> /\ ackPush = <<>> /\ rx = <<>>
      /\ timer = [active |-> FALSE, retries |-> 0]
      /\ setQ = 0 /\ clearQ = <<>> /\ update = <<>>
      /\ net = {} /\ acks = {} /\ got = <<>>
  BY DEF Init
<1>7. sar \in SarEntry /\ Acked = 0 /\ Sent = 0
  BY <1>3, <1>6 DEF SarEntry, Acked, Sent
<1>8. Types
  <2>1. PointerTypes
    BY <1>5, <1>6, <1>7, FifoEmpty DEF PointerTypes, SessStates
  <2>2. ClientTypes
    BY <1>6, FifoEmpty, RegisterEmpty, Sizes DEF ClientTypes, Address, Byte
  <2>3. EventTypes
    BY <1>6, FifoEmpty, RegisterEmpty, Sizes DEF EventTypes
  <2>4. TimerTypes
    <3>1. timer \in Timers
      BY <1>6, Sizes DEF Timers
    <3> QED
      BY <1>6, <3>1, FifoEmpty, RegisterEmpty, Sizes DEF TimerTypes
  <2>5. WireTypes
    BY <1>1, <1>2, <1>6, Sizes DEF WireTypes
  <2> QED
    BY <2>1, <2>2, <2>3, <2>4, <2>5 DEF Types
<1>9. Len(got) = 0 /\ Len(data) = 0 /\ Len(appEv) = 0 /\ Len(ackPush) = 0
  BY <1>6
<1>10. Order
  BY <1>1, <1>2, <1>5, <1>6, <1>7, <1>9 DEF Order
<1>11. Copies
  <2>1. written - Ring(Slot(0) + BufSize - Slot(0)) = 0
    BY <1>6, DistanceIs, Sizes
  <2>2. Behind(app.ackd) = 0
    BY <1>5, <2>1 DEF Behind
  <2>3. AppCopy
    BY <1>1, <1>2, <1>5, <1>7, <2>2 DEF AppCopy, Copy, Address
  <2> QED
    BY <1>6, <1>9, <2>3 DEF Copies, PushCopies, TasiCopy, RxRead
<1>12. Payloads
  BY <1>6, <1>7, <1>9 DEF Payloads, Start, Loaded, Shift
<1>13. RtCovers /\ RingHolds /\ InNet
  BY <1>6, <1>7 DEF RtCovers, RingHolds, Unacked, InNet, Acked
<1> QED
  BY <1>8, <1>10, <1>11, <1>12, <1>13 DEF Inv

LEMMA InvStep == Inv /\ [Next]_vars => Inv'
<1> SUFFICES ASSUME Inv, [Next]_vars PROVE Inv'
  OBVIOUS
<1>1. CASE UNCHANGED vars
  BY <1>1, PointerFrame, ClientFrame, EventFrame, TimerFrame, WireFrame, OrderFrame, CopiesFrame,
     PayloadFrame, RtFrame, RingFrame, NetFrame
  DEF Inv, Types, vars, client, events, wire
<1>2. CASE Next
  BY <1>2, RequestStep, RefuseStep, AcceptStep, PushStep, LoadTxStep, LoadRtStep, MlTxStep,
     MlRtStep, RxLoadStep, RxAckStep, TimerStep, PeerStep
  DEF Next, Engine
<1> QED
  BY <1>1, <1>2

(* No FIFO between the processes exceeds its depth, and the ring holds     *)
(* bytes of the stream only.                                               *)
THEOREM TypeCorrect == Spec => []TypeOK
<1>1. Inv => TypeOK
  <2> SUFFICES ASSUME Inv PROVE TypeOK
    OBVIOUS
  <2>1. Len(update) <= 1
    <3>1. Register(update, BOOLEAN)
      BY DEF Inv, Types, TimerTypes
    <3>2. Len(<<>>) = 0
      OBVIOUS
    <3> QED
      BY <3>1, <3>2, RegisterValue
  <2> QED
    BY <2>1, Sizes, SMTT(60)
    DEF Inv, Types, PointerTypes, ClientTypes, EventTypes, TimerTypes, TypeOK, Fifo, AppEntry,
        SarEntry, Timers, Address, SeqNumbs, Byte, SessStates
<1> QED
  BY <1>1, InvInit, InvStep, PTL DEF Spec

(* The pointers of tx_sar_table and tx_app_table keep their order, and no  *)
(* byte that is not acknowledged is overwritten in the ring, although      *)
(* tasi_metaLoader tests a copy that lags behind.                          *)
THEOREM PointersCorrect == Spec => []PointerOrder
<1>1. Inv => PointerOrder
  BY DEF Inv, Order, RingHolds, PointerOrder, Acked, Sent, Slot
<1> QED
  BY <1>1, InvInit, InvStep, PTL DEF Spec

(* No segment, sent for the first time or again, reaches beyond the window *)
(* the peer has advertised.                                                *)
THEOREM WindowKept == Spec => []InWindow
<1>1. Inv => InWindow
  <2> SUFFICES ASSUME Inv, NEW x \in net PROVE Pos(x.seq) + Len(x.bytes) <= edge
    BY DEF InWindow
  <2>1. x \in Segments
    BY DEF Inv, Types, WireTypes
  <2>2. Pos(x.seq) \in Nat /\ Len(x.bytes) \in Nat
    BY <2>1, PosIs, Sizes DEF Segments
  <2> QED
    BY <2>2, Places DEF Inv, InNet
<1> QED
  BY <1>1, InvInit, InvStep, PTL DEF Spec

-----------------------------------------------------------------------------
(* What the peer receives, in the first session *)

(* A retransmission reads the bytes of its place that are not acknowledged. *)
LEMMA RtIntact ==
  ASSUME Inv, SessionId = 0, NEW seq \in SeqNumbs, NEW n \in 1 .. BufSize - 1,
         Pos(seq) + n <= Sent,
         NEW i \in 1 .. n, Pos(seq) + i - 1 >= Len(got)
  PROVE  ReadRing(Slot(Pos(seq)), n)[i] = Pos(seq) + i - 1
<1> DEFINE p == Pos(seq)
<1>1. p \in Nat
  BY PosIs, Sizes
<1>2. Slot(p) \in Address /\ Slot(p) \in Int /\ n \in 1 .. BufSize
  BY <1>1, SlotIs, Sizes DEF Address
<1> HIDE DEF p
<1>3. ReadRing(Slot(p), n)[i] = mem[IF Slot(p) + i - 1 < BufSize THEN Slot(p) + i - 1
                                    ELSE Slot(p) + i - 1 - BufSize]
  BY <1>2, ReadRingIs
<1>4. i - 1 \in 0 .. BufSize /\ p + (i - 1) = p + i - 1 /\ Slot(p) + (i - 1) = Slot(p) + i - 1
  BY <1>1, <1>2, Sizes
<1>5. Slot(p + (i - 1)) = IF Slot(p) + (i - 1) < BufSize THEN Slot(p) + (i - 1)
                          ELSE Slot(p) + (i - 1) - BufSize
  BY <1>1, <1>4, SlotAdd
<1>6. p + i - 1 \in Acked .. written - 1
  BY <1>1, Places, Sizes DEF p
<1>7. mem[Slot(p + i - 1)] = p + i - 1
  BY <1>6 DEF Inv, RingHolds, Unacked, Acked
<1>8. Slot(p) + i - 1 - BufSize = Slot(p) + (i - 1) - BufSize
  BY <1>2, Sizes
<1>9. ReadRing(Slot(p), n)[i] = p + i - 1
  BY <1>3, <1>4, <1>5, <1>7, <1>8
<1> QED
  BY <1>9 DEF p

(* A segment stays intact: the peer's bytes only grow. *)
LEMMA IntactStays ==
  ASSUME Received, net' \subseteq net, Len(got) \in Nat, Len(got') \in Nat, Len(got) <= Len(got'),
         Inv
  PROVE  \A x \in net' : Intact(x)'
<1> SUFFICES ASSUME NEW x \in net', NEW i \in 1 .. Len(x.bytes)
             PROVE  Pos(x.seq) + i - 1 < Len(got') \/ x.bytes[i] = Pos(x.seq) + i - 1
  BY DEF Intact
<1>1. x \in net /\ x \in Segments
  BY DEF Inv, Types, WireTypes
<1>2. Pos(x.seq) \in Nat /\ i \in Nat
  BY <1>1, PosIs, Sizes DEF Segments
<1>3. Pos(x.seq) + i - 1 < Len(got) \/ x.bytes[i] = Pos(x.seq) + i - 1
  BY <1>1 DEF Received, Intact
<1> QED
  BY <1>2, <1>3

(* A new segment and the old ones. *)
LEMMA IntactWith ==
  ASSUME Received, got' = got, NEW new, Intact(new), net' \subseteq net \cup {new}
  PROVE  Received'
  BY DEF Received, Intact

LEMMA ReceivedStep ==
  ASSUME SessionId = 0, Inv, Received, [Next]_vars
  PROVE  Received'
<1>1. CASE UNCHANGED <<net, got>>
  BY <1>1 DEF Received, Intact
<1>2. CASE MlTx
  <2>1. /\ ml[1].notAckd = sar.notAckd /\ Len(data[1]) \in Nat
        /\ \A j \in 1 .. Len(data[1]) : data[1][j] = Sent + j - 1
    BY <1>2, NextPayload
  <2>2. Head(data) = data[1]
    <3>1. data \in Seq(Seq(Byte)) /\ data # <<>>
      BY <1>2 DEF MlTx, Inv, Types, ClientTypes, Fifo
    <3> QED
      BY <3>1, HeadAndTail
  <2>3. net' \subseteq net \cup {Segment(sar.notAckd, data[1])} /\ got' = got
    BY <1>2, <2>1, <2>2, AddBounds DEF MlTx
  <2>4. Intact(Segment(sar.notAckd, data[1]))
    BY <2>1 DEF Intact, Segment, Sent
  <2> QED
    BY <2>3, <2>4, IntactWith
<1>3. CASE MlRt
  <2> DEFINE m == ml[1]
             len == IF m.used > Mss THEN Mss ELSE m.used
             seg == Segment(m.ackd, ReadRing(PkgAddr(m), len))
  <2>1. /\ m \in RtEvent /\ Pos(m.ackd) \in Nat /\ Pos(m.ackd) + m.used <= Sent
        /\ PkgAddr(m) = Slot(Pos(m.ackd)) /\ PkgAddr(m) \in Address
    BY <1>3, RtSegment
  <2>2. m.ackd \in SeqNumbs /\ m.used \in Nat /\ m.used < BufSize
    <3>1. m.ackd \in SeqNumbs /\ m.used \in Address
      BY <2>1 DEF RtEvent
    <3> QED
      BY <3>1, Sizes DEF Address
  <2>3. got' = got
    BY <1>3 DEF MlRt
  <2>4. CASE len = 0
    <3>1. net' = net
      BY <1>3, <2>4 DEF MlRt
    <3> QED
      BY <2>3, <3>1 DEF Received, Intact
  <2>5. CASE len # 0
    <3>1. net' \in Add(seg, net, SegCap)
      BY <1>3, <2>5 DEF MlRt
    <3>2. len \in 1 .. BufSize - 1 /\ len \in 1 .. BufSize /\ len <= m.used
      BY <2>2, <2>5, Sizes
    <3> HIDE DEF len, m
    <3>3. Pos(m.ackd) + len <= Sent
      BY <2>1, <2>2, <3>2, Places
    <3>4. seg.seq = m.ackd /\ seg.bytes = ReadRing(Slot(Pos(m.ackd)), len)
      BY <2>1 DEF Segment
    <3>5. Len(ReadRing(Slot(Pos(m.ackd)), len)) = len
      BY <2>1, <3>2, ReadRingIs
    <3> HIDE DEF seg
    <3>6. ASSUME NEW i \in 1 .. len, ~(Pos(m.ackd) + i - 1 < Len(got))
          PROVE  ReadRing(Slot(Pos(m.ackd)), len)[i] = Pos(m.ackd) + i - 1
      <4>1. Pos(m.ackd) + i - 1 >= Len(got)
        BY <2>1, <3>2, <3>6, Places
      <4> QED
        BY <2>2, <3>2, <3>3, <4>1, RtIntact
    <3>7. Intact(seg)
      BY <3>4, <3>5, <3>6 DEF Intact
    <3> QED
      BY <2>3, <3>1, <3>7, AddBounds, IntactWith
  <2> QED
    BY <2>4, <2>5
<1>4. ASSUME NEW x \in net, NEW w \in Windows, PeerReceive(x, w)
      PROVE  Received'
  <2>1. /\ Len(got') \in Nat /\ Len(got) <= Len(got') /\ Len(got) \in Nat
        /\ \A i \in 1 .. Len(got) : got'[i] = got[i]
        /\ \A i \in Len(got) + 1 .. Len(got') :
             /\ i - Pos(x.seq) \in 1 .. Len(x.bytes)
             /\ got'[i] = x.bytes[i - Pos(x.seq)]
    BY <1>4, PeerTakes, Places
  <2>2. net' = net
    BY <1>4 DEF PeerReceive
  <2>3. x \in Segments /\ Pos(x.seq) \in Nat
    <3>1. x \in Segments
      BY DEF Inv, Types, WireTypes
    <3> QED
      BY <3>1, PosIs, Sizes DEF Segments
  <2>4. ASSUME NEW i \in 1 .. Len(got') PROVE got'[i] = i - 1
    <3>1. CASE i <= Len(got)
      BY <2>1, <3>1 DEF Received
    <3>2. CASE i > Len(got)
      <4>1. i \in Len(got) + 1 .. Len(got')
        BY <2>1, <3>2
      <4>2. i - Pos(x.seq) \in 1 .. Len(x.bytes) /\ got'[i] = x.bytes[i - Pos(x.seq)]
        BY <2>1, <4>1
      <4> DEFINE j == i - Pos(x.seq)
      <4>3. Pos(x.seq) + j - 1 = i - 1 /\ ~(Pos(x.seq) + j - 1 < Len(got))
        BY <2>1, <2>3, <3>2
      <4> HIDE DEF j
      <4>4. x.bytes[j] = Pos(x.seq) + j - 1
        BY <4>2, <4>3 DEF Received, Intact, j
      <4> QED
        BY <4>2, <4>3, <4>4 DEF j
    <3> QED
      BY <2>1, <3>1, <3>2
  <2>5. \A y \in net' : Intact(y)'
    BY <2>1, <2>2, IntactStays
  <2> QED
    BY <2>4, <2>5 DEF Received
<1> QED
  BY <1>1, <1>2, <1>3, <1>4
  DEF Next, Engine, vars, wire, AppRequest, AppRefuse, AppAccept, TakeAckPush, MlLoadTx, MlLoadRt,
      RxLoad, RxAck, ClearRead, ClearLate, TimerSet, Timeout

(* The peer of the first session receives the application's bytes in       *)
(* order, whatever is lost, repeated or reordered.  (In another session    *)
(* the second access of a read that wraps misses the session's buffer.)    *)
THEOREM StreamCorrect == SessionId = 0 /\ Spec => []PeerStream
<1>1. Init => Received
  <2> SUFFICES ASSUME Init PROVE Received
    OBVIOUS
  <2>1. net = {} /\ got = <<>>
    BY DEF Init
  <2>2. Len(got) = 0
    BY <2>1
  <2> QED
    BY <2>1, <2>2 DEF Received
<1>2. SessionId = 0 /\ Inv /\ Received /\ [Next]_vars => Received'
  BY ReceivedStep
<1>3. Inv /\ Received => PeerStream
  BY Places DEF Received, PeerStream
<1>4. SessionId = 0 => (SessionId = 0)'
  OBVIOUS
<1> QED
  BY <1>1, <1>2, <1>3, <1>4, InvInit, InvStep, PTL DEF Spec

=============================================================================
