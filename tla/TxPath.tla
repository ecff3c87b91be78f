------------------------------- MODULE TxPath -------------------------------
(***************************************************************************)
(* The transmit path of one established TCP session in the TCP_NODELAY     *)
(* build: the application's writes pass tasi_metaLoader (tx_app_stream_if) *)
(* and leave through metaLoader (tx_engine), at once and from a copy in    *)
(* the ring buffer when they are retransmitted; rxTcpFSM (rx_engine) takes *)
(* the acknowledgements; tx_sar_table and tx_app_table hold the pointers   *)
(* and retransmit_timer fires the retransmissions.  All of them run        *)
(* concurrently.  The network loses, reorders and repeats segments and     *)
(* acknowledgements.  Byte number p of the stream is represented by p.     *)
(***************************************************************************)
EXTENDS Integers, Sequences, FiniteSets

CONSTANTS SessionId,    \* the session's ID, which also selects its ring buffer
          SeqSpace,     \* 2^32, the number of sequence numbers
          BufSize,      \* BUFFER_SIZE, the ring buffer of the session
          Isn,          \* sequence number of the first byte of the stream
          StreamLen,    \* bound: the number of bytes the application writes
          WriteLens,    \* lengths of the application's writes
          Mss,          \* MSS: largest segment of a retransmission
          Windows,      \* windows the peer may advertise
          CongWindows,  \* values the congestion window may take
          RetryLimit,   \* timeouts in a row before the session is aborted (4)
          SegCap,       \* bound: segments in the network
          AckCap,       \* bound: acknowledgements in the network
          Depth         \* depth of the FIFOs between the processes

ASSUME SizeAssumption ==
  /\ {SeqSpace, BufSize, StreamLen, Mss, SegCap, AckCap, Depth, RetryLimit} \subseteq Nat \ {0}
  /\ SessionId \in Nat
  /\ SeqSpace % BufSize = 0 /\ StreamLen < SeqSpace /\ Isn \in 0 .. SeqSpace - 1
  /\ WriteLens \subseteq 1 .. BufSize - 1 /\ CongWindows \subseteq 1 .. BufSize - 1
  /\ Windows \subseteq 0 .. BufSize - 1 /\ Windows # {} /\ CongWindows # {}

VARIABLES
  sess,        \* the session's entry of the state table: "ESTABLISHED", "CLOSED"
  app,         \* its entry of tx_app_table: ackd, mempt, minWindow
  sar,         \* its entry of tx_sar_table: ackd, notAckd, count, fastRt
  written,     \* the number of bytes accepted from the application
  tasi,        \* the write tasi_metaLoader is in READ_META for, with what it read
  mem,         \* the ring buffer: the byte at each address, or -1
  data,        \* payloads on their way to the engine (txApp2txEng_data_stream)
  appEv,       \* the application's TX events: the lengths of the writes
  timerEv,     \* number of RT events from the timer on their way to the engine
  fastEv,      \* number of RT events from rxTcpFSM on their way to the engine
  ml,          \* the event metaLoader is at, with what it read; <<>> if none
  ackPush,     \* txSar2txApp_ack_push, the way from tx_sar_table to tx_app_table
  rx,          \* the acknowledgement rxTcpFSM is at, with what it read
  timer,       \* the session's entry of retransmit_timer: active, retries
  setQ,        \* txEng2timer_setRetransmitTimer (only its length matters)
  clearQ,      \* rxEng2timer_clearRetransmitTimer: stop, or restart
  update,      \* rt_update while rt_waitForWrite, <<>> otherwise
  net, acks,   \* segments and acknowledgements in the network
  got,         \* the bytes the peer has received in order
  edge         \* the end of the window the peer has advertised

client == <<written, tasi, data, mem>>
wire   == <<net, acks, got, edge>>
timers == <<timer, setQ, clearQ, update>>
events == <<appEv, timerEv, fastEv>>
vars   == <<sess, app, sar, client, events, ml, ackPush, rx, timers, wire>>

SeqNumb(pos) == (Isn + pos) % SeqSpace
Pos(seq) == (seq + SeqSpace - Isn) % SeqSpace
Ring(n) == n % BufSize
RoomOffByOne(fifo) == Len(fifo) <= Depth  (* mutant: a FIFO takes one entry too many *)
Room(fifo) == Len(fifo) < Depth

(* What the network may hold after message m was sent: a message stays and *)
(* may arrive any number of times, or never; at the bound the new one or   *)
(* an older one is lost.                                                   *)
Add(m, msgs, cap) ==
  IF Cardinality(msgs) < cap THEN {msgs \cup {m}}
  ELSE {msgs} \cup {(msgs \ {lost}) \cup {m} : lost \in msgs}

Init ==
  /\ sess = "ESTABLISHED"
  /\ \E w \in Windows, c \in CongWindows :
       /\ app = [ackd |-> Ring(Isn), mempt |-> Ring(Isn), minWindow |-> IF c < w THEN c ELSE w]
       /\ edge = w
  /\ sar = [ackd |-> Isn, notAckd |-> Isn, count |-> 0, fastRt |-> FALSE]
  /\ written = 0 /\ tasi = <<>> /\ data = <<>>
  /\ mem = [a \in 0 .. BufSize - 1 |-> -1]
  /\ appEv = <<>> /\ timerEv = 0 /\ fastEv = 0 /\ ml = <<>> /\ ackPush = <<>> /\ rx = <<>>
  /\ timer = [active |-> FALSE, retries |-> 0]
  /\ setQ = 0 /\ clearQ = <<>> /\ update = <<>>
  /\ net = {} /\ acks = {} /\ got = <<>>

-----------------------------------------------------------------------------
(* tx_app_stream_if and tx_app_table *)

(* tasi_metaLoader, READ_REQUEST: the write waits for the entries. *)
AppRequest(n) ==
  /\ tasi = <<>> /\ written + n <= StreamLen
  /\ tasi' = <<[len |-> n, app |-> app, sess |-> sess]>>
  /\ UNCHANGED <<sess, app, sar, written, data, mem, events, ml, ackPush, rx,
                 timers, wire>>

(* READ_META: free room in the ring buffer, and in the peer's window *)
MaxWriteLength(a) == Ring(a.ackd + BufSize - a.mempt + BufSize - 1)
(* mutant: the bytes in flight are not taken off the window *)
UsableWindowWhole(a) == a.minWindow
UsableWindow(a) ==
  LET used == Ring(a.mempt + BufSize - a.ackd)
  IN  IF a.minWindow > used THEN a.minWindow - used ELSE 0

Refused(t) == \/ t.sess # "ESTABLISHED"
              \/ t.len > MaxWriteLength(t.app)
              \/ UsableWindow(t.app) < t.len

AppRefuse ==
  /\ tasi # <<>> /\ Refused(tasi[1])
  /\ tasi' = <<>>
  /\ UNCHANGED <<sess, app, sar, written, data, mem, events, ml, ackPush, rx,
                 timers, wire>>

(* tasi_pkg_pusher writes n bytes from address at on, in two accesses when *)
(* they pass the end of the ring buffer.                                   *)
WriteRing(at, n) ==
  [a \in 0 .. BufSize - 1 |->
     IF Ring(a + BufSize - at) < n THEN written + Ring(a + BufSize - at) ELSE mem[a]]

(* The write is accepted: its bytes go to the ring buffer and to the       *)
(* engine, and the application's pointer moves on.                         *)
AppAccept ==
  /\ tasi # <<>> /\ ~Refused(tasi[1])
  /\ Room(appEv) /\ Room(data)
  /\ LET n  == tasi[1].len
         at == tasi[1].app.mempt
     IN  /\ appEv' = Append(appEv, n)
         /\ data' = Append(data, [i \in 1 .. n |-> written + i - 1])
         /\ mem' = WriteRing(at, n)
         /\ app' = [app EXCEPT !.mempt = Ring(at + n)]
         /\ written' = written + n
  /\ tasi' = <<>>
  /\ UNCHANGED <<sess, sar, timerEv, fastEv, ml, ackPush, rx, timers, wire>>

(* tx_app_table takes what tx_sar_table has learnt from an acknowledgement. *)
TakeAckPush ==
  /\ ackPush # <<>>
  /\ app' = [app EXCEPT !.ackd = Head(ackPush).ackd, !.minWindow = Head(ackPush).minWindow]
  /\ ackPush' = Tail(ackPush)
  /\ UNCHANGED <<sess, sar, client, events, ml, rx, timers, wire>>

-----------------------------------------------------------------------------
(* tx_engine: metaLoader *)

Segment(seq, bytes) == [seq |-> seq, bytes |-> bytes]

(* The bytes in flight, as tx_sar_table computes them for metaLoader. *)
UsedLength(e) == Ring(e.notAckd + SeqSpace - e.ackd)

(* State 0: the event engine hands over an event, the pointers are read. *)
MlLoadTx ==
  /\ ml = <<>> /\ appEv # <<>>
  /\ ml' = <<[rt |-> FALSE, notAckd |-> sar.notAckd, len |-> Head(appEv)]>>
  /\ appEv' = Tail(appEv)
  /\ UNCHANGED <<sess, app, sar, client, timerEv, fastEv, ackPush, rx, timers, wire>>

MlLoadRt ==
  /\ ml = <<>>
  /\ \/ fastEv > 0 /\ fastEv' = fastEv - 1 /\ UNCHANGED timerEv
     \/ timerEv > 0 /\ timerEv' = timerEv - 1 /\ UNCHANGED fastEv
  /\ ml' = <<[rt |-> TRUE, ackd |-> sar.ackd, used |-> UsedLength(sar), segments |-> 0]>>
  /\ UNCHANGED <<sess, app, sar, client, appEv, ackPush, rx, timers, wire>>

(* State 1, TX: the next payload of the stream is sent. *)
MlTx ==
  /\ ml # <<>> /\ ~ml[1].rt
  /\ data # <<>> /\ setQ < Depth
  /\ sar' = [sar EXCEPT !.notAckd = (ml[1].notAckd + ml[1].len) % SeqSpace]
  /\ net' \in Add(Segment(ml[1].notAckd, Head(data)), net, SegCap)
  /\ data' = Tail(data)
  /\ setQ' = setQ + 1
  /\ ml' = <<>>
  /\ UNCHANGED <<sess, app, written, tasi, mem, events, ackPush, rx, timer, clearQ,
                 update, acks, got, edge>>

(* The ring address is built before ackd moves on to the next segment. *)
(* mutant: it is built afterwards *)
PkgAddrLate(m) == Ring(m.ackd + IF m.used > Mss THEN Mss ELSE 0)
PkgAddr(m) == Ring(m.ackd)

(* txEngMemAccessBreakdown: a read that passes the end of the ring buffer  *)
(* is split; the second access is at address 0, without the session's ID.  *)
Breakdown(c) ==
  LET first == BufSize - c.addr
  IN  IF c.addr + c.len > BufSize
      THEN <<[c EXCEPT !.len = first], [session |-> 0, addr |-> 0, len |-> c.len - first]>>
      ELSE <<c>>

(* What the memory returns: in another session's buffer, none of our bytes *)
Bytes(c) == [i \in 1 .. c.len |-> IF c.session = SessionId THEN mem[c.addr + i - 1] ELSE -1]

(* read_data_stitching puts the two accesses together again. *)
ReadRing(at, n) ==
  LET cs == Breakdown([session |-> SessionId, addr |-> at, len |-> n])
  IN  IF Len(cs) = 1 THEN Bytes(cs[1]) ELSE Bytes(cs[1]) \o Bytes(cs[2])

(* State 1, RT: the bytes from ackd on are sent again, in at most four     *)
(* segments, from the ring buffer.                                         *)
MlRt ==
  /\ ml # <<>> /\ ml[1].rt
  /\ setQ < Depth
  /\ LET m   == ml[1]
         len == IF m.used > Mss THEN Mss ELSE m.used
     IN  /\ ml' = IF m.used > Mss /\ m.segments # 3
                  THEN <<[m EXCEPT !.ackd = (@ + Mss) % SeqSpace, !.used = @ - Mss,
                                   !.segments = @ + 1]>>
                  ELSE <<>>
         /\ IF len # 0
            THEN /\ net' \in Add(Segment(m.ackd, ReadRing(PkgAddr(m), len)), net, SegCap)
                 /\ setQ' = setQ + 1
            ELSE UNCHANGED <<net, setQ>>
  /\ UNCHANGED <<sess, app, sar, client, events, ackPush, rx, timer, clearQ, update, acks,
                 got, edge>>

-----------------------------------------------------------------------------
(* rx_engine: rxTcpFSM, an acknowledgement without payload *)

(* LOAD: the pointers of tx_sar_table are read. *)
RxLoad(a) ==
  /\ rx = <<>>
  /\ rx' = <<[sess |-> sess, ack |-> a.ack, win |-> a.win, prevAck |-> sar.ackd,
              nextByte |-> sar.notAckd, count |-> sar.count, fastRt |-> sar.fastRt]>>
  /\ UNCHANGED <<sess, app, sar, client, events, ml, ackPush, timers, wire>>

(* The acknowledgement lies between prevAck and nextByte, wrap included. *)
(* mutant: an acknowledgement from before prevAck is taken, too *)
AnyAck(r) == Pos(r.ack) <= Pos(r.nextByte)
InFlight(r) ==
  \/ r.prevAck <= r.ack /\ r.ack <= r.nextByte
  \/ (r.prevAck <= r.ack \/ r.ack <= r.nextByte) /\ r.nextByte < r.prevAck

(* count has two bits; every third duplicate fires one fast retransmission *)
Duplicate(r) == r.ack = r.prevAck /\ r.prevAck # r.nextByte
Count(r) == IF Duplicate(r) THEN (r.count + 1) % 4 ELSE 0
FastRt(r) == Duplicate(r) /\ r.fastRt

(* TRANSITION: in a closed session only the timer hears of it. *)
RxAck ==
  /\ rx # <<>>
  /\ Room(clearQ) /\ Room(ackPush) /\ fastEv < Depth
  /\ LET r == rx[1]
     IN  /\ clearQ' = Append(clearQ, r.ack = r.nextByte)
         /\ IF r.sess = "ESTABLISHED" /\ InFlight(r)
            THEN /\ sar' = [sar EXCEPT !.ackd = r.ack, !.count = Count(r),
                                       !.fastRt = Count(r) = 3 \/ FastRt(r)]
                 /\ \E c \in CongWindows :
                      ackPush' = Append(ackPush, [ackd |-> Ring(r.ack),
                                                  minWindow |-> IF c < r.win THEN c ELSE r.win])
            ELSE UNCHANGED <<sar, ackPush>>
         /\ fastEv' = IF r.sess = "ESTABLISHED" /\ Count(r) = 3 /\ ~FastRt(r)
                      THEN fastEv + 1 ELSE fastEv
  /\ rx' = <<>>
  /\ UNCHANGED <<sess, app, client, appEv, timerEv, ml, timer, setQ, update, wire>>

-----------------------------------------------------------------------------
(* retransmit_timer, for this session.  The table scans the other sessions  *)
(* in between; a clear is applied in the cycle after it has been read, and  *)
(* later when the table was at this very session (rt_prevPosition).         *)

Clear(stop) ==
  timer' = IF stop THEN [active |-> FALSE, retries |-> 0] ELSE [timer EXCEPT !.retries = 0]

ClearRead ==
  /\ update = <<>> /\ clearQ # <<>>
  /\ \/ Clear(Head(clearQ)) /\ UNCHANGED update
     \/ update' = <<Head(clearQ)>> /\ UNCHANGED timer
  /\ clearQ' = Tail(clearQ)
  /\ UNCHANGED <<sess, app, sar, client, events, ml, ackPush, rx, setQ, wire>>

ClearLate ==
  /\ update # <<>>
  /\ Clear(update[1])
  /\ update' = <<>>
  /\ UNCHANGED <<sess, app, sar, client, events, ml, ackPush, rx, setQ, clearQ, wire>>

(* The timer's third branch is reached. *)
TimerTurn == update # <<>> \/ clearQ = <<>>

TimerSet ==
  /\ TimerTurn /\ setQ > 0
  /\ timer' = [timer EXCEPT !.active = TRUE]
  /\ setQ' = setQ - 1
  /\ UNCHANGED <<sess, app, sar, client, events, ml, ackPush, rx, clearQ, update, wire>>

(* The time is up: an RT event, or the session is given up. *)
Timeout ==
  /\ TimerTurn /\ setQ = 0
  /\ timer.active /\ timerEv < Depth
  /\ IF timer.retries < RetryLimit
     THEN /\ timer' = [active |-> FALSE, retries |-> timer.retries + 1]
          /\ timerEv' = timerEv + 1
          /\ UNCHANGED sess
     ELSE /\ timer' = [active |-> FALSE, retries |-> 0]
          /\ sess' = "CLOSED"
          /\ UNCHANGED timerEv
  /\ UNCHANGED <<app, sar, client, appEv, fastEv, ml, ackPush, rx, setQ, clearQ, update, wire>>

-----------------------------------------------------------------------------
(* The peer takes bytes in order only, acknowledges what it has and never  *)
(* takes back its window.                                                  *)
PeerReceive(s, w) ==
  /\ LET skip == Len(got) - Pos(s.seq)
     IN  got' = IF skip \in 0 .. Len(s.bytes)
                THEN got \o SubSeq(s.bytes, skip + 1, Len(s.bytes)) ELSE got
  /\ Len(got') + w >= edge /\ edge' = Len(got') + w
  /\ acks' \in Add([ack |-> SeqNumb(Len(got')), win |-> w], acks, AckCap)
  /\ UNCHANGED <<sess, app, sar, client, events, ml, ackPush, rx, timers, net>>

Engine == MlLoadTx \/ MlLoadRt \/ MlTx \/ MlRt

Next == \/ \E n \in WriteLens : AppRequest(n)
        \/ AppRefuse \/ AppAccept \/ TakeAckPush
        \/ Engine
        \/ \E a \in acks : RxLoad(a)
        \/ RxAck
        \/ ClearRead \/ ClearLate \/ TimerSet \/ Timeout
        \/ \E s \in net, w \in Windows : PeerReceive(s, w)

Spec == Init /\ [][Next]_vars

-----------------------------------------------------------------------------
(* Every FIFO keeps its depth and the values are of their types. *)
TypeOK ==
  /\ sess \in {"ESTABLISHED", "CLOSED"} /\ written \in 0 .. StreamLen
  /\ app \in [ackd : 0 .. BufSize - 1, mempt : 0 .. BufSize - 1, minWindow : 0 .. BufSize - 1]
  /\ sar \in [ackd : 0 .. SeqSpace - 1, notAckd : 0 .. SeqSpace - 1, count : 0 .. 3,
             fastRt : BOOLEAN]
  /\ mem \in [0 .. BufSize - 1 -> -1 .. StreamLen - 1]
  /\ timer \in [active : BOOLEAN, retries : 0 .. RetryLimit]
  /\ setQ \in 0 .. Depth /\ Len(clearQ) <= Depth /\ Len(update) <= 1
  /\ \A q \in {Len(appEv), timerEv, fastEv, Len(ackPush), Len(data)} : q <= Depth

(* What the peer has received is a prefix of what the application wrote:   *)
(* the sequence number metaLoader gives a payload is the payload's place   *)
(* in the stream, and a retransmission finds the bytes still in the ring.  *)
PeerStream == /\ Len(got) <= written
              /\ \A i \in 1 .. Len(got) : got[i] = i - 1

(* No byte is sent beyond the window the peer has advertised, although the *)
(* window is tested against tx_app_table's copy of the pointers when the   *)
(* application writes and never again when metaLoader sends.               *)
InWindow == \A s \in net : Pos(s.seq) + Len(s.bytes) <= edge

(* The pointers keep their order: what the peer has acknowledged, what has *)
(* been sent, what has been written; the copy in tx_app_table lags behind; *)
(* and unacknowledged bytes fit the ring, so none is overwritten.          *)
Unacked == Pos(sar.ackd) .. written - 1
PointerOrder ==
  /\ Pos(sar.ackd) <= Len(got) /\ Len(got) <= Pos(sar.notAckd) /\ Pos(sar.notAckd) <= written
  /\ app.mempt = Ring(SeqNumb(written))
  /\ \A p \in Unacked : mem[Ring(SeqNumb(p))] = p

(* While sent bytes are unacknowledged, a retransmission is in sight: the  *)
(* timer runs, is about to be set, or an event is on its way.              *)
Armed == sess = "ESTABLISHED" /\ sar.ackd # sar.notAckd
           => timer.active \/ setQ > 0 \/ timerEv + fastEv > 0 \/ ml # <<>>
=============================================================================
