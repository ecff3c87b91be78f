------------------------------- MODULE RxPath -------------------------------
(***************************************************************************)
(* The receive path of one TCP session: segments of the peer's byte stream *)
(* pass rxMetadataHandler, rxTcpFSM and rxPackageDropper (toe/rx_engine);  *)
(* what is accepted goes to the session's ring buffer, the application is  *)
(* notified once it is written (rxAppNotificationDelayer) and reads it     *)
(* through rx_app_stream_if; rx_sar_table holds the pointers.  The peer    *)
(* may send its segments in any order and more than once.  Byte number p   *)
(* of the stream (p = 0, 1, ...) is represented by p itself, so that the   *)
(* buffer shows which byte it holds.                                       *)
(*                                                                         *)
(* There are two builds.  RX_DDR_BYPASS=0: the ring buffer in memory,      *)
(* out-of-order segments kept behind one gap.  RX_DDR_BYPASS=1, the        *)
(* default: in-order segments only, payloads queue in one FIFO.            *)
(***************************************************************************)
EXTENDS Integers, Sequences, SequencesExt, SeqSums

CONSTANTS SeqSpace,     \* 2^32, the number of sequence numbers
          BufSize,      \* BUFFER_SIZE = 2^WINDOW_BITS, the ring buffer
          Short,        \* 2^16, the range of 16-bit lengths; BUFFER_SIZE
                        \* without, a quarter of it with WINDOW_SCALE
          Starts,       \* builds, with a sequence number for the first byte
          StreamLen,    \* bound: length of the stream; its FIN is byte StreamLen
          Segments,     \* the segments the peer may send
          Depth         \* depth of the FIFOs of the receive engine

(* A segment carries the len bytes from pos on.  Flags: "ACK" a plain      *)
(* segment, "FIN" one with the FIN bit, "RST" a reset, "other" a combination *)
(* of flags that rxTcpFSM ignores in its default case.                     *)
Segment == [flags : {"ACK", "FIN", "RST", "other"}, pos : 0 .. StreamLen, len : 0 .. StreamLen]

ASSUME SizeAssumption == /\ {SeqSpace, BufSize, Short, StreamLen, Depth} \subseteq Nat \ {0}
                         /\ SeqSpace % BufSize = 0 /\ BufSize % Short = 0
                         /\ Starts \subseteq [bypass : BOOLEAN, isn : 0 .. SeqSpace - 1]
                         /\ Segments \subseteq Segment

(* The peers, and the builds, that the theorems of RxPathProofs are about. *)
(* Every segment is a part of the stream and the FIN its end; no sequence  *)
(* number is used twice.  rxTcpFSM decides nothing for the payload of a    *)
(* segment with other flags: it has none.  The build with the ring buffer  *)
(* compares sequence numbers as plain integers and does not expect a       *)
(* payload that reaches beyond the gap: there, no sequence number wraps,   *)
(* no part of the stream is cut in two ways, and lengths of the ring       *)
(* buffer's size fit their 16 bits.                                        *)
SteadyPeer ==
  /\ StreamLen + 1 < SeqSpace
  /\ \A s \in Segments : /\ s.pos + s.len <= StreamLen
                         /\ s.flags = "FIN" => s.pos + s.len = StreamLen
                         /\ s.flags \in {"RST", "other"} => s.len = 0
  /\ \A b \in Starts : ~b.bypass =>
       /\ Short = BufSize /\ b.isn + StreamLen + 1 < SeqSpace
       /\ \A s, t \in Segments :
            s.len # 0 /\ t.len # 0 /\ s.pos < t.pos => s.pos + s.len <= t.pos

VARIABLES
  start,       \* the build and the sequence number of the first byte; fixed
  sar,         \* the session's entry of rx_sar_table
  state,       \* "ESTABLISHED"; "LAST_ACK" once the peer's FIN is accepted,
               \* "CLOSED" after a reset or the acknowledgement of our FIN
  payloads,    \* payloads on their way to the dropper (rxEng_dataBuffer3)
  fsmMeta,     \* segments on their way to rxTcpFSM
  drop1,       \* decisions of rxMetadataHandler for the payloads
  drop2,       \* decisions of rxTcpFSM for the payloads it has not dropped
  fsm,         \* the segment rxTcpFSM is in TRANSITION for, with the sar entry
               \* it has read; <<>> in LOAD
  kept,        \* payloads the dropper has forwarded
  writes,      \* write commands to the memory (rxBufferWriteCmd)
  reads,       \* read commands to the memory (rxBufferReadCmd)
  mem,         \* the ring buffer: the byte at each address, or -1
  statuses,    \* write statuses the notification delayer has not yet taken
  delayed,     \* notifications inside rxAppNotificationDelayer
  notes,       \* notifications the application has not yet taken
  delivered    \* the bytes the application has received

fifos == <<payloads, fsmMeta, drop1, drop2, kept, writes, reads, delayed, notes>>
vars == <<start, sar, state, fsm, fifos, mem, statuses, delivered>>

DdrBypass == start.bypass
Isn == start.isn

SeqNumb(pos) == (Isn + pos) % SeqSpace
(* mutant: a FIFO takes one entry too many *)
RoomOffByOne(fifo) == Len(fifo) <= Depth
Room(fifo) == Len(fifo) < Depth

Init == /\ start \in Starts
        /\ sar = [recvd |-> Isn, head |-> Isn, offset |-> 0, gap |-> FALSE,
                  appd |-> Isn % BufSize]
        /\ state = "ESTABLISHED"
        /\ payloads = <<>> /\ fsmMeta = <<>> /\ drop1 = <<>> /\ drop2 = <<>>
        /\ fsm = <<>> /\ kept = <<>> /\ writes = <<>> /\ reads = <<>>
        /\ mem = [a \in 0 .. BufSize - 1 |-> -1]
        /\ statuses = 0 /\ delayed = <<>> /\ notes = <<>>
        /\ delivered = <<>>

-----------------------------------------------------------------------------
(* Arrival *)

(* The lengths of the segments, commands or notifications of a FIFO. *)
Lens(q) == [i \in DOMAIN q |-> q[i].len]

(* How far the application has read, requests on their way included. *)
AppPos == Len(delivered) + Total(Lens(reads))

(* The end of the window that rx_sar_table advertises, (appd - recvd) - 1  *)
(* bytes from recvd: a peer that respects it sends nothing beyond.         *)
WindowEdge == AppPos + BufSize - 1

(* rxMetadataHandler: the segment belongs to the session, or to none.      *)
Receive(seg, hit) ==
  /\ Room(payloads) /\ Room(drop1) /\ Room(fsmMeta)
  /\ seg.pos + seg.len <= WindowEdge
  /\ payloads' = IF seg.len # 0 THEN Append(payloads, seg) ELSE payloads
  /\ drop1' = IF seg.len # 0 THEN Append(drop1, ~hit) ELSE drop1
  /\ fsmMeta' = IF hit THEN Append(fsmMeta, seg) ELSE fsmMeta
  /\ UNCHANGED <<start, sar, state, drop2, fsm, kept, writes, reads, mem, statuses, delayed,
                 notes, delivered>>

-----------------------------------------------------------------------------
(* rxTcpFSM *)

(* State LOAD: the sar entry is read. *)
FsmLoad ==
  /\ fsm = <<>> /\ fsmMeta # <<>>
  /\ fsm' = <<[seg |-> Head(fsmMeta), sar |-> sar]>>
  /\ fsmMeta' = Tail(fsmMeta)
  /\ UNCHANGED <<start, sar, state, payloads, drop1, drop2, kept, writes, reads, mem, statuses,
                 delayed, notes, delivered>>

(* free_space: what is left of the ring behind the head, one byte unused *)
FreeSpace(r) == (r.appd + BufSize - (r.head % BufSize) + BufSize - 1) % BufSize

(* How rxTcpFSM places a payload of len bytes at sequence number seq: the  *)
(* branches of the build with the ring buffer.  seq + len is not reduced   *)
(* modulo 2^32 where it is compared with the offset.                       *)
InOrder(r, seq, len)    == ~r.gap /\ seq = r.recvd /\ FreeSpace(r) > len
OutOfOrder(r, seq, len) == /\ ~r.gap /\ seq > r.recvd
                           /\ FreeSpace(r) > (seq + len + SeqSpace - r.head) % BufSize
AfterHead(r, seq, len)  == r.gap /\ seq = r.head /\ FreeSpace(r) > len
AtGap(r, seq, len)      == r.gap /\ seq = r.recvd /\ ~AfterHead(r, seq, len)

(* The gap is closed: what waited behind it is in order now. *)
(* mutant: the gap flag is not cleared *)
FillKeepsFlag(r) == [r EXCEPT !.recvd = r.head]
FillGap(r) == [r EXCEPT !.recvd = r.head, !.gap = FALSE]

(* What it does with the payload: the sar entry it writes, the decision    *)
(* for the dropper (or none), whether it is written, and the length of the *)
(* notification, 16 bits wide: 0 while the data is not in order.           *)
Placement(r, seq, len) ==
  LET end == (seq + len) % SeqSpace
      keep(sr, n) == [sar |-> sr, decision |-> <<FALSE>>, cmd |-> TRUE, note |-> n]
      nothing == [sar |-> r, decision |-> <<>>, cmd |-> FALSE, note |-> 0]
  IN  CASE InOrder(r, seq, len)    -> keep([r EXCEPT !.recvd = end, !.head = end], len)
        [] OutOfOrder(r, seq, len) -> keep([r EXCEPT !.head = end, !.offset = seq,
                                                     !.gap = TRUE], 0)
        [] AfterHead(r, seq, len)  -> keep([r EXCEPT !.head = end], 0)
        [] AtGap(r, seq, len) /\ seq + len = r.offset
             -> keep(FillGap(r), ((r.head + SeqSpace - seq) % BufSize) % Short)
        [] AtGap(r, seq, len) /\ seq + len < r.offset -> keep([r EXCEPT !.recvd = end], len)
        [] AtGap(r, seq, len) /\ seq + len > r.offset -> nothing
        [] OTHER -> [nothing EXCEPT !.decision = <<TRUE>>]

(* The same in the default build; full says the payload FIFO has no room. *)
PlacementBypass(r, seq, len, full) ==
  LET end == (seq + len) % SeqSpace
  IN  IF seq = r.recvd /\ ~full
      THEN [sar |-> [r EXCEPT !.recvd = end, !.head = end], decision |-> <<FALSE>>,
            cmd |-> FALSE, note |-> len]
      ELSE [sar |-> r, decision |-> <<TRUE>>, cmd |-> FALSE, note |-> 0]

(* rx_sar_table keeps the application's pointer when rxTcpFSM writes. *)
WriteSar(r) == sar' = [r EXCEPT !.appd = sar.appd]

(* rxTcpFsm's outputs for a payload that it keeps: the write command, the  *)
(* notification (length 0 when the data is not yet in order) and the       *)
(* decision.  In the default build the notification is not delayed.        *)
Emit(p, seg, closed) ==
  LET note == [len |-> p.note, closed |-> closed]
      isNote == p.cmd \/ p.note # 0 \/ closed
  IN /\ drop2' = drop2 \o p.decision
     /\ writes' = IF p.cmd THEN Append(writes, [addr |-> SeqNumb(seg.pos) % BufSize,
                                                len |-> seg.len])
                  ELSE writes
     /\ delayed' = IF isNote /\ ~DdrBypass THEN Append(delayed, note) ELSE delayed
     /\ notes' = IF isNote /\ DdrBypass THEN Append(notes, note) ELSE notes

(* State TRANSITION, a plain segment.  In LAST_ACK it closes the session   *)
(* when it acknowledges all that was sent.                                 *)
FsmAck ==
  /\ fsm # <<>> /\ fsm[1].seg.flags = "ACK"
  /\ Room(drop2) /\ Room(writes) /\ Room(delayed) /\ Room(notes)
  /\ LET seg == fsm[1].seg
         r   == fsm[1].sar
         p   == IF DdrBypass THEN PlacementBypass(r, SeqNumb(seg.pos), seg.len, ~Room(kept))
                             ELSE Placement(r, SeqNumb(seg.pos), seg.len)
     IN  \/ seg.len = 0 /\ UNCHANGED <<sar, drop2, writes, delayed, notes>>
         \/ seg.len # 0 /\ state # "CLOSED" /\ WriteSar(p.sar) /\ Emit(p, seg, FALSE)
         \/ /\ seg.len # 0 /\ state = "CLOSED"
            /\ drop2' = Append(drop2, TRUE)
            /\ UNCHANGED <<sar, writes, delayed, notes>>
  /\ state' \in IF state = "LAST_ACK" THEN {"LAST_ACK", "CLOSED"} ELSE {state}
  /\ fsm' = <<>>
  /\ UNCHANGED <<start, payloads, fsmMeta, drop1, kept, reads, mem, statuses, delivered>>

(* A segment with FIN is accepted when it starts at recvd; the FIN counts  *)
(* as one more byte.  recvd and head move, offset and gap stay.            *)
(* mutant: no decision for the payload of a FIN *)
FinUndecided(r, seq, len) ==
  LET end == (seq + len + 1) % SeqSpace
  IN  [sar |-> [r EXCEPT !.recvd = end, !.head = end],
       decision |-> <<>>, cmd |-> len # 0 /\ ~DdrBypass, note |-> len]
FinPlacement(r, seq, len) ==
  LET end == (seq + len + 1) % SeqSpace
  IN  [sar |-> [r EXCEPT !.recvd = end, !.head = end],
       decision |-> IF len # 0 THEN <<FALSE>> ELSE <<>>,
       cmd |-> len # 0 /\ ~DdrBypass, note |-> len]

FsmFin ==
  /\ fsm # <<>> /\ fsm[1].seg.flags = "FIN"
  /\ Room(drop2) /\ Room(writes) /\ Room(delayed) /\ Room(notes)
  /\ LET seg == fsm[1].seg
         r   == fsm[1].sar
     IN  IF state = "ESTABLISHED" /\ r.recvd = SeqNumb(seg.pos)
         THEN /\ WriteSar(FinPlacement(r, SeqNumb(seg.pos), seg.len).sar)
              /\ Emit(FinPlacement(r, SeqNumb(seg.pos), seg.len), seg, TRUE)
              /\ state' = "LAST_ACK"
         ELSE /\ drop2' = IF seg.len # 0 THEN Append(drop2, TRUE) ELSE drop2
              /\ UNCHANGED <<sar, state, writes, delayed, notes>>
  /\ fsm' = <<>>
  /\ UNCHANGED <<start, payloads, fsmMeta, drop1, kept, reads, mem, statuses, delivered>>

(* The default case: a reset at recvd closes the session; no decision is   *)
(* made for a payload.                                                     *)
FsmDefault ==
  /\ fsm # <<>> /\ fsm[1].seg.flags \in {"RST", "other"}
  /\ Room(delayed) /\ Room(notes)
  /\ LET rst == fsm[1].seg.flags = "RST" /\ SeqNumb(fsm[1].seg.pos) = fsm[1].sar.recvd
         note == [len |-> 0, closed |-> TRUE]
     IN  /\ state' = IF rst THEN "CLOSED" ELSE state
         /\ delayed' = IF rst /\ ~DdrBypass THEN Append(delayed, note) ELSE delayed
         /\ notes' = IF rst /\ DdrBypass THEN Append(notes, note) ELSE notes
  /\ fsm' = <<>>
  /\ UNCHANGED <<start, sar, payloads, fsmMeta, drop1, drop2, kept, writes, reads, mem, statuses,
                 delivered>>

-----------------------------------------------------------------------------
(* rxPackageDropper, for one payload: it waits for the first decision and, *)
(* unless that one drops it, for the second.                               *)
Dropper ==
  /\ payloads # <<>> /\ drop1 # <<>>
  /\ \/ /\ Head(drop1)
        /\ UNCHANGED <<drop2, kept>>
     \/ /\ ~Head(drop1) /\ drop2 # <<>> /\ Room(kept)
        /\ kept' = IF Head(drop2) THEN kept ELSE Append(kept, Head(payloads))
        /\ drop2' = Tail(drop2)
  /\ payloads' = Tail(payloads) /\ drop1' = Tail(drop1)
  /\ UNCHANGED <<start, sar, state, fsm, fsmMeta, writes, reads, mem, statuses, delayed, notes,
                 delivered>>

(* The cells of the ring buffer that a command covers. *)
Cells(c) == {(c.addr + i) % BufSize : i \in 0 .. c.len - 1}

(* rxEngMemWrite and the data mover: a payload is written to the ring      *)
(* buffer at the address of its command (in two parts when it passes the   *)
(* end of the ring) and the status returned.  The length is the command's. *)
(* Reads and writes are separate channels of the memory; a read that was   *)
(* issued is taken to be served before the cells it frees are overwritten: *)
(* the peer must first have been told of the window.                       *)
MemWrite ==
  /\ writes # <<>> /\ kept # <<>>
  /\ \A i \in DOMAIN reads : Cells(reads[i]) \cap Cells(Head(writes)) = {}
  /\ mem' = [a \in 0 .. BufSize - 1 |->
               IF a \in Cells(Head(writes))
               THEN Head(kept).pos + ((a + BufSize - Head(writes).addr) % BufSize)
               ELSE mem[a]]
  /\ writes' = Tail(writes) /\ kept' = Tail(kept)
  /\ statuses' = statuses + 1
  /\ UNCHANGED <<start, sar, state, fsm, payloads, fsmMeta, drop1, drop2, reads, delayed,
                 notes, delivered>>

ClosedOnly(note) == note.closed /\ note.len = 0

(* rxAppNotificationDelayer: a notification of the close alone is passed   *)
(* on at once, every other one waits for its write status; length 0 is     *)
(* swallowed.                                                              *)
(* mutant: the write status is not waited for *)
NotifyUnwritten ==
  /\ Room(notes) /\ delayed # <<>> /\ ~ClosedOnly(Head(delayed))
  /\ notes' = IF Head(delayed).len # 0 THEN Append(notes, Head(delayed)) ELSE notes
  /\ delayed' = Tail(delayed)
  /\ UNCHANGED <<start, sar, state, fsm, payloads, fsmMeta, drop1, drop2, kept, writes, reads,
                 mem, statuses, delivered>>

(* mutant: a full notification FIFO loses the notification *)
NotifyLossy ==
  /\ statuses > 0
  /\ delayed # <<>> /\ ~ClosedOnly(Head(delayed))
  /\ notes' = IF Head(delayed).len # 0 /\ Room(notes) THEN Append(notes, Head(delayed)) ELSE notes
  /\ delayed' = Tail(delayed)
  /\ statuses' = statuses - 1
  /\ UNCHANGED <<start, sar, state, fsm, payloads, fsmMeta, drop1, drop2, kept, writes, reads,
                 mem, delivered>>

NotifyWritten ==
  /\ statuses > 0 /\ Room(notes)
  /\ delayed # <<>> /\ ~ClosedOnly(Head(delayed))
  /\ notes' = IF Head(delayed).len # 0 THEN Append(notes, Head(delayed)) ELSE notes
  /\ delayed' = Tail(delayed)
  /\ statuses' = statuses - 1
  /\ UNCHANGED <<start, sar, state, fsm, payloads, fsmMeta, drop1, drop2, kept, writes, reads,
                 mem, delivered>>

NotifyClosed ==
  /\ Room(notes)
  /\ \E i \in 1 .. Len(delayed) :
       /\ ClosedOnly(delayed[i])
       /\ \A j \in 1 .. i - 1 : ~ClosedOnly(delayed[j])
       /\ notes' = Append(notes, delayed[i])
       /\ delayed' = RemoveAt(delayed, i)
  /\ UNCHANGED <<start, sar, state, fsm, payloads, fsmMeta, drop1, drop2, kept, writes, reads,
                 mem, statuses, delivered>>

-----------------------------------------------------------------------------
(* The application reads what it was notified of: rx_app_stream_if issues  *)
(* the read at the application's pointer and moves the pointer.            *)
AppRead ==
  /\ notes # <<>> /\ Room(reads)
  /\ LET n == Head(notes).len
     IN  IF n # 0
         THEN /\ reads' = Append(reads, [addr |-> sar.appd, len |-> n])
              /\ sar' = [sar EXCEPT !.appd = (@ + n) % BufSize]
         ELSE UNCHANGED <<reads, sar>>
  /\ notes' = Tail(notes)
  /\ UNCHANGED <<start, state, fsm, payloads, fsmMeta, drop1, drop2, kept, writes, mem, statuses,
                 delayed, delivered>>

(* rxAppMemAccessBreakdown: the addresses a read visits.  A read that      *)
(* passes a multiple of 2^16 is split there and goes on at the multiple    *)
(* before, whatever the size of the ring buffer.                           *)
ReadAddr(c, i) ==
  LET low == c.addr % Short
  IN  IF low + i < Short THEN c.addr + i ELSE c.addr - low + (low + i - Short)

(* The memory serves a read; rxAppMemDataRead joins its two parts. *)
MemRead ==
  /\ ~DdrBypass /\ reads # <<>>
  /\ LET c == Head(reads)
     IN  delivered' = delivered \o [i \in 1 .. c.len |-> mem[ReadAddr(c, i - 1)]]
  /\ reads' = Tail(reads)
  /\ UNCHANGED <<start, sar, state, fsm, payloads, fsmMeta, drop1, drop2, kept, writes, mem,
                 statuses, delayed, notes>>

(* In the default build a read takes the next payload from the FIFO,       *)
(* whatever its length.                                                    *)
FifoRead ==
  /\ DdrBypass /\ reads # <<>> /\ kept # <<>>
  /\ delivered' = delivered \o [i \in 1 .. Head(kept).len |-> Head(kept).pos + i - 1]
  /\ reads' = Tail(reads) /\ kept' = Tail(kept)
  /\ UNCHANGED <<start, sar, state, fsm, payloads, fsmMeta, drop1, drop2, writes, mem,
                 statuses, delayed, notes>>

Next == \/ \E seg \in Segments, hit \in BOOLEAN : Receive(seg, hit)
        \/ FsmLoad \/ FsmAck \/ FsmFin \/ FsmDefault
        \/ Dropper \/ MemWrite \/ NotifyWritten \/ NotifyClosed
        \/ AppRead \/ MemRead \/ FifoRead

Spec == Init /\ [][Next]_vars

(* Every stage of the engine is polled in each clock cycle and the         *)
(* application reads what it is notified of; the peer retransmits a        *)
(* segment until it is acknowledged, and the network does not lose it      *)
(* for ever.                                                               *)
Fairness ==
  /\ WF_vars(FsmLoad) /\ WF_vars(FsmAck) /\ WF_vars(FsmFin) /\ WF_vars(FsmDefault)
  /\ WF_vars(Dropper) /\ WF_vars(MemWrite) /\ WF_vars(NotifyWritten)
  /\ WF_vars(NotifyClosed) /\ WF_vars(AppRead) /\ WF_vars(MemRead) /\ WF_vars(FifoRead)
  /\ \A seg \in {g \in Segments : g.flags \in {"ACK", "FIN"}} : SF_vars(Receive(seg, TRUE))

LiveSpec == Spec /\ Fairness

-----------------------------------------------------------------------------
(* Properties *)

(* Every FIFO keeps its depth, and the values are of their types. *)
TypeOK ==
  /\ start \in Starts
  /\ sar \in [recvd : 0 .. SeqSpace - 1, head : 0 .. SeqSpace - 1, offset : 0 .. SeqSpace - 1,
             gap : BOOLEAN, appd : 0 .. BufSize - 1]
  /\ state \in {"ESTABLISHED", "LAST_ACK", "CLOSED"}
  /\ \A q \in {payloads, fsmMeta, kept} : q \in BoundedSeq(Segments, Depth)
  /\ \A q \in {drop1, drop2} : q \in BoundedSeq(BOOLEAN, Depth)
  /\ \A i \in DOMAIN fsm : fsm[i].seg \in Segments
  /\ Len(writes) <= Depth /\ Len(reads) <= Depth /\ Len(delayed) <= Depth /\ Len(notes) <= Depth
  /\ mem \in [0 .. BufSize - 1 -> -1 .. StreamLen - 1]
  /\ statuses \in 0 .. Depth /\ Len(delivered) <= StreamLen

(* The application receives the bytes of the peer's stream, in order, none *)
(* missing and none twice, whatever is reordered, duplicated or dropped    *)
(* on the way: rxTcpFSM, the two drop decisions per payload, the ring      *)
(* buffer, the write statuses and rx_app_stream_if agree on every segment. *)
StreamDelivered == \A i \in 1 .. Len(delivered) : delivered[i] = i - 1

(* Position in the stream of a sequence number of the entry. *)
Pos(seq) == (seq + SeqSpace - Isn) % SeqSpace

(* The peer's FIN has been accepted. *)
Ended == Pos(sar.recvd) = StreamLen + 1

(* The picture above rxSarEntry: appd, recvd, offset and head follow each  *)
(* other, without a gap head is recvd, and head never reaches a byte that  *)
(* the application has not read (the FIN's phantom byte takes no room).    *)
PointerOrder ==
  /\ AppPos <= Pos(sar.recvd)
  /\ sar.gap => Pos(sar.recvd) < Pos(sar.offset) /\ Pos(sar.offset) < Pos(sar.head)
  /\ ~sar.gap => sar.head = sar.recvd
  /\ ~DdrBypass => Pos(sar.head) <= AppPos + BufSize - (IF Ended THEN 0 ELSE 1)

(* Every payload that rxTcpFSM has finished with has its decision: what    *)
(* lies before the dropper is what the decisions and the segments still on *)
(* their way to the state machine account for.                             *)
Undropped(q) == [i \in DOMAIN q |-> IF q[i] THEN 0 ELSE 1]
Pending(q) == [i \in DOMAIN q |-> IF q[i].len # 0 THEN 1 ELSE 0]
Decided == /\ Len(payloads) = Len(drop1)
           /\ Total(Undropped(drop1))
              = Len(drop2) + Total(Pending(fsmMeta)) + Total(Pending([i \in DOMAIN fsm |-> fsm[i].seg]))

(* A stream the peer keeps retransmitting, and does not reset, reaches the *)
(* application as a whole, and so does its end: no gap stays open for      *)
(* ever, no stage waits for a decision, a command or a status that never   *)
(* comes.                                                                  *)
Reset == state = "CLOSED" /\ ~Ended
WholeStream == <>(\/ Reset
                  \/ /\ Len(delivered) = StreamLen /\ Ended
                     /\ delayed = <<>> /\ notes = <<>>)
=============================================================================
