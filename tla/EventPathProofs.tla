-------------------------- MODULE EventPathProofs ---------------------------
(* Proofs about EventPath, for any number of sessions, any depth of the    *)
(* FIFOs and any sets of events.                                           *)
EXTENDS EventPath, TLAPS

-----------------------------------------------------------------------------
(* FIFOs *)

(* An entry is put into a FIFO with room. *)
LEMMA FifoAppend ==
  ASSUME NEW q, Fifo(q), Room(q), NEW e \in Event
  PROVE  /\ Fifo(Append(q, e)) /\ Len(Append(q, e)) = Len(q) + 1
         /\ \A i \in 1 .. Len(q) : Append(q, e)[i] = q[i]
         /\ Append(q, e)[Len(q) + 1] = e
  BY ConstAssumption DEF Fifo, Room

(* An entry is taken from a FIFO. *)
LEMMA FifoTail ==
  ASSUME NEW q, Fifo(q), q # <<>>
  PROVE  /\ Fifo(Tail(q)) /\ Len(Tail(q)) = Len(q) - 1 /\ Len(q) \in Nat \ {0}
         /\ Head(q) \in Event /\ Head(q) = q[1]
         /\ \A i \in 1 .. Len(q) - 1 : Tail(q)[i] = q[i + 1]
  BY ConstAssumption DEF Fifo

(* An empty FIFO holds nothing. *)
LEMMA FifoEmpty == Fifo(<<>>)
  BY ConstAssumption DEF Fifo

(* The counters stay within their range. *)
LEMMA Plus1Type == \A c \in 0 .. Wrap - 1 : Plus1(c) \in 0 .. Wrap - 1
  BY ConstAssumption DEF Plus1

-----------------------------------------------------------------------------
(* The token FIFOs and the counters keep their types when event_engine reads. *)
LEMMA TokensType ==
  ASSUME TypeOK, TakeTokens
  PROVE  /\ readTok' \in 0 .. Depth /\ writeTok' \in 0 .. Depth /\ txTok' \in 0 .. Depth
         /\ adReadCounter' \in 0 .. Wrap - 1 /\ adWriteCounter' \in 0 .. Wrap - 1
         /\ txEngReadCounter' \in 0 .. Wrap - 1
  BY ConstAssumption, Plus1Type DEF TypeOK, TakeTokens

(* Every step keeps the types: no process puts more into a FIFO than it    *)
(* holds, and the counters and the table keep their ranges.                *)
LEMMA TypeStep ==
  ASSUME TypeOK, [Next]_vars
  PROVE  TypeOK'
<1> USE DEF TypeOK
<1>1. ASSUME NEW e \in RxEvents, RaiseRx(e) PROVE TypeOK'
  BY <1>1, FifoAppend, ConstAssumption
  DEF RaiseRx, Acks, Event, tokens, counters, delayer
<1>2. ASSUME NEW e \in TimerEvents, RaiseTimer(e) PROVE TypeOK'
  BY <1>2, FifoAppend, ConstAssumption DEF RaiseTimer, tokens, counters, delayer
<1>3. ASSUME NEW e \in AppEvents, RaiseApp(e) PROVE TypeOK'
  BY <1>3, FifoAppend, ConstAssumption DEF RaiseApp, tokens, counters, delayer
<1>4. CASE TakeRx
  BY <1>4, TokensType, FifoAppend, FifoTail, Plus1Type DEF TakeRx, RxTurn, Pass, delayer
<1>5. CASE TakeTimer
  BY <1>5, TokensType, FifoAppend, FifoTail, Plus1Type DEF TakeTimer, Pass, delayer
<1>6. CASE TakeApp
  BY <1>6, TokensType, FifoAppend, FifoTail, Plus1Type DEF TakeApp, Pass, delayer
<1>7. CASE TakeNothing
  BY <1>7, TokensType DEF TakeNothing, sources, delayer
<1>8. CASE DelayAck
  BY <1>8, FifoTail, ConstAssumption DEF DelayAck, sources, counters, Event
<1>9. CASE Forward
  <2>1. Fifo(adQ)' /\ Fifo(txQ)' /\ Head(adQ).session \in Sessions
    BY <1>9, FifoTail, FifoAppend DEF Forward, Event
  <2>2. ackTable' \in [Sessions -> 0 .. Delay]
    BY <1>9, <2>1, ConstAssumption DEF Forward
  <2> QED
    BY <1>9, <2>1, <2>2, ConstAssumption DEF Forward, sources, counters
<1>10. CASE Scan
  <2>1. [type |-> "ACK", session |-> adPointer] \in Event
    BY DEF Event, Types
  <2>2. adPointer' \in Sessions
    BY <1>10, ConstAssumption DEF Scan, Sessions
  <2>3. Fifo(txQ)'
    <3>1. CASE UNCHANGED txQ
      BY <3>1
    <3>2. CASE Room(txQ) /\ txQ' = Append(txQ, [type |-> "ACK", session |-> adPointer])
      BY <2>1, <3>2, FifoAppend
    <3> QED
      BY <1>10, <3>1, <3>2 DEF Scan
  <2>4. ackTable' \in [Sessions -> 0 .. Delay]
    <3>1. ackTable[adPointer] > 0 => ackTable[adPointer] - 1 \in 0 .. Delay
      BY ConstAssumption
    <3> QED
      BY <1>10, <3>1 DEF Scan
  <2>5. writeTok' \in 0 .. Depth
    BY <1>10, ConstAssumption DEF Scan
  <2> QED
    BY <1>10, <2>2, <2>3, <2>4, <2>5 DEF Scan, sources, counters
<1>11. CASE TakeEvent
  BY <1>11, FifoTail, ConstAssumption DEF TakeEvent, sources, counters, delayer
<1>12. CASE UNCHANGED vars
  BY <1>12 DEF vars, sources, tokens, counters, delayer
<1> QED
  BY <1>1, <1>2, <1>3, <1>4, <1>5, <1>6, <1>7, <1>8, <1>9, <1>10, <1>11, <1>12
  DEF Next, EventEngine

(* The initial state is well typed. *)
LEMMA TypeInit == Init => TypeOK
  BY ConstAssumption, FifoEmpty DEF Init, TypeOK, Sessions

(* Type correctness of event_engine, ack_delay and metaLoader's input. *)
THEOREM TypeCorrect == Spec => []TypeOK
  BY TypeInit, TypeStep, PTL DEF Spec

-----------------------------------------------------------------------------
(* The gate.  Counted modulo Wrap, the events event_engine has passed on   *)
(* and ack_delay has not been seen to read are those in adQ and in the     *)
(* tokens; and the events ack_delay has been seen to write and metaLoader  *)
(* has not been seen to read are those in txQ and in its tokens, less the  *)
(* writes event_engine has yet to see.                                     *)

(* Counter r is n behind counter w, modulo Wrap. *)
Behind(w, r, n) == w - r \in {n, n - Wrap, n + Wrap}

GateInv ==
  /\ Behind(writeCounter, adReadCounter, Len(adQ) + readTok)
  /\ Behind(adWriteCounter, txEngReadCounter, Len(txQ) + txTok - writeTok)

(* The first counter moves on, or the second one does. *)
LEMMA BehindStep ==
  ASSUME NEW w \in 0 .. Wrap - 1, NEW r \in 0 .. Wrap - 1, NEW n \in -Depth .. 2 * Depth,
         Behind(w, r, n)
  PROVE  /\ n + 1 <= 2 * Depth => Behind(Plus1(w), r, n + 1)
         /\ n - 1 >= -Depth => Behind(w, Plus1(r), n - 1)
  BY ConstAssumption DEF Behind, Plus1

(* The distances are in the range of BehindStep. *)
LEMMA Distances ==
  ASSUME TypeOK
  PROVE  /\ Len(adQ) \in 0 .. Depth /\ Len(txQ) \in 0 .. Depth
         /\ Len(adQ) + readTok \in 0 .. 2 * Depth
         /\ Len(txQ) + txTok - writeTok \in -Depth .. 2 * Depth
<1>1. \A q : Fifo(q) => Len(q) \in 0 .. Depth
  BY ConstAssumption DEF Fifo
<1> QED
  BY <1>1, ConstAssumption DEF TypeOK

(* event_engine reads its tokens: what is behind gets smaller by the reads *)
(* it sees, and what metaLoader has to read grows by the writes it sees.   *)
LEMMA TokensKeep ==
  ASSUME TypeOK, TakeTokens, GateInv
  PROVE  /\ Behind(writeCounter, adReadCounter', Len(adQ) + readTok')
         /\ Len(adQ) + readTok' \in 0 .. 2 * Depth
         /\ Behind(adWriteCounter', txEngReadCounter', Len(txQ) + txTok' - writeTok')
<1>1. Behind(writeCounter, adReadCounter', Len(adQ) + readTok')
  <2>1. CASE readTok > 0
    <3>1. Behind(writeCounter, Plus1(adReadCounter), Len(adQ) + readTok - 1)
      BY <2>1, BehindStep, Distances, ConstAssumption DEF TypeOK, GateInv
    <3>2. Len(adQ) + readTok' = Len(adQ) + readTok - 1
      BY <2>1, Distances, ConstAssumption DEF TypeOK, TakeTokens
    <3> QED
      BY <2>1, <3>1, <3>2 DEF TakeTokens
  <2>2. CASE ~(readTok > 0)
    BY <2>2 DEF TypeOK, TakeTokens, GateInv
  <2> QED
    BY <2>1, <2>2
<1>2. Len(adQ) + readTok' \in 0 .. 2 * Depth
  BY TokensType, Distances, ConstAssumption
<1>3. /\ Behind(adWriteCounter', txEngReadCounter, Len(txQ) + txTok - writeTok')
      /\ Len(txQ) + txTok - writeTok' \in -Depth .. 2 * Depth
  <2>1. CASE writeTok > 0
    <3>1. Len(txQ) + txTok - writeTok + 1 \in -Depth .. 2 * Depth
      BY <2>1, Distances, ConstAssumption DEF TypeOK
    <3>2. Behind(Plus1(adWriteCounter), txEngReadCounter, Len(txQ) + txTok - writeTok + 1)
      BY <3>1, BehindStep, Distances, ConstAssumption DEF TypeOK, GateInv
    <3>3. Len(txQ) + txTok - writeTok' = Len(txQ) + txTok - writeTok + 1
      BY <2>1, Distances, ConstAssumption DEF TypeOK, TakeTokens
    <3> QED
      BY <2>1, <3>1, <3>2, <3>3 DEF TakeTokens
  <2>2. CASE ~(writeTok > 0)
    BY <2>2, Distances DEF TypeOK, TakeTokens, GateInv
  <2> QED
    BY <2>1, <2>2
<1>4. Behind(adWriteCounter', txEngReadCounter', Len(txQ) + txTok' - writeTok')
  <2>1. CASE txTok > 0
    <3>1. Len(txQ) + txTok - writeTok' - 1 >= -Depth
      BY <2>1, TokensType, Distances, ConstAssumption, SMTT(40) DEF TypeOK
    <3>2. Behind(adWriteCounter', Plus1(txEngReadCounter), Len(txQ) + txTok - writeTok' - 1)
      BY <1>3, <3>1, BehindStep, TokensType, ConstAssumption, SMTT(40) DEF TypeOK
    <3>3. Len(txQ) + txTok' - writeTok' = Len(txQ) + txTok - writeTok' - 1
      BY <2>1, TokensType, Distances, ConstAssumption DEF TypeOK, TakeTokens
    <3> QED
      BY <2>1, <3>2, <3>3 DEF TakeTokens
  <2>2. CASE ~(txTok > 0)
    BY <1>3, <2>2 DEF TypeOK, TakeTokens
  <2> QED
    BY <2>1, <2>2
<1> QED
  BY <1>1, <1>2, <1>4

(* event_engine reads its tokens and passes an event on. *)
LEMMA PassKeeps ==
  ASSUME TypeOK, TakeTokens, NEW e \in Event, Room(adQ), Pass(e), UNCHANGED txQ, GateInv
  PROVE  GateInv'
<1>1. Len(adQ') = Len(adQ) + 1 /\ Len(adQ) < Depth
  BY FifoAppend DEF TypeOK, Pass, Room
<1>2. Len(adQ) + readTok' + 1 <= 2 * Depth /\ Len(adQ) + readTok' \in -Depth .. 2 * Depth
  BY <1>1, TokensType, Distances, ConstAssumption, SMTT(40)
<1>3. Behind(Plus1(writeCounter), adReadCounter', Len(adQ) + readTok' + 1)
  BY <1>2, TokensKeep, TokensType, BehindStep, ConstAssumption DEF TypeOK
<1>4. Len(adQ) + readTok' + 1 = Len(adQ') + readTok'
  BY <1>1, TokensType, Distances
<1> QED
  BY <1>3, <1>4, TokensKeep DEF Pass, GateInv

(* Every step of the three processes keeps the distances of the counters. *)
LEMMA GateStep ==
  ASSUME TypeOK, GateInv, [Next]_vars
  PROVE  GateInv'
<1>1. ASSUME NEW e \in RxEvents, RaiseRx(e) PROVE GateInv'
  BY <1>1 DEF RaiseRx, tokens, counters, GateInv
<1>2. ASSUME NEW e \in TimerEvents, RaiseTimer(e) PROVE GateInv'
  BY <1>2 DEF RaiseTimer, tokens, counters, GateInv
<1>3. ASSUME NEW e \in AppEvents, RaiseApp(e) PROVE GateInv'
  BY <1>3 DEF RaiseApp, tokens, counters, GateInv
<1>4. CASE TakeRx
  BY <1>4, PassKeeps, FifoTail DEF TakeRx, RxTurn, TypeOK
<1>5. CASE TakeTimer
  BY <1>5, PassKeeps, FifoTail DEF TakeTimer, TypeOK
<1>6. CASE TakeApp
  BY <1>6, PassKeeps, FifoTail DEF TakeApp, TypeOK
<1>7. CASE TakeNothing
  BY <1>7, TokensKeep DEF TakeNothing, GateInv
<1>8. CASE DelayAck
  <2>1. Len(adQ') = Len(adQ) - 1
    BY <1>8, FifoTail DEF DelayAck, TypeOK
  <2>2. Len(adQ') + readTok' = Len(adQ) + readTok
    BY <1>8, <2>1, Distances DEF DelayAck, TypeOK
  <2> QED
    BY <1>8, <2>2 DEF DelayAck, counters, GateInv
<1>9. CASE Forward
  <2>1. Len(adQ') = Len(adQ) - 1
    BY <1>9, FifoTail DEF Forward, TypeOK
  <2>2. Len(txQ') = Len(txQ) + 1
    BY <1>9, FifoTail, FifoAppend DEF Forward, TypeOK
  <2>3. Len(adQ') + readTok' = Len(adQ) + readTok
    BY <1>9, <2>1, Distances DEF Forward, TypeOK
  <2>4. Len(txQ') + txTok' - writeTok' = Len(txQ) + txTok - writeTok
    BY <1>9, <2>2, Distances DEF Forward, TypeOK
  <2> QED
    BY <1>9, <2>3, <2>4 DEF Forward, counters, GateInv
<1>10. CASE Scan
  <2>1. \/ UNCHANGED <<txQ, writeTok>>
        \/ Len(txQ') = Len(txQ) + 1 /\ writeTok' = writeTok + 1
    <3>1. [type |-> "ACK", session |-> adPointer] \in Event
      BY DEF Event, Types, TypeOK
    <3>2. CASE Room(txQ) /\ txQ' = Append(txQ, [type |-> "ACK", session |-> adPointer])
                 /\ writeTok' = writeTok + 1
      BY <3>1, <3>2, FifoAppend DEF TypeOK
    <3> QED
      BY <1>10, <3>2 DEF Scan
  <2>2. txTok' = txTok
    BY <1>10 DEF Scan
  <2>3. Len(txQ') + txTok' - writeTok' = Len(txQ) + txTok - writeTok
    BY <2>1, <2>2, Distances, SMTT(40) DEF TypeOK
  <2> QED
    BY <1>10, <2>3 DEF Scan, counters, GateInv
<1>11. CASE TakeEvent
  <2>1. Len(txQ') = Len(txQ) - 1
    BY <1>11, FifoTail DEF TakeEvent, TypeOK
  <2>2. Len(txQ') + txTok' - writeTok' = Len(txQ) + txTok - writeTok
    BY <1>11, <2>1, Distances DEF TakeEvent, TypeOK
  <2> QED
    BY <1>11, <2>2 DEF TakeEvent, counters, GateInv
<1>12. CASE UNCHANGED vars
  BY <1>12 DEF vars, tokens, counters, GateInv
<1> QED
  BY <1>1, <1>2, <1>3, <1>4, <1>5, <1>6, <1>7, <1>8, <1>9, <1>10, <1>11, <1>12
  DEF Next, EventEngine

(* The gate is never mistaken: when the counters agree, nothing is between *)
(* event_engine and ack_delay, whatever the lag of the tokens and however  *)
(* often the counters have wrapped.  The FIFOs' depth is what makes the    *)
(* 8-bit counters wide enough (2 * Depth < Wrap).                          *)
THEOREM GateCorrect == Spec => []GateMeansIdle
<1>1. Init => GateInv
  BY ConstAssumption DEF Init, GateInv, Behind
<1>2. TypeOK /\ GateInv => GateMeansIdle
  <2>1. SUFFICES ASSUME TypeOK, GateInv, Gate
                 PROVE  adQ = <<>> /\ Len(txQ) + txTok = writeTok
    BY DEF GateMeansIdle
  <2>2. \A n \in -Depth .. 2 * Depth, c \in 0 .. Wrap - 1 : Behind(c, c, n) => n = 0
    BY ConstAssumption DEF Behind
  <2>3. Len(adQ) + readTok = 0 /\ Len(txQ) + txTok - writeTok = 0
    BY <2>1, <2>2, Distances, ConstAssumption DEF TypeOK, GateInv, Gate
  <2>4. Len(adQ) = 0 /\ Len(txQ) + txTok = writeTok
    BY <2>1, <2>3, Distances DEF TypeOK
  <2> QED
    BY <2>1, <2>4 DEF TypeOK, Fifo
<1> QED
  BY <1>1, <1>2, TypeInit, TypeStep, GateStep, PTL DEF Spec

-----------------------------------------------------------------------------
(* Acknowledgements.  Every event under way has been raised by a source or *)
(* is an ACK of the scan; so a quiet session's event sends a segment.      *)

Raised == RxEvents \cup TimerEvents \cup AppEvents
Known == {e \in Event : e.session \in Quiet => Sends(e) = {TRUE}}
AllKnown(q) == \A i \in 1 .. Len(q) : q[i] \in Known
KnownInv == AllKnown(rxQ) /\ AllKnown(timerQ) /\ AllKnown(appQ) /\ AllKnown(adQ) /\ AllKnown(txQ)

(* The sources' events are known. *)
LEMMA RaisedKnown == Raised \subseteq Known
  BY ConstAssumption DEF Raised, Known, Quiet

(* The scan's ACK is known: it always sends a segment. *)
LEMMA AckKnown ==
  ASSUME NEW s \in Sessions
  PROVE  [type |-> "ACK", session |-> s] \in Known
  BY DEF Known, Event, Types, Sends

(* A FIFO of known events stays one when a known event is put into it. *)
LEMMA KnownAppend ==
  ASSUME NEW q, Fifo(q), Room(q), AllKnown(q), NEW e \in Known
  PROVE  AllKnown(Append(q, e))
<1>1. e \in Event
  BY DEF Known
<1> QED
  BY <1>1, FifoAppend DEF AllKnown, Fifo

(* Its head is known, and its tail is a FIFO of known events. *)
LEMMA KnownTail ==
  ASSUME NEW q, Fifo(q), q # <<>>, AllKnown(q)
  PROVE  AllKnown(Tail(q)) /\ Head(q) \in Known
  BY FifoTail DEF AllKnown

(* Every step keeps the events under way known. *)
LEMMA KnownStep ==
  ASSUME TypeOK, KnownInv, [Next]_vars
  PROVE  KnownInv'
<1>1. ASSUME NEW e \in RxEvents, RaiseRx(e) PROVE KnownInv'
  BY <1>1, KnownAppend, RaisedKnown DEF RaiseRx, KnownInv, TypeOK, Raised
<1>2. ASSUME NEW e \in TimerEvents, RaiseTimer(e) PROVE KnownInv'
  BY <1>2, KnownAppend, RaisedKnown DEF RaiseTimer, KnownInv, TypeOK, Raised
<1>3. ASSUME NEW e \in AppEvents, RaiseApp(e) PROVE KnownInv'
  BY <1>3, KnownAppend, RaisedKnown DEF RaiseApp, KnownInv, TypeOK, Raised
<1>4. CASE TakeRx
  BY <1>4, KnownAppend, KnownTail DEF TakeRx, RxTurn, Pass, KnownInv, TypeOK
<1>5. CASE TakeTimer
  BY <1>5, KnownAppend, KnownTail DEF TakeTimer, Pass, KnownInv, TypeOK
<1>6. CASE TakeApp
  BY <1>6, KnownAppend, KnownTail DEF TakeApp, Pass, KnownInv, TypeOK
<1>7. CASE TakeNothing
  BY <1>7 DEF TakeNothing, sources, KnownInv
<1>8. CASE DelayAck
  BY <1>8, KnownTail DEF DelayAck, sources, KnownInv, TypeOK
<1>9. CASE Forward
  BY <1>9, KnownAppend, KnownTail DEF Forward, sources, KnownInv, TypeOK
<1>10. CASE Scan
  <2>1. CASE Room(txQ) /\ txQ' = Append(txQ, [type |-> "ACK", session |-> adPointer])
    BY <1>10, <2>1, AckKnown, KnownAppend DEF Scan, sources, KnownInv, TypeOK
  <2>2. CASE UNCHANGED txQ
    BY <1>10, <2>2 DEF Scan, sources, KnownInv
  <2> QED
    BY <1>10, <2>1, <2>2 DEF Scan
<1>11. CASE TakeEvent
  BY <1>11, KnownTail DEF TakeEvent, sources, KnownInv, TypeOK
<1>12. CASE UNCHANGED vars
  BY <1>12 DEF vars, sources, KnownInv
<1> QED
  BY <1>1, <1>2, <1>3, <1>4, <1>5, <1>6, <1>7, <1>8, <1>9, <1>10, <1>11, <1>12
  DEF Next, EventEngine

(* A FIFO goes on holding an event of a session until it is taken. *)
LEMMA HoldsAppend ==
  ASSUME NEW q, Fifo(q), Room(q), NEW e \in Event, NEW s
  PROVE  /\ Holds(q, s) => Holds(Append(q, e), s)
         /\ e.session = s /\ Sends(e) = {TRUE} => Holds(Append(q, e), s)
<1>1. Len(q) \in Nat /\ Len(Append(q, e)) = Len(q) + 1
  BY FifoAppend DEF Fifo
<1>2. Holds(q, s) => Holds(Append(q, e), s)
  <2>1. SUFFICES ASSUME NEW i \in 1 .. Len(q), q[i].session = s, Sends(q[i]) = {TRUE}
                 PROVE  Holds(Append(q, e), s)
    BY DEF Holds
  <2>2. i \in 1 .. Len(Append(q, e)) /\ Append(q, e)[i] = q[i]
    BY <1>1, FifoAppend
  <2> QED
    BY <2>1, <2>2 DEF Holds
<1>3. e.session = s /\ Sends(e) = {TRUE} => Holds(Append(q, e), s)
  <2>1. Len(q) + 1 \in 1 .. Len(Append(q, e)) /\ Append(q, e)[Len(q) + 1] = e
    BY <1>1, FifoAppend
  <2> QED
    BY <2>1 DEF Holds
<1> QED
  BY <1>2, <1>3

(* Taking the head removes at most the head's session from a FIFO. *)
LEMMA HoldsTail ==
  ASSUME NEW q, Fifo(q), q # <<>>, NEW s, Holds(q, s)
  PROVE  Holds(Tail(q), s) \/ (Head(q).session = s /\ Sends(Head(q)) = {TRUE})
<1>1. PICK i \in 1 .. Len(q) : q[i].session = s /\ Sends(q[i]) = {TRUE}
  BY DEF Holds
<1>2. CASE i = 1
  BY <1>1, <1>2, FifoTail
<1>3. CASE i # 1
  <2>1. i - 1 \in 1 .. Len(Tail(q)) /\ Tail(q)[i - 1] = q[i]
    BY <1>3, FifoTail
  <2> QED
    BY <1>1, <2>1 DEF Holds
<1> QED
  BY <1>2, <1>3

(* Every step keeps the acknowledgement of a quiet session. *)
LEMMA KeptStep ==
  ASSUME TypeOK, KnownInv, NEW s \in Quiet, Kept(s), [Next]_vars
  PROVE  Kept(s)'
<1>0. s \in Sessions
  BY DEF Quiet
<1>1. ASSUME NEW e \in RxEvents, RaiseRx(e) PROVE Kept(s)'
  <2>1. e \in Event /\ (Acks(e) => Sends(e) = {TRUE})
    BY <1>1, ConstAssumption DEF Acks, Sends
  <2>2. (e.session = s /\ Acks(e)) \/ (s \in owed' => s \in owed)
    BY <1>1 DEF RaiseRx
  <2> QED
    BY <1>1, <2>1, <2>2, HoldsAppend DEF RaiseRx, delayer, Kept, TypeOK
<1>2. ASSUME NEW e \in TimerEvents, RaiseTimer(e) PROVE Kept(s)'
  BY <1>2 DEF RaiseTimer, delayer, Kept
<1>3. ASSUME NEW e \in AppEvents, RaiseApp(e) PROVE Kept(s)'
  BY <1>3 DEF RaiseApp, delayer, Kept
<1>4. CASE TakeRx
  <2>1. Head(rxQ) \in Event /\ Room(adQ) /\ adQ' = Append(adQ, Head(rxQ))
    BY <1>4, FifoTail DEF TakeRx, RxTurn, Pass, TypeOK
  <2>2. Holds(adQ, s) => Holds(adQ', s)
    BY <2>1, HoldsAppend DEF TypeOK
  <2>3. Holds(rxQ, s) => Holds(rxQ', s) \/ Holds(adQ', s)
    BY <1>4, <2>1, HoldsAppend, HoldsTail DEF TakeRx, RxTurn, TypeOK
  <2> QED
    BY <1>4, <2>2, <2>3 DEF TakeRx, delayer, Kept
<1>5. CASE TakeTimer
  BY <1>5, HoldsAppend, FifoTail DEF TakeTimer, Pass, delayer, Kept, TypeOK
<1>6. CASE TakeApp
  BY <1>6, HoldsAppend, FifoTail DEF TakeApp, Pass, delayer, Kept, TypeOK
<1>7. CASE TakeNothing
  BY <1>7 DEF TakeNothing, sources, delayer, Kept
<1>8. CASE DelayAck
  <2>1. CASE Head(adQ).session = s
    <3>1. ackTable'[s] > 0
      BY <1>0, <1>8, <2>1, ConstAssumption DEF DelayAck, TypeOK
    <3> QED
      BY <3>1 DEF Kept
  <2>2. CASE Head(adQ).session # s
    <3>1. ackTable'[s] = ackTable[s]
      BY <1>0, <1>8, <2>2 DEF DelayAck, TypeOK
    <3>2. Holds(adQ, s) => Holds(adQ', s)
      BY <1>8, <2>2, HoldsTail DEF DelayAck, TypeOK
    <3> QED
      BY <1>8, <3>1, <3>2 DEF DelayAck, sources, Kept
  <2> QED
    BY <2>1, <2>2
<1>9. CASE Forward
  <2>1. CASE Head(adQ).session = s
    <3>1. Head(adQ) \in Known /\ Head(adQ) \in Event
      BY <1>9, KnownTail, FifoTail DEF Forward, KnownInv, TypeOK
    <3>2. Sends(Head(adQ)) = {TRUE}
      BY <2>1, <3>1 DEF Known
    <3> QED
      BY <1>9, <2>1, <3>1, <3>2, HoldsAppend DEF Forward, Kept, TypeOK
  <2>2. CASE Head(adQ).session # s
    <3>1. ackTable'[s] = ackTable[s]
      BY <1>0, <1>9, <2>2 DEF Forward, TypeOK
    <3>2. Holds(adQ, s) => Holds(adQ', s)
      BY <1>9, <2>2, HoldsTail DEF Forward, TypeOK
    <3>3. Holds(txQ, s) => Holds(txQ', s)
      BY <1>9, HoldsAppend, FifoTail DEF Forward, TypeOK
    <3> QED
      BY <1>9, <3>1, <3>2, <3>3 DEF Forward, sources, Kept
  <2> QED
    BY <2>1, <2>2
<1>10. CASE Scan
  <2> DEFINE ack == [type |-> "ACK", session |-> adPointer]
  <2>1. ack \in Event /\ ack.session = adPointer /\ Sends(ack) = {TRUE}
    BY DEF Event, Types, TypeOK, Sends
  <2>2. /\ UNCHANGED <<rxQ, adQ, owed>>
        /\ txQ' = txQ \/ (Room(txQ) /\ txQ' = Append(txQ, ack))
    BY <1>10 DEF Scan, sources
  <2>3. Holds(txQ, s) => Holds(txQ', s)
    BY <2>1, <2>2, HoldsAppend DEF TypeOK
  <2>4. ackTable[s] > 0 => ackTable'[s] > 0 \/ Holds(txQ', s)
    <3>1. CASE adPointer = s /\ Expired(s) /\ Room(txQ)
      <4>1. Room(txQ) /\ txQ' = Append(txQ, ack)
        BY <1>10, <3>1 DEF Scan, Expired
      <4> QED
        BY <2>1, <3>1, <4>1, HoldsAppend DEF TypeOK
    <3>2. CASE adPointer = s /\ ~Expired(s)
      BY <1>0, <1>10, <3>2 DEF Scan, Expired, TypeOK
    <3>3. CASE adPointer # s \/ ~Room(txQ)
      BY <1>0, <1>10, <3>3 DEF Scan, TypeOK
    <3> QED
      BY <3>1, <3>2, <3>3
  <2> QED
    BY <2>2, <2>3, <2>4 DEF Kept
<1>11. CASE TakeEvent
  <2>1. CASE Head(txQ).session = s
    <3>1. Sends(Head(txQ)) = {TRUE}
      BY <1>11, <2>1, KnownTail DEF TakeEvent, KnownInv, TypeOK, Known
    <3>2. s \notin owed'
      BY <1>11, <2>1, <3>1 DEF TakeEvent
    <3> QED
      BY <3>2 DEF Kept
  <2>2. CASE Head(txQ).session # s
    <3>1. Holds(txQ, s) => Holds(txQ', s)
      BY <1>11, <2>2, HoldsTail DEF TakeEvent, TypeOK
    <3>2. s \in owed' => s \in owed
      BY <1>11 DEF TakeEvent
    <3> QED
      BY <1>11, <3>1, <3>2 DEF TakeEvent, sources, delayer, Kept
  <2> QED
    BY <2>1, <2>2
<1>12. CASE UNCHANGED vars
  BY <1>12 DEF vars, sources, delayer, Kept
<1> QED
  BY <1>1, <1>2, <1>3, <1>4, <1>5, <1>6, <1>7, <1>8, <1>9, <1>10, <1>11, <1>12
  DEF Next, EventEngine

(* ack_delay never loses an acknowledgement of a quiet session: it is held *)
(* back in ack_table or under way in an event that sends a segment.        *)
THEOREM AckNeverLost == Spec => []AckKept
<1>1. Init => KnownInv /\ AckKept
  BY DEF Init, KnownInv, AllKnown, AckKept, Kept
<1>2. TypeOK /\ KnownInv /\ AckKept /\ [Next]_vars => AckKept'
  <2>1. SUFFICES ASSUME TypeOK, KnownInv, AckKept, [Next]_vars, NEW s \in Quiet
                 PROVE  Kept(s)'
    BY DEF AckKept, Quiet
  <2> QED
    BY <2>1, KeptStep DEF AckKept
<1> QED
  BY <1>1, <1>2, TypeInit, TypeStep, KnownStep, PTL DEF Spec
=============================================================================
