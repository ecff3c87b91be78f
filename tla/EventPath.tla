----------------------------- MODULE EventPath ------------------------------
(***************************************************************************)
(* The way of an event to the transmit engine: event_engine takes the      *)
(* events of rxTcpFSM, of the timers and of the application and hands them *)
(* to ack_delay, which holds back one ACK per session and passes the rest  *)
(* to metaLoader (tx_engine).  event_engine lets a timer or application    *)
(* event in only when nothing is under way; it learns that from three      *)
(* FIFOs of tokens that ack_delay and metaLoader write when they read or   *)
(* write an event.  The processes run concurrently.                        *)
(***************************************************************************)
EXTENDS Integers, Sequences

CONSTANTS MaxSessions,   \* MAX_SESSIONS; session IDs are 0 .. MaxSessions - 1
          RxEvents,      \* events rx_engine may raise
          TimerEvents,   \* events the timers may raise
          AppEvents,     \* events the application's interface may raise
          Delay,         \* TIME_64us, in passes of the scan over the sessions
          Depth,         \* depth of the event FIFOs and of the token FIFOs
          Wrap           \* 2^8, the range of event_engine's counters

Sessions == 0 .. MaxSessions - 1
Types == {"ACK", "ACK_NODELAY", "TX", "RT", "RST"}
Event == [type : Types, session : Sessions]

ASSUME ConstAssumption ==
  /\ MaxSessions \in Nat \ {0} /\ Delay \in Nat \ {0} /\ Depth \in Nat \ {0}
  /\ Wrap \in Nat /\ 2 * Depth < Wrap
  /\ RxEvents \subseteq Event /\ TimerEvents \subseteq Event /\ AppEvents \subseteq Event

VARIABLES
  rxQ, timerQ, appQ,   \* events waiting for event_engine
  adQ,                 \* eventEng2ackDelay_event
  txQ,                 \* eventEng2txEng_event
  readTok, writeTok,   \* tokens in ackDelayFifoReadCount, ackDelayFifoWriteCount
  txTok,               \* tokens in txEngFifoReadCount
  writeCounter, adReadCounter, adWriteCounter, txEngReadCounter,
  ackTable,            \* ack_table: passes until the delayed ACK is sent, 0 if none
  adPointer,           \* ad_pointer
  owed                 \* sessions whose peer waits for an acknowledgement

sources  == <<rxQ, timerQ, appQ>>
tokens   == <<readTok, writeTok, txTok>>
counters == <<writeCounter, adReadCounter, adWriteCounter, txEngReadCounter>>
delayer  == <<ackTable, adPointer>>
vars     == <<sources, adQ, txQ, tokens, counters, delayer, owed>>

RoomOffByOne(q) == Len(q) <= Depth   (* mutant: a FIFO takes one entry too many *)
Room(q) == Len(q) < Depth
Plus1(c) == IF c = Wrap - 1 THEN 0 ELSE c + 1

Init ==
  /\ rxQ = <<>> /\ timerQ = <<>> /\ appQ = <<>> /\ adQ = <<>> /\ txQ = <<>>
  /\ readTok = 0 /\ writeTok = 0 /\ txTok = 0
  /\ writeCounter = 0 /\ adReadCounter = 0 /\ adWriteCounter = 0 /\ txEngReadCounter = 0
  /\ ackTable = [s \in Sessions |-> 0] /\ adPointer = 0
  /\ owed = {}

-----------------------------------------------------------------------------
(* The sources.  An ACK or ACK_NODELAY of rx_engine makes an acknowledgement due. *)
Acks(e) == e.type \in {"ACK", "ACK_NODELAY"}

RaiseRx(e) ==
  /\ Room(rxQ)
  /\ rxQ' = Append(rxQ, e)
  /\ owed' = IF Acks(e) THEN owed \cup {e.session} ELSE owed
  /\ UNCHANGED <<timerQ, appQ, adQ, txQ, tokens, counters, delayer>>

RaiseTimer(e) ==
  /\ Room(timerQ)
  /\ timerQ' = Append(timerQ, e)
  /\ UNCHANGED <<rxQ, appQ, adQ, txQ, tokens, counters, delayer, owed>>

RaiseApp(e) ==
  /\ Room(appQ)
  /\ appQ' = Append(appQ, e)
  /\ UNCHANGED <<rxQ, timerQ, adQ, txQ, tokens, counters, delayer, owed>>

-----------------------------------------------------------------------------
(* event_engine: every call takes at most one event and one token of each kind. *)

TakeTokens ==
  /\ readTok' = IF readTok > 0 THEN readTok - 1 ELSE 0
  /\ writeTok' = IF writeTok > 0 THEN writeTok - 1 ELSE 0
  /\ txTok' = IF txTok > 0 THEN txTok - 1 ELSE 0
  /\ adReadCounter' = IF readTok > 0 THEN Plus1(adReadCounter) ELSE adReadCounter
  /\ adWriteCounter' = IF writeTok > 0 THEN Plus1(adWriteCounter) ELSE adWriteCounter
  /\ txEngReadCounter' = IF txTok > 0 THEN Plus1(txEngReadCounter) ELSE txEngReadCounter

Pass(e) == adQ' = Append(adQ, e) /\ writeCounter' = Plus1(writeCounter)

(* mutant: only the second half of the way is looked at *)
GateHalf == adWriteCounter = txEngReadCounter
(* Nothing is under way, as far as the tokens tell. *)
Gate == writeCounter = adReadCounter /\ adWriteCounter = txEngReadCounter

RxTurn == rxQ # <<>> /\ Room(adQ)

TakeRx ==
  /\ RxTurn
  /\ Pass(Head(rxQ)) /\ rxQ' = Tail(rxQ)
  /\ TakeTokens
  /\ UNCHANGED <<timerQ, appQ, txQ, delayer, owed>>

(* No test for room in adQ here: the write would block event_engine. *)
TakeTimer ==
  /\ ~RxTurn /\ Gate /\ timerQ # <<>>
  /\ Room(adQ)
  /\ Pass(Head(timerQ)) /\ timerQ' = Tail(timerQ)
  /\ TakeTokens
  /\ UNCHANGED <<rxQ, appQ, txQ, delayer, owed>>

TakeApp ==
  /\ ~RxTurn /\ Gate /\ timerQ = <<>> /\ appQ # <<>>
  /\ Room(adQ)
  /\ Pass(Head(appQ)) /\ appQ' = Tail(appQ)
  /\ TakeTokens
  /\ UNCHANGED <<rxQ, timerQ, txQ, delayer, owed>>

TakeNothing ==
  /\ ~RxTurn /\ (Gate => timerQ = <<>> /\ appQ = <<>>)
  /\ TakeTokens
  /\ UNCHANGED <<sources, adQ, txQ, writeCounter, delayer, owed>>

EventEngine == TakeRx \/ TakeTimer \/ TakeApp \/ TakeNothing

-----------------------------------------------------------------------------
(* ack_delay: the input first, then one step of the scan *)

(* The first ACK of a session is held back. *)
HoldBack(e) == e.type = "ACK" /\ ackTable[e.session] = 0

DelayAck ==
  /\ adQ # <<>> /\ HoldBack(Head(adQ)) /\ readTok < Depth
  /\ ackTable' = [ackTable EXCEPT ![Head(adQ).session] = Delay]
  /\ adQ' = Tail(adQ) /\ readTok' = readTok + 1
  /\ UNCHANGED <<sources, txQ, writeTok, txTok, counters, adPointer, owed>>

(* Any other event takes the delayed ACK of its session along. *)
Forward ==
  /\ adQ # <<>> /\ ~HoldBack(Head(adQ)) /\ readTok < Depth
  /\ Room(txQ) /\ writeTok < Depth
  /\ ackTable' = [ackTable EXCEPT ![Head(adQ).session] = 0]
  /\ txQ' = Append(txQ, Head(adQ)) /\ writeTok' = writeTok + 1
  /\ adQ' = Tail(adQ) /\ readTok' = readTok + 1
  /\ UNCHANGED <<sources, txTok, counters, adPointer, owed>>

Expired(s) == ackTable[s] = 1

(* mutant: the ACK whose time is up is not written *)
ScanSilent ==
  /\ adQ = <<>>
  /\ ackTable' = [ackTable EXCEPT ![adPointer] = IF @ > 0 THEN @ - 1 ELSE 0]
  /\ adPointer' = IF adPointer = MaxSessions - 1 THEN 0 ELSE adPointer + 1
  /\ UNCHANGED <<sources, adQ, txQ, tokens, counters, owed>>

Scan ==
  /\ adQ = <<>>
  /\ IF ackTable[adPointer] > 0 /\ Room(txQ)
     THEN /\ ackTable' = [ackTable EXCEPT ![adPointer] = @ - 1]
          /\ IF Expired(adPointer)
             THEN /\ writeTok < Depth
                  /\ txQ' = Append(txQ, [type |-> "ACK", session |-> adPointer])
                  /\ writeTok' = writeTok + 1
             ELSE UNCHANGED <<txQ, writeTok>>
     ELSE UNCHANGED <<ackTable, txQ, writeTok>>
  /\ adPointer' = IF adPointer = MaxSessions - 1 THEN 0 ELSE adPointer + 1
  /\ UNCHANGED <<sources, adQ, readTok, txTok, counters, owed>>

-----------------------------------------------------------------------------
(* metaLoader: a segment of the session carries its acknowledgement.  A    *)
(* retransmission that finds nothing unacknowledged sends no segment, and  *)
(* a reset for a tuple without session (its ID is 0) is not the session's. *)

Sends(e) == CASE e.type = "RT" -> BOOLEAN
              [] e.type = "RST" -> {FALSE}
              [] OTHER -> {TRUE}

TakeEvent ==
  /\ txQ # <<>> /\ txTok < Depth
  /\ \E sent \in Sends(Head(txQ)) :
       owed' = IF sent THEN owed \ {Head(txQ).session} ELSE owed
  /\ txQ' = Tail(txQ) /\ txTok' = txTok + 1
  /\ UNCHANGED <<sources, adQ, readTok, writeTok, counters, delayer>>

Next == \/ \E e \in RxEvents : RaiseRx(e)
        \/ \E e \in TimerEvents : RaiseTimer(e)
        \/ \E e \in AppEvents : RaiseApp(e)
        \/ EventEngine
        \/ DelayAck \/ Forward \/ Scan
        \/ TakeEvent

Spec == Init /\ [][Next]_vars

(* The scan is at session s, has its turn and finds room for an ACK. *)
ScanTurn(s) == adQ = <<>> /\ adPointer = s /\ Room(txQ) /\ writeTok < Depth

(* The processes run in every cycle. *)
Fairness == /\ WF_vars(EventEngine) /\ WF_vars(DelayAck \/ Forward) /\ WF_vars(TakeEvent)
            /\ \A s \in Sessions : SF_vars(ScanTurn(s) /\ Scan)
LiveSpec == Spec /\ Fairness

-----------------------------------------------------------------------------
(* Every FIFO keeps its depth and the values are of their types. *)
Fifo(q) == q \in Seq(Event) /\ Len(q) <= Depth
TypeOK ==
  /\ Fifo(rxQ) /\ Fifo(timerQ) /\ Fifo(appQ) /\ Fifo(adQ) /\ Fifo(txQ)
  /\ readTok \in 0 .. Depth /\ writeTok \in 0 .. Depth /\ txTok \in 0 .. Depth
  /\ writeCounter \in 0 .. Wrap - 1 /\ adReadCounter \in 0 .. Wrap - 1
  /\ adWriteCounter \in 0 .. Wrap - 1 /\ txEngReadCounter \in 0 .. Wrap - 1
  /\ ackTable \in [Sessions -> 0 .. Delay] /\ adPointer \in Sessions
  /\ owed \subseteq Sessions

(* When the counters agree, the FIFO to ack_delay is empty, so that the    *)
(* write for a timer's or the application's event never blocks             *)
(* event_engine; and at most the events whose tokens event_engine has yet  *)
(* to read are between ack_delay and metaLoader, although the counters     *)
(* wrap and the tokens are late.                                           *)
GateMeansIdle == Gate => adQ = <<>> /\ Len(txQ) + txTok = writeTok

(* An acknowledgement that is due is held back by ack_delay or is on its   *)
(* way in an event that sends a segment.                                   *)
Holds(q, s) == \E i \in 1 .. Len(q) : q[i].session = s /\ Sends(q[i]) = {TRUE}
Kept(s) == s \in owed => ackTable[s] > 0 \/ Holds(rxQ, s) \/ Holds(adQ, s) \/ Holds(txQ, s)

(* Sessions no event of which may pass without sending a segment *)
Quiet == {s \in Sessions : \A e \in RxEvents \cup TimerEvents \cup AppEvents :
                             e.session = s => Sends(e) = {TRUE}}

(* ack_delay loses no acknowledgement of a session that has nothing to     *)
(* retransmit and that resets without session do not share its ID.         *)
AckKept == \A s \in Quiet : Kept(s)

(* The same for every session: "Assumption no SYN/RST" (ack_delay.cpp:59). *)
AckKeptAll == \A s \in Sessions : Kept(s)

(* An acknowledgement that is due is sent in the end, if the scan comes to *)
(* its session with an empty input and a free output again and again:      *)
(* ack_delay serves its input first and passes over a session while the    *)
(* output is full.                                                         *)
AckSent == \A s \in Quiet : []<>ScanTurn(s) => ((s \in owed) ~> (s \notin owed))
=============================================================================
