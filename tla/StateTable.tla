----------------------------- MODULE StateTable -----------------------------
(***************************************************************************)
(* The state table of the TCP offload engine (toe/state_table) together    *)
(* with the three processes that change it:                                *)
(*   - rxTcpFSM (toe/rx_engine) reads a session's state, decides, writes,  *)
(*   - tx_app_if does the same for a close, and writes SYN_SENT for an     *)
(*     open without reading first,                                         *)
(*   - the retransmit and close timers release sessions;                   *)
(* and tx_app_stream_if, which only reads.  All are concurrent HLS         *)
(* processes joined by FIFOs.  A read by rxTcpFSM or tx_app_if locks the   *)
(* session until the same process writes; a request that meets the other's *)
(* lock is parked in a one-entry wait register.  One action per branch of  *)
(* the table's if-else chain; a branch's guard carries the priority of the *)
(* branches above it.  A write to a full FIFO stalls the process.          *)
(***************************************************************************)
EXTENDS SessionStates

CONSTANTS None,         \* "no session", "no request"
          Depth         \* depth of the FIFOs around the table

ASSUME DepthAssumption == Depth \in Nat \ {0}

VARIABLES rxLocked,     \* session locked for rxTcpFSM, or None
          txLocked,     \* session locked for tx_app_if, or None
          rxAccess,     \* parked request of rxTcpFSM (stt_rxWait), or None
          txAccess,     \* parked request of tx_app_if (stt_txWait), or None
          closeWait,    \* parked release of a timer (stt_closeWait), or None
          rxReq, txReq, readReq, timerReq,   \* FIFOs into the table
          rxRsp, txRsp, readRsp,             \* FIFOs out of the table
          rxId,         \* session rxTcpFSM is in state TRANSITION for, or None
          txId,         \* session tx_app_if is in state CLOSE_CONN for, or None
          reading       \* tx_app_stream_if waits for an answer

table   == <<rxLocked, txLocked, rxAccess, txAccess, closeWait>>
clients == <<rxId, txId, reading>>
vars == <<state, release, table, rxReq, txReq, readReq, timerReq,
          rxRsp, txRsp, readRsp, clients>>

(* struct stateQuery: a read, or a write of st *)
Query == [id : Sessions, st : States, write : BOOLEAN]
ASSUME NoneAssumption == None \notin Sessions \cup Query

Read(s) == [id |-> s, st |-> "CLOSED", write |-> FALSE]
Write(s, st) == [id |-> s, st |-> st, write |-> TRUE]

(* mutant: off by one *)
RoomOffByOne(fifo) == Len(fifo) <= Depth

Room(fifo) == Len(fifo) < Depth

Init == /\ absInit
        /\ rxLocked = None /\ txLocked = None
        /\ rxAccess = None /\ txAccess = None /\ closeWait = None
        /\ rxReq = <<>> /\ txReq = <<>> /\ readReq = <<>> /\ timerReq = <<>>
        /\ rxRsp = <<>> /\ txRsp = <<>> /\ readRsp = <<>>
        /\ rxId = None /\ txId = None /\ reading = FALSE

-----------------------------------------------------------------------------
(* The processes around the table *)

(* rxTcpFSM, state LOAD: a segment of session s asks for the state of s. *)
RxLoad(s) ==
  /\ rxId = None /\ Room(rxReq)
  /\ rxId' = s
  /\ rxReq' = Append(rxReq, Read(s))
  /\ UNCHANGED <<state, release, table, txReq, readReq, timerReq, rxRsp, txRsp,
                 readRsp, txId, reading>>

(* mutant: an unchanged state is not written back, so the lock stays *)
RxTransitionKeepsLock ==
  /\ rxId # None /\ rxRsp # <<>> /\ Room(rxReq)
  /\ \E st \in RxNext(Head(rxRsp)) :
       rxReq' = IF st = Head(rxRsp) THEN rxReq ELSE Append(rxReq, Write(rxId, st))
  /\ rxRsp' = Tail(rxRsp)
  /\ rxId' = None
  /\ UNCHANGED <<state, release, table, txReq, readReq, timerReq, txRsp, readRsp,
                 txId, reading>>

(* rxTcpFSM, state TRANSITION: the state has arrived, the new one is written. *)
RxTransition ==
  /\ rxId # None /\ rxRsp # <<>> /\ Room(rxReq)
  /\ \E st \in RxNext(Head(rxRsp)) : rxReq' = Append(rxReq, Write(rxId, st))
  /\ rxRsp' = Tail(rxRsp)
  /\ rxId' = None
  /\ UNCHANGED <<state, release, table, txReq, readReq, timerReq, txRsp, readRsp,
                 txId, reading>>

(* tx_app_if, state IDLE, the session lookup has found session s for an    *)
(* active open: SYN_SENT is written without a read.                        *)
TxOpen(s) ==
  /\ txId = None /\ Room(txReq)
  /\ txReq' = Append(txReq, Write(s, "SYN_SENT"))
  /\ UNCHANGED <<state, release, table, rxReq, readReq, timerReq, rxRsp, txRsp,
                 readRsp, clients>>

(* tx_app_if, state IDLE: the application asks to close session s. *)
TxCloseRequest(s) ==
  /\ txId = None /\ Room(txReq)
  /\ txId' = s
  /\ txReq' = Append(txReq, Read(s))
  /\ UNCHANGED <<state, release, table, rxReq, readReq, timerReq, rxRsp, txRsp,
                 readRsp, rxId, reading>>

(* mutant: the lock is not released when there is nothing to close *)
TxCloseConnKeepsLock ==
  /\ txId # None /\ txRsp # <<>> /\ Room(txReq)
  /\ txReq' = IF Head(txRsp) = CloseNext(Head(txRsp)) THEN txReq
              ELSE Append(txReq, Write(txId, CloseNext(Head(txRsp))))
  /\ txRsp' = Tail(txRsp)
  /\ txId' = None
  /\ UNCHANGED <<state, release, table, rxReq, readReq, timerReq, rxRsp, readRsp,
                 rxId, reading>>

(* tx_app_if, state CLOSE_CONN: the state has arrived. *)
TxCloseConn ==
  /\ txId # None /\ txRsp # <<>> /\ Room(txReq)
  /\ txReq' = Append(txReq, Write(txId, CloseNext(Head(txRsp))))
  /\ txRsp' = Tail(txRsp)
  /\ txId' = None
  /\ UNCHANGED <<state, release, table, rxReq, readReq, timerReq, rxRsp, readRsp,
                 rxId, reading>>

(* tasi_metaLoader asks for the state of the session the application wants *)
(* to write to, and takes the answer.                                      *)
StreamRequest(s) ==
  /\ ~reading /\ Room(readReq)
  /\ reading' = TRUE
  /\ readReq' = Append(readReq, s)
  /\ UNCHANGED <<state, release, table, rxReq, txReq, timerReq, rxRsp, txRsp,
                 readRsp, rxId, txId>>

StreamResponse ==
  /\ reading /\ readRsp # <<>>
  /\ readRsp' = Tail(readRsp)
  /\ reading' = FALSE
  /\ UNCHANGED <<state, release, table, rxReq, txReq, readReq, timerReq, rxRsp,
                 txRsp, rxId, txId>>

(* The retransmit or the close timer gives session s up. *)
TimerRelease(s) ==
  /\ Room(timerReq)
  /\ timerReq' = Append(timerReq, s)
  /\ UNCHANGED <<state, release, table, rxReq, txReq, readReq, rxRsp, txRsp,
                 readRsp, clients>>

(* reverseLookupTableInterface takes a released session. *)
TakeRelease ==
  /\ absTake
  /\ UNCHANGED <<table, rxReq, txReq, readReq, timerReq, rxRsp, txRsp, readRsp,
                 clients>>

-----------------------------------------------------------------------------
(* The table *)

(* A request of tx_app_if is carried out: a write unlocks, a read locks. *)
ServeTx(q) ==
  IF q.write
  THEN /\ state' = [state EXCEPT ![q.id] = q.st]
       /\ txLocked' = None
       /\ UNCHANGED txRsp
  ELSE /\ Room(txRsp)
       /\ txRsp' = Append(txRsp, state[q.id])
       /\ txLocked' = q.id
       /\ UNCHANGED state

(* A request of rxTcpFSM is carried out.  Writing CLOSED also releases the *)
(* session.                                                                *)
ServeRx(q) ==
  IF q.write
  THEN /\ q.st = "CLOSED" => Room(release)
       /\ release' = IF q.st = "CLOSED" THEN Append(release, q.id) ELSE release
       /\ state' = [state EXCEPT ![q.id] = q.st]
       /\ rxLocked' = None
       /\ UNCHANGED rxRsp
  ELSE /\ Room(rxRsp)
       /\ rxRsp' = Append(rxRsp, state[q.id])
       /\ rxLocked' = q.id
       /\ UNCHANGED <<state, release>>

(* mutant: the session is released but not closed *)
ServeReleaseKeepsState(s) ==
  /\ Room(release)
  /\ release' = Append(release, s)
  /\ UNCHANGED state

(* A timer's release is carried out. *)
ServeRelease(s) ==
  /\ Room(release)
  /\ state' = [state EXCEPT ![s] = "CLOSED"]
  /\ release' = Append(release, s)

(* Which inputs a step of the table serves; a branch is reached only when  *)
(* the ones above it are not.                                              *)
TxWaiting    == txReq # <<>> /\ txAccess = None
ReadWaiting  == readReq # <<>>
RxWaiting    == rxReq # <<>> /\ rxAccess = None
TimerWaiting == timerReq # <<>> /\ closeWait = None

(* mutant: the lock test is missing *)
NeverBlocked(s) == FALSE

(* The tests against the locks: a request of tx_app_if waits for a lock of *)
(* rxTcpFSM, and the other way round; a timer waits for both.              *)
TxBlocked(s) == rxLocked = s
RxBlocked(s) == txLocked = s
TimerBlocked(s) == rxLocked = s \/ txLocked = s

TableTx ==
  /\ TxWaiting
  /\ LET q == Head(txReq)
     IN  IF TxBlocked(q.id)
         THEN txAccess' = q /\ UNCHANGED <<state, txLocked, txRsp>>
         ELSE ServeTx(q) /\ UNCHANGED txAccess
  /\ txReq' = Tail(txReq)
  /\ UNCHANGED <<release, rxLocked, rxAccess, closeWait, rxReq, readReq, timerReq,
                 rxRsp, readRsp, clients>>

TableRead ==
  /\ ~TxWaiting /\ ReadWaiting
  /\ Room(readRsp)
  /\ readRsp' = Append(readRsp, state[Head(readReq)])
  /\ readReq' = Tail(readReq)
  /\ UNCHANGED <<state, release, table, rxReq, txReq, timerReq, rxRsp, txRsp,
                 clients>>

TableRx ==
  /\ ~TxWaiting /\ ~ReadWaiting /\ RxWaiting
  /\ LET q == Head(rxReq)
     IN  IF RxBlocked(q.id)
         THEN rxAccess' = q /\ UNCHANGED <<state, release, rxLocked, rxRsp>>
         ELSE ServeRx(q) /\ UNCHANGED rxAccess
  /\ rxReq' = Tail(rxReq)
  /\ UNCHANGED <<txLocked, txAccess, closeWait, txReq, readReq, timerReq, txRsp,
                 readRsp, clients>>

TableTimer ==
  /\ ~TxWaiting /\ ~ReadWaiting /\ ~RxWaiting /\ TimerWaiting
  /\ LET s == Head(timerReq)
     IN  IF TimerBlocked(s)
         THEN closeWait' = s /\ UNCHANGED <<state, release>>
         ELSE ServeRelease(s) /\ UNCHANGED closeWait
  /\ timerReq' = Tail(timerReq)
  /\ UNCHANGED <<rxLocked, txLocked, rxAccess, txAccess, rxReq, txReq, readReq,
                 rxRsp, txRsp, readRsp, clients>>

(* No input is served, so the table looks at its wait registers. *)
InputsIdle == ~TxWaiting /\ ~ReadWaiting /\ ~RxWaiting /\ ~TimerWaiting

TableTxWait ==
  /\ InputsIdle
  /\ txAccess # None /\ ~TxBlocked(txAccess.id)
  /\ ServeTx(txAccess)
  /\ txAccess' = None
  /\ UNCHANGED <<release, rxLocked, rxAccess, closeWait, rxReq, txReq, readReq,
                 timerReq, rxRsp, readRsp, clients>>

TableRxWait ==
  /\ InputsIdle /\ txAccess = None
  /\ rxAccess # None /\ ~RxBlocked(rxAccess.id)
  /\ ServeRx(rxAccess)
  /\ rxAccess' = None
  /\ UNCHANGED <<txLocked, txAccess, closeWait, rxReq, txReq, readReq, timerReq,
                 txRsp, readRsp, clients>>

TableCloseWait ==
  /\ InputsIdle /\ txAccess = None /\ rxAccess = None
  /\ closeWait # None /\ ~TimerBlocked(closeWait)
  /\ ServeRelease(closeWait)
  /\ closeWait' = None
  /\ UNCHANGED <<rxLocked, txLocked, rxAccess, txAccess, rxReq, txReq, readReq,
                 timerReq, rxRsp, txRsp, readRsp, clients>>

TableStep == \/ TableTx \/ TableRead \/ TableRx \/ TableTimer
             \/ TableTxWait \/ TableRxWait \/ TableCloseWait

Next == \/ \E s \in Sessions : \/ RxLoad(s) \/ TxOpen(s) \/ TxCloseRequest(s)
                               \/ StreamRequest(s) \/ TimerRelease(s)
        \/ RxTransition \/ TxCloseConn \/ StreamResponse \/ TakeRelease
        \/ TableStep

Spec == Init /\ [][Next]_vars

(* The clients keep running, and so does the table.  Its lower branches    *)
(* are only reached in cycles without input above them, so they need       *)
(* strong fairness: a branch whose turn comes again and again is taken.    *)
Fairness == /\ WF_vars(RxTransition) /\ WF_vars(TxCloseConn)
            /\ WF_vars(StreamResponse) /\ WF_vars(TakeRelease)
            /\ WF_vars(TableStep)
            /\ SF_vars(TableRx) /\ SF_vars(TableTxWait) /\ SF_vars(TableRxWait)

LiveSpec == Spec /\ Fairness

-----------------------------------------------------------------------------
(* Type invariant: every register and FIFO of the table and its clients    *)
(* holds values of its declared HLS type, and the FIFOs that a client can   *)
(* fill ahead of the table (its requests, and the releases) keep within    *)
(* their depth.                                                            *)
TypeOK ==
  /\ state \in [Sessions -> States]
  /\ release \in Seq(Sessions) /\ Len(release) <= Depth
  /\ rxLocked \in Sessions \cup {None} /\ txLocked \in Sessions \cup {None}
  /\ rxAccess \in Query \cup {None} /\ txAccess \in Query \cup {None}
  /\ closeWait \in Sessions \cup {None}
  /\ rxReq \in Seq(Query) /\ Len(rxReq) <= Depth
  /\ txReq \in Seq(Query) /\ Len(txReq) <= Depth
  /\ readReq \in Seq(Sessions) /\ timerReq \in Seq(Sessions)
  /\ rxRsp \in Seq(States) /\ txRsp \in Seq(States) /\ readRsp \in Seq(States)
  /\ rxId \in Sessions \cup {None} /\ txId \in Sessions \cup {None}
  /\ reading \in BOOLEAN

(* The lock works: no session is ever locked for rxTcpFSM and tx_app_if at *)
(* once, and the state either of them is about to decide on is still the   *)
(* state of its session, however the other clients and the timers          *)
(* interleave between the read and the write.                              *)
LockSafe ==
  /\ rxLocked # None => rxLocked # txLocked
  /\ rxRsp # <<>> => rxId # None /\ Head(rxRsp) = state[rxId]
  /\ txRsp # <<>> => txId # None /\ Head(txRsp) = state[txId]

(* The table with its locks, wait registers and FIFOs implements the       *)
(* atomic session states: no read-modify-write of rxTcpFSM or tx_app_if is *)
(* ever based on a stale state, no update is lost, and a session is        *)
(* released exactly when rxTcpFSM or a timer leaves it CLOSED.             *)
Atomic == absSpec

(* rxTcpFSM is not left waiting in TRANSITION (its parked request and the  *)
(* lock it may wait for included), provided the application and the timers *)
(* leave the table's other inputs idle now and then.                       *)
RxServed ==
  []<>(txId = None /\ txReq = <<>> /\ readReq = <<>> /\ timerReq = <<>>)
     => (rxId # None ~> rxId = None)

(* A close of the application is not left waiting in CLOSE_CONN, provided  *)
(* segments leave the receive engine idle now and then (each one first     *)
(* waits for the session lookup) and the other inputs do, too.             *)
TxServed ==
  []<>(rxId = None /\ rxReq = <<>> /\ readReq = <<>> /\ timerReq = <<>>)
     => (txId # None ~> txId = None)
=============================================================================
