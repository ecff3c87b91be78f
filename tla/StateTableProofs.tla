-------------------------- MODULE StateTableProofs --------------------------
(***************************************************************************)
(* The lock of the state table works for every number of sessions and      *)
(* every FIFO depth: the table implements the atomic session states.       *)
(***************************************************************************)
EXTENDS StateTable, SequenceTheorems, TLAPS

(* Where the one request or answer that rxTcpFSM has under way may be: a   *)
(* read that is queued or parked, an answer that shows the current state,  *)
(* or a queued write that is a legal successor of the current state and    *)
(* may already be followed by the next read.                               *)
RxIdle    == /\ rxLocked = None /\ rxId = None /\ rxRsp = <<>>
             /\ rxReq = <<>> /\ rxAccess = None
RxAsking  == /\ rxLocked = None /\ rxId # None /\ rxRsp = <<>>
             /\ \/ rxReq = <<Read(rxId)>> /\ rxAccess = None
                \/ rxReq = <<>> /\ rxAccess = Read(rxId)
RxDecides == /\ rxLocked # None /\ rxId = rxLocked /\ rxRsp = <<state[rxId]>>
             /\ rxReq = <<>> /\ rxAccess = None
RxWrites  == /\ rxLocked # None /\ rxRsp = <<>> /\ rxAccess = None
             /\ \E st \in RxNext(state[rxLocked]) :
                  \/ rxId = None /\ rxReq = <<Write(rxLocked, st)>>
                  \/ rxId # None /\ rxReq = <<Write(rxLocked, st), Read(rxId)>>
RxInv == RxIdle \/ RxAsking \/ RxDecides \/ RxWrites

(* The same for tx_app_if, whose queue may also hold the writes of active  *)
(* opens: a read can only be its last entry.                               *)
OpenOrLastRead(q) ==
  \A i \in 1 .. Len(q) :
     \/ q[i] = Write(q[i].id, "SYN_SENT")
     \/ i = Len(q) /\ txId # None /\ q[i] = Read(txId)
TxFree    == /\ txLocked = None /\ txRsp = <<>>
             /\ OpenOrLastRead(txReq)
             /\ txAccess # None =>
                  \/ txAccess = Write(txAccess.id, "SYN_SENT")
                  \/ txId # None /\ txAccess = Read(txId) /\ txReq = <<>>
TxDecides == /\ txLocked # None /\ txId = txLocked /\ txRsp = <<state[txId]>>
             /\ txReq = <<>> /\ txAccess = None
TxWrites  == /\ txLocked # None /\ txRsp = <<>> /\ txAccess = None
             /\ txReq # <<>>
             /\ Head(txReq) = Write(txLocked, CloseNext(state[txLocked]))
             /\ OpenOrLastRead(Tail(txReq))
TxInv == TxFree \/ TxDecides \/ TxWrites

(* The inductive invariant. *)
IInv == /\ TypeOK
        /\ rxLocked # None => rxLocked # txLocked
        /\ RxInv
        /\ TxInv

-----------------------------------------------------------------------------
(* One- and two-element FIFOs. *)
LEMMA ShortFifo ==
  ASSUME NEW S, NEW x \in S, NEW y \in S
  PROVE  /\ Append(<<>>, x) = <<x>> /\ Append(<<x>>, y) = <<x, y>>
         /\ Head(<<x>>) = x /\ Tail(<<x>>) = <<>>
         /\ Head(<<x, y>>) = x /\ Tail(<<x, y>>) = <<y>>
         /\ <<x>> # <<>> /\ <<x, y>> # <<>>
<1>1. Append(<<x>>, y) = <<x, y>>
  <2> DEFINE a == Append(<<x>>, y)
             b == <<x, y>>
  <2>1. a \in Seq(S) /\ b \in Seq(S) /\ Len(a) = 2 /\ Len(b) = 2
    OBVIOUS
  <2>2. \A i \in 1 .. Len(a) : a[i] = b[i]
    OBVIOUS
  <2> HIDE DEF a, b
  <2>3. a = b
    BY <2>1, <2>2, SeqEqual
  <2> QED
    BY <2>3 DEF a, b
<1> QED
  BY <1>1

(* Taking from and adding to a FIFO keeps its type, and its length counts. *)
LEMMA FifoType ==
  ASSUME NEW S, NEW q \in Seq(S), NEW x \in S
  PROVE  /\ Append(q, x) \in Seq(S) /\ Len(Append(q, x)) = Len(q) + 1
         /\ Len(q) \in Nat
         /\ q # <<>> => /\ Head(q) \in S /\ Tail(q) \in Seq(S)
                        /\ Len(Tail(q)) = Len(q) - 1 /\ Len(q) > 0
OBVIOUS

(* The two kinds of stateQuery are of its type. *)
LEMMA QueryType ==
  ASSUME NEW s \in Sessions, NEW st \in States
  PROVE  /\ Read(s) \in Query /\ Write(s, st) \in Query
         /\ RxNext(st) \subseteq States /\ CloseNext(st) \in States
         /\ "SYN_SENT" \in States /\ "CLOSED" \in States
BY DEF Read, Write, Query, RxNext, CloseNext, States

-----------------------------------------------------------------------------
(* The tables and FIFOs start with values of their types. *)
LEMMA TypeInit == Init => TypeOK
<1> SUFFICES ASSUME Init PROVE TypeOK
  OBVIOUS
<1>1. state \in [Sessions -> States]
  BY DEF Init, absInit, States
<1>2. /\ \A S : <<>> \in Seq(S)
      /\ Len(<<>>) <= Depth
  BY DepthAssumption
<1> QED
  BY <1>1, <1>2 DEF Init, absInit, TypeOK

(* What a step of the table's serving operators keeps of the types. *)
LEMMA ServeTxType ==
  ASSUME TypeOK, NEW q \in Query, ServeTx(q)
  PROVE  /\ state' \in [Sessions -> States]
         /\ txRsp' \in Seq(States)
         /\ txLocked' \in Sessions \cup {None}
<1>1. q.id \in Sessions /\ q.st \in States
  BY DEF Query
<1>2. CASE q.write
  BY <1>1, <1>2 DEF TypeOK, ServeTx
<1>3. CASE ~q.write
  BY <1>1, <1>3, FifoType DEF TypeOK, ServeTx
<1> QED
  BY <1>2, <1>3

(* A served request of rxTcpFSM keeps the table's registers and FIFOs typed. *)
LEMMA ServeRxType ==
  ASSUME TypeOK, NEW q \in Query, ServeRx(q)
  PROVE  /\ state' \in [Sessions -> States]
         /\ rxRsp' \in Seq(States)
         /\ rxLocked' \in Sessions \cup {None}
         /\ release' \in Seq(Sessions) /\ Len(release') <= Depth
<1>1. q.id \in Sessions /\ q.st \in States
  BY DEF Query
<1>2. CASE q.write
  <2>1. Append(release, q.id) \in Seq(Sessions) /\ Len(Append(release, q.id)) = Len(release) + 1
    BY <1>1, FifoType DEF TypeOK
  <2>2. CASE q.st = "CLOSED"
    <3>1. release' = Append(release, q.id) /\ Room(release)
      BY <1>2, <2>2 DEF ServeRx
    <3>2. Len(release) \in Nat
      BY FifoType DEF TypeOK
    <3>3. Len(release) + 1 <= Depth
      BY <3>1, <3>2, DepthAssumption DEF Room
    <3> QED
      BY <1>1, <1>2, <2>1, <3>1, <3>3 DEF TypeOK, ServeRx
  <2>3. CASE q.st # "CLOSED"
    BY <1>1, <1>2, <2>3 DEF TypeOK, ServeRx
  <2> QED
    BY <2>2, <2>3
<1>3. CASE ~q.write
  BY <1>1, <1>3, FifoType DEF TypeOK, ServeRx
<1> QED
  BY <1>2, <1>3

(* A timer's release keeps the states and the release FIFO typed. *)
LEMMA ServeReleaseType ==
  ASSUME TypeOK, NEW s \in Sessions, ServeRelease(s)
  PROVE  /\ state' \in [Sessions -> States]
         /\ release' \in Seq(Sessions) /\ Len(release') <= Depth
<1>1. Append(release, s) \in Seq(Sessions) /\ Len(Append(release, s)) = Len(release) + 1
  BY FifoType DEF TypeOK
<1> QED
  BY <1>1, FifoType, DepthAssumption DEF TypeOK, ServeRelease, Room, States

(* Every step of the table and its clients keeps the types. *)
LEMMA TypeNext == TypeOK /\ [Next]_vars => TypeOK'
<1> SUFFICES ASSUME TypeOK, [Next]_vars PROVE TypeOK'
  OBVIOUS
<1> USE DepthAssumption
<1>1. ASSUME NEW s \in Sessions, RxLoad(s) PROVE TypeOK'
  <2>1. Read(s) \in Query
    BY DEF Read, Query, States
  <2> QED
    BY <1>1, <2>1, FifoType DEF RxLoad, TypeOK, Room, table, clients
<1>2. ASSUME NEW s \in Sessions, TxOpen(s) PROVE TypeOK'
  BY <1>2, FifoType, QueryType DEF TxOpen, TypeOK, Room, table, clients, States
<1>3. ASSUME NEW s \in Sessions, TxCloseRequest(s) PROVE TypeOK'
  <2>1. Read(s) \in Query
    BY DEF Read, Query, States
  <2> QED
    BY <1>3, <2>1, FifoType DEF TxCloseRequest, TypeOK, Room, table, clients
<1>4. ASSUME NEW s \in Sessions, StreamRequest(s) PROVE TypeOK'
  BY <1>4, FifoType DEF StreamRequest, TypeOK, table, clients
<1>5. ASSUME NEW s \in Sessions, TimerRelease(s) PROVE TypeOK'
  BY <1>5, FifoType DEF TimerRelease, TypeOK, table, clients
<1>6. CASE RxTransition
  BY <1>6, FifoType, QueryType DEF RxTransition, TypeOK, Room, table, clients
<1>7. CASE TxCloseConn
  BY <1>7, FifoType, QueryType DEF TxCloseConn, TypeOK, Room, table, clients
<1>8. CASE StreamResponse
  <2>1. readRsp' \in Seq(States)
    BY <1>8 DEF StreamResponse, TypeOK
  <2> QED
    BY <1>8, <2>1 DEF StreamResponse, TypeOK, table, clients
<1>9. CASE TakeRelease
  BY <1>9, FifoType DEF TakeRelease, absTake, TypeOK, table, clients
<1>10. CASE TableTx
  BY <1>10, FifoType, ServeTxType DEF TableTx, TxWaiting, TypeOK, table, clients
<1>11. CASE TableRead
  BY <1>11, FifoType DEF TableRead, ReadWaiting, TypeOK, table, clients
<1>12. CASE TableRx
  BY <1>12, FifoType, ServeRxType DEF TableRx, RxWaiting, TypeOK, table, clients
<1>13. CASE TableTimer
  BY <1>13, FifoType, ServeReleaseType DEF TableTimer, TimerWaiting, TypeOK, table, clients
<1>14. CASE TableTxWait
  BY <1>14, ServeTxType DEF TableTxWait, TypeOK, table, clients
<1>15. CASE TableRxWait
  BY <1>15, ServeRxType DEF TableRxWait, TypeOK, table, clients
<1>16. CASE TableCloseWait
  BY <1>16, ServeReleaseType DEF TableCloseWait, TypeOK, table, clients
<1>17. CASE UNCHANGED vars
  BY <1>17 DEF vars, TypeOK, table, clients
<1> QED
  BY <1>1, <1>2, <1>3, <1>4, <1>5, <1>6, <1>7, <1>8, <1>9, <1>10, <1>11, <1>12,
     <1>13, <1>14, <1>15, <1>16, <1>17 DEF Next, TableStep

(* Every register and FIFO of the table and its clients keeps its type and *)
(* no FIFO into or out of the table overflows.                             *)
THEOREM TypeCorrect == Spec => []TypeOK
<1>1. Init => TypeOK
  BY TypeInit
<1>2. TypeOK /\ [Next]_vars => TypeOK'
  BY TypeNext
<1> QED
  BY <1>1, <1>2, PTL DEF Spec

-----------------------------------------------------------------------------
(* A step that leaves one client's registers and FIFOs alone, and does not *)
(* change the session that client has locked, keeps that client's part of  *)
(* the invariant.                                                          *)
LEMMA RxFrame ==
  ASSUME RxInv, UNCHANGED <<rxLocked, rxAccess, rxReq, rxRsp, rxId>>,
         rxLocked # None => state'[rxLocked] = state[rxLocked]
  PROVE  RxInv'
<1>1. CASE RxIdle
  BY <1>1 DEF RxInv, RxIdle
<1>2. CASE RxAsking
  BY <1>2 DEF RxInv, RxAsking, Read
<1>3. CASE RxDecides
  BY <1>3 DEF RxInv, RxDecides
<1>4. CASE RxWrites
  <2>1. RxNext(state[rxLocked])' = RxNext(state[rxLocked])
    BY <1>4 DEF RxWrites, RxNext
  <2> QED
    BY <1>4, <2>1 DEF RxInv, RxWrites, Read, Write
<1> QED
  BY <1>1, <1>2, <1>3, <1>4 DEF RxInv

(* The same frame condition for the part of tx_app_if. *)
LEMMA TxFrame ==
  ASSUME TxInv, UNCHANGED <<txLocked, txAccess, txReq, txRsp, txId>>,
         txLocked # None => state'[txLocked] = state[txLocked]
  PROVE  TxInv'
<1>1. CASE TxFree
  BY <1>1 DEF TxInv, TxFree, OpenOrLastRead, Read, Write
<1>2. CASE TxDecides
  BY <1>2 DEF TxInv, TxDecides
<1>3. CASE TxWrites
  <2>1. CloseNext(state[txLocked])' = CloseNext(state[txLocked])
    BY <1>3 DEF TxWrites, CloseNext
  <2> QED
    BY <1>3, <2>1 DEF TxInv, TxWrites, OpenOrLastRead, Read, Write
<1> QED
  BY <1>1, <1>2, <1>3 DEF TxInv

(* A request that is served, because the other client has not locked its   *)
(* session, touches no session the other client has locked and locks none. *)
LEMMA ServeRxRespectsTx ==
  ASSUME TypeOK, NEW q \in Query, ServeRx(q), ~RxBlocked(q.id)
  PROVE  /\ txLocked # None => state'[txLocked] = state[txLocked]
         /\ rxLocked' # None => rxLocked' # txLocked
<1>1. CASE q.write
  BY <1>1, NoneAssumption DEF ServeRx, RxBlocked, TypeOK
<1>2. CASE ~q.write
  BY <1>2 DEF ServeRx, RxBlocked
<1> QED
  BY <1>1, <1>2

(* A served request of tx_app_if leaves what rxTcpFSM relies on alone. *)
LEMMA ServeTxRespectsRx ==
  ASSUME TypeOK, NEW q \in Query, ServeTx(q), ~TxBlocked(q.id)
  PROVE  /\ rxLocked # None => state'[rxLocked] = state[rxLocked]
         /\ rxLocked # None => rxLocked # txLocked'
<1>1. CASE q.write
  BY <1>1, NoneAssumption DEF ServeTx, TxBlocked, TypeOK
<1>2. CASE ~q.write
  BY <1>2 DEF ServeTx, TxBlocked
<1> QED
  BY <1>1, <1>2

(* A request for the state is answered with the state of the session the   *)
(* client is waiting for, which is then locked; ids and None differ.       *)
LEMMA QueryFields ==
  ASSUME NEW s, NEW st
  PROVE  /\ Read(s).id = s /\ ~Read(s).write
         /\ Write(s, st).id = s /\ Write(s, st).st = st /\ Write(s, st).write
BY DEF Read, Write

(* LOAD: rxTcpFSM asks for a state. *)
LEMMA RxLoadInv ==
  ASSUME IInv, NEW s \in Sessions, RxLoad(s)
  PROVE  RxInv'
<1> USE DEF RxLoad, table
<1>1. s # None /\ Read(s) \in Query /\ rxId = None
  BY NoneAssumption DEF Read, Query, States
<1>2. CASE RxIdle
  <2>1. rxReq' = <<Read(s)>>
    BY <1>1, <1>2, ShortFifo DEF RxIdle
  <2> QED
    BY <1>1, <1>2, <2>1 DEF RxIdle, RxAsking, RxInv, Read
<1>3. CASE RxWrites
  <2>1. PICK st \in RxNext(state[rxLocked]) : rxReq = <<Write(rxLocked, st)>>
    BY <1>1, <1>3 DEF RxWrites
  <2>2. Write(rxLocked, st) \in Query
    BY <1>3, <2>1, QueryType DEF RxWrites, IInv, TypeOK
  <2>3. rxReq' = <<Write(rxLocked, st), Read(s)>>
    BY <1>1, <2>1, <2>2, ShortFifo
  <2>4. rxReq' = <<Write(rxLocked, st), Read(rxId)>>' /\ st \in RxNext(state[rxLocked])'
    BY <2>1, <2>3 DEF Write, Read, RxNext
  <2> QED
    BY <1>1, <1>3, <2>4 DEF RxWrites, RxInv
<1> QED
  BY <1>1, <1>2, <1>3 DEF IInv, RxInv, RxAsking, RxDecides

(* TRANSITION: rxTcpFSM writes back and gives up its turn. *)
LEMMA RxTransitionInv ==
  ASSUME IInv, RxTransition
  PROVE  RxInv'
<1> USE DEF RxTransition, table
<1>1. RxDecides
  BY DEF IInv, RxInv, RxIdle, RxAsking, RxWrites
<1>2. rxRsp = <<state[rxLocked]>> /\ state[rxLocked] \in States /\ rxLocked \in Sessions
  BY <1>1 DEF RxDecides, IInv, TypeOK
<1>3. PICK st \in RxNext(state[rxLocked]) : rxReq' = Append(rxReq, Write(rxLocked, st))
  BY <1>1, <1>2, ShortFifo DEF RxDecides
<1>4. rxReq' = <<Write(rxLocked, st)>> /\ rxRsp' = <<>>
  BY <1>1, <1>2, <1>3, ShortFifo, QueryType DEF RxDecides
<1>5. rxReq' = <<Write(rxLocked, st)>>' /\ st \in RxNext(state[rxLocked])'
  BY <1>3, <1>4 DEF Write, RxNext
<1> QED
  BY <1>1, <1>4, <1>5 DEF RxDecides, RxWrites, RxInv

(* The table serves or parks a request of rxTcpFSM. *)
LEMMA TableRxInv ==
  ASSUME IInv, TableRx
  PROVE  RxInv'
<1> USE DEF TableRx, RxWaiting, clients
<1>1. CASE RxAsking
  <2>1. /\ rxId \in Sessions /\ Read(rxId) \in Query /\ rxReq = <<Read(rxId)>>
        /\ state[rxId] \in States
    BY <1>1, QueryType DEF RxAsking, IInv, TypeOK, States
  <2>2. Head(rxReq) = Read(rxId) /\ rxReq' = <<>>
    BY <2>1, ShortFifo
  <2>3. CASE RxBlocked(rxId)
    <3>1. rxAccess' = Read(rxId) /\ UNCHANGED <<rxLocked, rxRsp>>
      BY <2>2, <2>3, QueryFields
    <3>2. rxAccess' = Read(rxId)'
      BY <3>1 DEF Read
    <3> QED
      BY <1>1, <2>2, <3>1, <3>2 DEF RxAsking, RxInv
  <2>4. CASE ~RxBlocked(rxId)
    <3>1. rxRsp' = Append(rxRsp, state[rxId]) /\ rxLocked' = rxId /\ UNCHANGED <<state, rxAccess>>
      BY <2>2, <2>4, QueryFields DEF ServeRx
    <3>2. rxRsp' = <<state[rxId]>>
      BY <1>1, <2>1, <3>1, ShortFifo DEF RxAsking
    <3>3. rxId' = rxId
      OBVIOUS
    <3>4. (rxRsp = <<state[rxId]>>)' /\ rxLocked' # None /\ rxAccess' = None
      BY <1>1, <3>1, <3>2, <3>3 DEF RxAsking
    <3> QED
      BY <2>2, <3>1, <3>3, <3>4 DEF RxDecides, RxInv
  <2> QED
    BY <2>3, <2>4
<1>2. CASE RxWrites
  <2>1. PICK st \in RxNext(state[rxLocked]) :
             \/ rxId = None /\ rxReq = <<Write(rxLocked, st)>>
             \/ rxId # None /\ rxReq = <<Write(rxLocked, st), Read(rxId)>>
    BY <1>2 DEF RxWrites
  <2>2. /\ rxLocked \in Sessions /\ st \in States /\ Write(rxLocked, st) \in Query
        /\ rxId # None => Read(rxId) \in Query
    BY <1>2, <2>1, QueryType DEF RxWrites, IInv, TypeOK
  <2>3. /\ Head(rxReq) = Write(rxLocked, st)
        /\ rxId = None => rxReq' = <<>>
        /\ rxId # None => rxReq' = <<Read(rxId)>>
    <3>1. CASE rxId = None
      BY <2>1, <2>2, <3>1, ShortFifo
    <3>2. CASE rxId # None
      <4> DEFINE w == Write(rxLocked, st)
                 r == Read(rxId)
      <4>1. w \in Query /\ r \in Query /\ rxReq = <<w, r>>
        BY <2>1, <2>2, <3>2
      <4>2. rxReq' = Tail(rxReq)
        OBVIOUS
      <4> HIDE DEF w, r
      <4>3. Head(<<w, r>>) = w /\ Tail(<<w, r>>) = <<r>>
        BY <4>1
      <4>4. Head(rxReq) = w /\ rxReq' = <<r>>
        BY <4>1, <4>2, <4>3
      <4> QED
        BY <3>2, <4>4 DEF w, r
    <3> QED
      BY <3>1, <3>2
  <2>4. ~RxBlocked(rxLocked)
    BY <1>2 DEF IInv, RxBlocked, RxWrites
  <2> DEFINE q == Write(rxLocked, st)
  <2>5. ServeRx(q) /\ UNCHANGED rxAccess /\ q.write
    BY <2>3, <2>4, QueryFields
  <2>6. rxLocked' = None /\ UNCHANGED <<rxRsp, rxAccess, rxId>>
    BY <2>5 DEF ServeRx
  <2>7. Read(rxId)' = Read(rxId)
    BY <2>6 DEF Read
  <2> QED
    BY <1>2, <2>3, <2>6, <2>7 DEF RxWrites, RxIdle, RxAsking, RxInv
<1> QED
  BY <1>1, <1>2 DEF IInv, RxInv, RxIdle, RxDecides

(* The table serves the parked request of rxTcpFSM. *)
LEMMA TableRxWaitInv ==
  ASSUME IInv, TableRxWait
  PROVE  RxInv'
<1> USE DEF TableRxWait, clients
<1>1. RxAsking /\ rxReq = <<>> /\ rxAccess = Read(rxId)
  BY DEF IInv, RxInv, RxIdle, RxAsking, RxDecides, RxWrites
<1>2. rxId \in Sessions /\ state[rxId] \in States
  BY <1>1 DEF RxAsking, IInv, TypeOK
<1>3. /\ rxRsp' = Append(rxRsp, state[rxId]) /\ rxLocked' = rxId
      /\ UNCHANGED <<state, rxId, rxReq>> /\ rxAccess' = None
  BY <1>1, QueryFields DEF ServeRx
<1>4. rxRsp' = <<state[rxId]>>
  BY <1>1, <1>2, <1>3, ShortFifo DEF RxAsking
<1>5. (rxRsp = <<state[rxId]>>)' /\ rxLocked' # None
  BY <1>1, <1>3, <1>4 DEF RxAsking
<1> QED
  BY <1>1, <1>3, <1>5 DEF RxDecides, RxInv

-----------------------------------------------------------------------------
(* The same for tx_app_if. *)
LEMMA OpenOrLastReadTail ==
  ASSUME NEW q \in Seq(Query), q # <<>>, OpenOrLastRead(q)
  PROVE  /\ OpenOrLastRead(Tail(q))
         /\ \/ Head(q) = Write(Head(q).id, "SYN_SENT")
            \/ txId # None /\ Head(q) = Read(txId) /\ Tail(q) = <<>>
<1>1. /\ Len(q) \in Nat /\ Len(q) > 0 /\ Len(Tail(q)) = Len(q) - 1 /\ Head(q) = q[1]
      /\ \A i \in 1 .. Len(Tail(q)) : Tail(q)[i] = q[i + 1] /\ i + 1 \in 1 .. Len(q)
      /\ Tail(q) \in Seq(Query)
  OBVIOUS
<1>2. OpenOrLastRead(Tail(q))
  <2> SUFFICES ASSUME NEW i \in 1 .. Len(Tail(q))
               PROVE  \/ Tail(q)[i] = Write(Tail(q)[i].id, "SYN_SENT")
                      \/ i = Len(Tail(q)) /\ txId # None /\ Tail(q)[i] = Read(txId)
    BY DEF OpenOrLastRead
  <2> DEFINE j == i + 1
  <2>1. Tail(q)[i] = q[j] /\ j \in 1 .. Len(q) /\ i \in Nat /\ j = i + 1
    BY <1>1
  <2> HIDE DEF j
  <2>2. \/ q[j] = Write(q[j].id, "SYN_SENT")
        \/ j = Len(q) /\ txId # None /\ q[j] = Read(txId)
    BY <2>1, Zenon DEF OpenOrLastRead
  <2>3. j = Len(q) => i = Len(Tail(q))
    <3> DEFINE m == Len(q)
               n == Len(Tail(q))
    <3>1. m \in Nat /\ n = m - 1 /\ i \in Nat /\ j = i + 1
      BY <1>1, <2>1
    <3> HIDE DEF m, n
    <3>2. j = m => i = n
      BY <3>1
    <3> QED
      BY <3>2 DEF m, n
  <2> QED
    BY <2>1, <2>2, <2>3
<1>3. Len(q) = 1 => Tail(q) = <<>>
  <2>1. Tail(q) # <<>> => Len(Tail(q)) \in Nat \ {0}
    BY <1>1, EmptySeq
  <2> QED
    BY <1>1, <2>1
<1>4. \/ q[1] = Write(q[1].id, "SYN_SENT")
      \/ 1 = Len(q) /\ txId # None /\ q[1] = Read(txId)
  <2>1. 1 \in 1 .. Len(q)
    BY <1>1
  <2> QED
    BY <2>1, Zenon DEF OpenOrLastRead
<1> QED
  BY <1>1, <1>2, <1>3, <1>4

(* While tx_app_if is in IDLE its queue holds writes only, so an open or   *)
(* the read of the next close may be added.                                *)
LEMMA OpenOrLastReadAppend ==
  ASSUME NEW q \in Seq(Query), OpenOrLastRead(q), txId = None, NEW x \in Query,
         \/ x = Write(x.id, "SYN_SENT")
         \/ txId' # None /\ x = Read(txId')
  PROVE  \A i \in 1 .. Len(Append(q, x)) :
            \/ Append(q, x)[i] = Write(Append(q, x)[i].id, "SYN_SENT")
            \/ i = Len(Append(q, x)) /\ txId' # None /\ Append(q, x)[i] = Read(txId')
<1>1. /\ Len(q) \in Nat /\ Len(Append(q, x)) = Len(q) + 1
      /\ \A i \in 1 .. Len(q) : Append(q, x)[i] = q[i]
      /\ Append(q, x)[Len(q) + 1] = x
  OBVIOUS
<1>2. \A i \in 1 .. Len(q) : q[i] = Write(q[i].id, "SYN_SENT")
  BY DEF OpenOrLastRead
<1>3. TAKE i \in 1 .. Len(Append(q, x))
<1>4. CASE i \in 1 .. Len(q)
  BY <1>1, <1>2, <1>4
<1>5. CASE i = Len(q) + 1
  BY <1>1, <1>5
<1> QED
  BY <1>1, <1>4, <1>5

(* Adding an open, or the read of a close, to the queue of tx_app_if. *)
LEMMA TxEnqueueInv ==
  ASSUME IInv, txId = None, NEW x \in Query,
         \/ x = Write(x.id, "SYN_SENT") /\ UNCHANGED txId
         \/ txId' # None /\ x = Read(txId'),
         txReq' = Append(txReq, x),
         UNCHANGED <<state, txLocked, txAccess, txRsp>>
  PROVE  TxInv'
<1>1. txReq \in Seq(Query)
  BY DEF IInv, TypeOK
<1>2. CASE TxFree
  <2>1. OpenOrLastRead(txReq)'
    BY <1>1, <1>2, OpenOrLastReadAppend, Zenon DEF TxFree, OpenOrLastRead, Read, Write
  <2>2. txAccess # None => txAccess = Write(txAccess.id, "SYN_SENT")
    BY <1>2 DEF TxFree
  <2>3. (txAccess # None => txAccess = Write(txAccess.id, "SYN_SENT"))'
    BY <2>2 DEF Write
  <2> QED
    BY <1>2, <2>1, <2>3 DEF TxFree, TxInv
<1>3. CASE TxWrites
  <2>1. /\ Head(txReq') = Head(txReq) /\ Tail(txReq') = Append(Tail(txReq), x)
        /\ txReq' # <<>> /\ Tail(txReq) \in Seq(Query)
    BY <1>1, <1>3, HeadTailAppend DEF TxWrites
  <2>2. OpenOrLastRead(Tail(txReq))'
    BY <1>3, <2>1, OpenOrLastReadAppend, Zenon DEF TxWrites, OpenOrLastRead, Read, Write
  <2>3. (Head(txReq) = Write(txLocked, CloseNext(state[txLocked])))'
    BY <1>3, <2>1 DEF TxWrites, Write, CloseNext
  <2> QED
    BY <1>3, <2>1, <2>2, <2>3 DEF TxWrites, TxInv
<1> QED
  BY <1>2, <1>3 DEF IInv, TxInv, TxDecides

(* CLOSE_CONN: tx_app_if writes back. *)
LEMMA TxCloseConnInv ==
  ASSUME IInv, TxCloseConn
  PROVE  TxInv'
<1> USE DEF TxCloseConn, table
<1>1. TxDecides
  BY DEF IInv, TxInv, TxFree, TxWrites
<1>2. txRsp = <<state[txLocked]>> /\ state[txLocked] \in States /\ txLocked \in Sessions
  BY <1>1 DEF TxDecides, IInv, TypeOK
<1> DEFINE x == Write(txLocked, CloseNext(state[txLocked]))
<1>3. x \in Query /\ txReq' = Append(<<>>, x) /\ txRsp' = <<>>
  BY <1>1, <1>2, ShortFifo, QueryType DEF TxDecides
<1>4. x' = x
  BY DEF Write, CloseNext
<1> HIDE DEF x
<1>5. txReq' = <<x>> /\ Head(txReq') = x /\ Tail(txReq') = <<>> /\ txReq' # <<>>
  <2>1. Append(<<>>, x) = <<x>> /\ Head(<<x>>) = x /\ Tail(<<x>>) = <<>> /\ <<x>> # <<>>
    BY <1>3
  <2>2. txReq' = <<x>>
    BY <1>3, <2>1
  <2> QED
    BY <2>1, <2>2
<1>6. OpenOrLastRead(Tail(txReq))'
  BY <1>5 DEF OpenOrLastRead
<1>7. Head(txReq') = x'
  BY <1>4, <1>5
<1>8. txLocked' # None /\ txRsp' = <<>> /\ txAccess' = None /\ txReq' # <<>>
  BY <1>1, <1>3, <1>5 DEF TxDecides
<1>9. (Head(txReq) = Write(txLocked, CloseNext(state[txLocked])))'
  BY <1>7 DEF x
<1> QED
  BY <1>6, <1>8, <1>9 DEF TxWrites, TxInv

(* Serving a request of tx_app_if: q is the request, rest what is left in  *)
(* its queue.                                                              *)
LEMMA TxServeInv ==
  ASSUME IInv, NEW q \in Query, ServeTx(q), txAccess' = None, UNCHANGED txId,
         \/ /\ txLocked = None /\ txRsp = <<>> /\ OpenOrLastRead(txReq')
            /\ \/ q = Write(q.id, "SYN_SENT")
               \/ txId # None /\ q = Read(txId) /\ txReq' = <<>>
         \/ TxWrites /\ q = Head(txReq) /\ txReq' = Tail(txReq)
  PROVE  TxInv'
<1>1. CASE q.write
  <2>1. txLocked' = None /\ txRsp' = txRsp
    BY <1>1 DEF ServeTx
  <2>2. OpenOrLastRead(txReq') /\ txRsp = <<>>
    BY <1>1, QueryFields DEF TxWrites
  <2>3. OpenOrLastRead(txReq)'
    BY <2>2 DEF OpenOrLastRead, Read, Write
  <2> QED
    BY <2>1, <2>2, <2>3 DEF TxFree, TxInv
<1>2. CASE ~q.write
  <2>1. txId # None /\ q = Read(txId) /\ txReq' = <<>> /\ txRsp = <<>>
    BY <1>2, QueryFields DEF TxWrites
  <2>2. txId \in Sessions /\ state[txId] \in States
    BY <2>1 DEF IInv, TypeOK
  <2>3. txLocked' = txId /\ txRsp' = Append(<<>>, state[txId]) /\ UNCHANGED state
    BY <1>2, <2>1, QueryFields DEF ServeTx
  <2>4. txRsp' = <<state[txId]>>
    BY <2>2, <2>3, ShortFifo
  <2> QED
    BY <2>1, <2>3, <2>4 DEF TxDecides, TxInv
<1> QED
  BY <1>1, <1>2

(* The table serves or parks a request of tx_app_if. *)
LEMMA TableTxInv ==
  ASSUME IInv, TableTx
  PROVE  TxInv'
<1> USE DEF TableTx, TxWaiting, clients
<1> DEFINE q == Head(txReq)
<1>1. txReq \in Seq(Query) /\ txReq # <<>> /\ q \in Query /\ txAccess = None
  BY DEF IInv, TypeOK
<1>2. CASE TxBlocked(q.id)
  <2>1. ~TxWrites
    BY <1>1, <1>2, NoneAssumption, QueryFields DEF TxBlocked, TxWrites, IInv
  <2>2. TxFree
    BY <1>1, <2>1 DEF IInv, TxInv, TxDecides
  <2>3. /\ OpenOrLastRead(Tail(txReq))
        /\ \/ q = Write(q.id, "SYN_SENT")
           \/ txId # None /\ q = Read(txId) /\ Tail(txReq) = <<>>
    BY <1>1, <2>2, OpenOrLastReadTail DEF TxFree
  <2>4. txAccess' = q /\ txReq' = Tail(txReq) /\ UNCHANGED <<txLocked, txRsp, txId>>
    BY <1>2
  <2>5. OpenOrLastRead(txReq)'
    BY <2>3, <2>4 DEF OpenOrLastRead, Read, Write
  <2>6. \/ txAccess' = Write(txAccess.id, "SYN_SENT")'
        \/ (txId # None /\ txAccess = Read(txId) /\ txReq = <<>>)'
    BY <2>3, <2>4 DEF Read, Write
  <2> QED
    BY <2>2, <2>4, <2>5, <2>6 DEF TxFree, TxInv
<1>3. CASE ~TxBlocked(q.id)
  <2>1. ServeTx(q) /\ txAccess' = None /\ UNCHANGED txId /\ txReq' = Tail(txReq)
    BY <1>1, <1>3
  <2>2. CASE TxFree
    <3>1. /\ OpenOrLastRead(Tail(txReq))
          /\ \/ q = Write(q.id, "SYN_SENT")
             \/ txId # None /\ q = Read(txId) /\ Tail(txReq) = <<>>
      BY <1>1, <2>2, OpenOrLastReadTail DEF TxFree
    <3> QED
      BY <1>1, <2>1, <2>2, <3>1, TxServeInv DEF TxFree
  <2>3. CASE TxWrites
    BY <1>1, <2>1, <2>3, TxServeInv
  <2> QED
    BY <1>1, <2>2, <2>3 DEF IInv, TxInv, TxDecides
<1> QED
  BY <1>2, <1>3

(* The table serves the parked request of tx_app_if. *)
LEMMA TableTxWaitInv ==
  ASSUME IInv, TableTxWait
  PROVE  TxInv'
<1> USE DEF TableTxWait, clients
<1>1. TxFree /\ txAccess \in Query
  BY DEF IInv, TypeOK, TxInv, TxDecides, TxWrites
<1>2. /\ ServeTx(txAccess) /\ txAccess' = None /\ UNCHANGED <<txId, txReq>>
      /\ txLocked = None /\ txRsp = <<>> /\ OpenOrLastRead(txReq)
  BY <1>1 DEF TxFree
<1>3. OpenOrLastRead(txReq')
  BY <1>2 DEF OpenOrLastRead
<1> QED
  BY <1>1, <1>2, <1>3, TxServeInv DEF TxFree

-----------------------------------------------------------------------------
(* The strengthened invariant holds at reset. *)
LEMMA InductiveInit == Init => IInv
<1> SUFFICES ASSUME Init PROVE IInv
  OBVIOUS
<1>1. TypeOK
  BY TypeInit
<1>2. RxInv
  BY DEF Init, RxInv, RxIdle
<1>3. TxInv
  BY DEF Init, TxInv, TxFree, OpenOrLastRead
<1> QED
  BY <1>1, <1>2, <1>3 DEF Init, IInv

(* The parts of the invariant that an action does not disturb. *)
LEMMA Assemble ==
  ASSUME IInv, [Next]_vars, RxInv', TxInv', (rxLocked # None => rxLocked # txLocked)'
  PROVE  IInv'
BY TypeNext DEF IInv

(* The strengthened invariant is inductive. *)
LEMMA InductiveNext == IInv /\ [Next]_vars => IInv'
<1> SUFFICES ASSUME IInv, [Next]_vars PROVE RxInv' /\ TxInv' /\ (rxLocked # None => rxLocked # txLocked)'
  BY Assemble
<1>0. RxInv /\ TxInv /\ TypeOK /\ (rxLocked # None => rxLocked # txLocked)
  BY DEF IInv
<1>1. ASSUME NEW s \in Sessions, RxLoad(s)
      PROVE  RxInv' /\ TxInv' /\ (rxLocked # None => rxLocked # txLocked)'
  BY <1>0, <1>1, RxLoadInv, TxFrame DEF RxLoad, table
<1>2. ASSUME NEW s \in Sessions, TxOpen(s)
      PROVE  RxInv' /\ TxInv' /\ (rxLocked # None => rxLocked # txLocked)'
  <2>1. Write(s, "SYN_SENT") \in Query
    BY DEF Write, Query, States
  <2>2. Write(s, "SYN_SENT") = Write(Write(s, "SYN_SENT").id, "SYN_SENT")
    BY QueryFields
  <2>3. TxInv'
    BY <1>2, <2>1, <2>2, TxEnqueueInv DEF TxOpen, table, clients
  <2> QED
    BY <1>0, <1>2, <2>3, RxFrame DEF TxOpen, table, clients
<1>3. ASSUME NEW s \in Sessions, TxCloseRequest(s)
      PROVE  RxInv' /\ TxInv' /\ (rxLocked # None => rxLocked # txLocked)'
  <2>1. Read(s) \in Query /\ s # None
    BY NoneAssumption DEF Read, Query, States
  <2>2. TxInv'
    BY <1>3, <2>1, TxEnqueueInv DEF TxCloseRequest, table
  <2> QED
    BY <1>0, <1>3, <2>2, RxFrame DEF TxCloseRequest, table
<1>4. CASE \E s \in Sessions : StreamRequest(s) \/ TimerRelease(s)
  BY <1>0, <1>4, RxFrame, TxFrame DEF StreamRequest, TimerRelease, table, clients
<1>5. CASE RxTransition
  BY <1>0, <1>5, RxTransitionInv, TxFrame DEF RxTransition, table
<1>6. CASE TxCloseConn
  BY <1>0, <1>6, TxCloseConnInv, RxFrame DEF TxCloseConn, table
<1>7. CASE StreamResponse \/ TakeRelease \/ TableRead \/ UNCHANGED vars
  BY <1>0, <1>7, RxFrame, TxFrame
     DEF StreamResponse, TakeRelease, absTake, TableRead, vars, table, clients
<1>8. CASE TableTx
  <2>1. txReq # <<>> /\ Head(txReq) \in Query
    BY <1>0, <1>8 DEF TableTx, TxWaiting, TypeOK
  <2>2. CASE TxBlocked(Head(txReq).id)
    BY <1>0, <1>8, <2>2, TableTxInv, RxFrame DEF TableTx, clients
  <2>3. CASE ~TxBlocked(Head(txReq).id)
    BY <1>0, <1>8, <2>1, <2>3, TableTxInv, RxFrame, ServeTxRespectsRx DEF TableTx, clients
  <2> QED
    BY <2>2, <2>3
<1>9. CASE TableRx
  <2>1. rxReq # <<>> /\ Head(rxReq) \in Query
    BY <1>0, <1>9 DEF TableRx, RxWaiting, TypeOK
  <2>2. CASE RxBlocked(Head(rxReq).id)
    BY <1>0, <1>9, <2>2, TableRxInv, TxFrame DEF TableRx, clients
  <2>3. CASE ~RxBlocked(Head(rxReq).id)
    BY <1>0, <1>9, <2>1, <2>3, TableRxInv, TxFrame, ServeRxRespectsTx DEF TableRx, clients
  <2> QED
    BY <2>2, <2>3
<1>10. CASE TableTimer
  <2>1. timerReq # <<>> /\ Head(timerReq) \in Sessions
    BY <1>0, <1>10 DEF TableTimer, TimerWaiting, TypeOK
  <2>2. /\ rxLocked # None => state'[rxLocked] = state[rxLocked]
        /\ txLocked # None => state'[txLocked] = state[txLocked]
    BY <1>0, <1>10, <2>1, NoneAssumption DEF TableTimer, TimerBlocked, ServeRelease, TypeOK
  <2> QED
    BY <1>0, <1>10, <2>2, RxFrame, TxFrame DEF TableTimer, clients
<1>11. CASE TableTxWait
  <2>1. txAccess \in Query
    BY <1>0, <1>11 DEF TableTxWait, TypeOK
  <2> QED
    BY <1>0, <1>11, <2>1, TableTxWaitInv, RxFrame, ServeTxRespectsRx DEF TableTxWait, clients
<1>12. CASE TableRxWait
  <2>1. rxAccess \in Query
    BY <1>0, <1>12 DEF TableRxWait, TypeOK
  <2> QED
    BY <1>0, <1>12, <2>1, TableRxWaitInv, TxFrame, ServeRxRespectsTx DEF TableRxWait, clients
<1>13. CASE TableCloseWait
  <2>1. /\ rxLocked # None => state'[rxLocked] = state[rxLocked]
        /\ txLocked # None => state'[txLocked] = state[txLocked]
    BY <1>0, <1>13, NoneAssumption DEF TableCloseWait, TimerBlocked, ServeRelease, TypeOK
  <2> QED
    BY <1>0, <1>13, <2>1, RxFrame, TxFrame DEF TableCloseWait, clients
<1> QED
  BY <1>1, <1>2, <1>3, <1>4, <1>5, <1>6, <1>7, <1>8, <1>9, <1>10, <1>11, <1>12, <1>13
     DEF Next, TableStep

(* The lock works, for any number of sessions and any FIFO depth: the      *)
(* state rxTcpFSM or tx_app_if decides on is current until its write.      *)
THEOREM LockCorrect == Spec => []LockSafe
<1>1. IInv => LockSafe
  <2> SUFFICES ASSUME IInv PROVE LockSafe
    OBVIOUS
  <2>1. rxRsp # <<>> => rxId # None /\ rxRsp = <<state[rxId]>> /\ state[rxId] \in States
    BY DEF IInv, TypeOK, RxInv, RxIdle, RxAsking, RxDecides, RxWrites
  <2>2. txRsp # <<>> => txId # None /\ txRsp = <<state[txId]>> /\ state[txId] \in States
    BY DEF IInv, TypeOK, TxInv, TxFree, TxDecides, TxWrites
  <2> QED
    BY <2>1, <2>2, ShortFifo DEF IInv, LockSafe
<1> QED
  BY <1>1, InductiveInit, InductiveNext, PTL DEF Spec

-----------------------------------------------------------------------------
(* Refinement: every step of the table maps to a step of the atomic        *)
(* session states or to no step at all.                                    *)
LEMMA RxServeRefines ==
  ASSUME IInv, NEW q \in Query, ServeRx(q),
         q.write => RxWrites /\ q.id = rxLocked /\ q.st \in RxNext(state[rxLocked])
  PROVE  [absNext]_absVars
<1>1. CASE q.write
  <2>1. rxLocked \in Sessions /\ q.st \in RxNext(state[rxLocked])
    BY <1>1 DEF RxWrites, IInv, TypeOK
  <2>2. absRx(rxLocked)
    BY <1>1, <2>1 DEF ServeRx, absRx
  <2> QED
    BY <2>1, <2>2 DEF absNext
<1>2. CASE ~q.write
  BY <1>2 DEF ServeRx, absVars
<1> QED
  BY <1>1, <1>2

(* A served request of tx_app_if is an atomic step or a stutter. *)
LEMMA TxServeRefines ==
  ASSUME IInv, NEW q \in Query, ServeTx(q), UNCHANGED release,
         q.write => \/ q.st = "SYN_SENT"
                    \/ q.id \in Sessions /\ q.st = CloseNext(state[q.id])
  PROVE  [absNext]_absVars
<1>0. q.id \in Sessions
  BY DEF Query
<1>1. CASE q.write
  <2>1. absOpen(q.id) \/ absClose(q.id)
    BY <1>1 DEF ServeTx, absOpen, absClose
  <2> QED
    BY <1>0, <2>1 DEF absNext
<1>2. CASE ~q.write
  BY <1>2 DEF ServeTx, absVars
<1> QED
  BY <1>1, <1>2

(* The branch of tx_app_if refines the atomic session states. *)
LEMMA TableTxRefines ==
  ASSUME IInv, TableTx
  PROVE  [absNext]_absVars
<1> DEFINE q == Head(txReq)
<1>1. txReq \in Seq(Query) /\ txReq # <<>> /\ q \in Query /\ txAccess = None
  BY DEF TableTx, TxWaiting, IInv, TypeOK
<1>2. CASE TxBlocked(q.id)
  BY <1>2 DEF TableTx, absVars
<1>3. CASE ~TxBlocked(q.id)
  <2>1. ServeTx(q) /\ UNCHANGED release
    BY <1>3 DEF TableTx
  <2>2. CASE TxFree
    <3>1. \/ q = Write(q.id, "SYN_SENT")
          \/ q = Read(txId)
      BY <1>1, <2>2, OpenOrLastReadTail DEF TxFree
    <3>2. q.write => q.st = "SYN_SENT"
      BY <3>1, QueryFields
    <3> QED
      BY <1>1, <2>1, <3>2, TxServeRefines
  <2>3. CASE TxWrites
    <3>1. q.id = txLocked /\ q.st = CloseNext(state[txLocked]) /\ txLocked \in Sessions
      BY <2>3, QueryFields DEF TxWrites, IInv, TypeOK
    <3> QED
      BY <1>1, <2>1, <3>1, TxServeRefines
  <2> QED
    BY <1>1, <2>2, <2>3 DEF IInv, TxInv, TxDecides
<1> QED
  BY <1>2, <1>3

(* The branch of rxTcpFSM refines the atomic session states. *)
LEMMA TableRxRefines ==
  ASSUME IInv, TableRx
  PROVE  [absNext]_absVars
<1> DEFINE q == Head(rxReq)
<1>1. rxReq # <<>> /\ q \in Query /\ rxAccess = None
  BY DEF TableRx, RxWaiting, IInv, TypeOK
<1>2. CASE RxBlocked(q.id)
  BY <1>2 DEF TableRx, absVars
<1>3. CASE ~RxBlocked(q.id)
  <2>1. ServeRx(q)
    BY <1>3 DEF TableRx
  <2>2. CASE RxAsking
    <3>1. Read(rxId) \in Query /\ rxReq = <<Read(rxId)>>
      BY <1>1, <2>2, QueryType DEF RxAsking, IInv, TypeOK, States
    <3>2. ~q.write
      BY <3>1, ShortFifo, QueryFields
    <3> QED
      BY <1>1, <2>1, <3>2, RxServeRefines
  <2>3. CASE RxWrites
    <3>1. PICK st \in RxNext(state[rxLocked]) :
               \/ rxReq = <<Write(rxLocked, st)>>
               \/ rxReq = <<Write(rxLocked, st), Read(rxId)>>
      BY <2>3 DEF RxWrites
    <3>2. q = Write(rxLocked, st)
      BY <3>1
    <3>3. q.id = rxLocked /\ q.st \in RxNext(state[rxLocked])
      BY <3>2, QueryFields
    <3> QED
      BY <1>1, <2>1, <2>3, <3>3, RxServeRefines
  <2> QED
    BY <1>1, <2>2, <2>3 DEF IInv, RxInv, RxIdle, RxDecides
<1> QED
  BY <1>2, <1>3

(* Every step of the table is a step of the abstract specification or a stutter. *)
LEMMA NextRefines == IInv /\ [Next]_vars => [absNext]_absVars
<1> SUFFICES ASSUME IInv, [Next]_vars PROVE [absNext]_absVars
  OBVIOUS
<1>1. CASE \E s \in Sessions : \/ RxLoad(s) \/ TxOpen(s) \/ TxCloseRequest(s)
                               \/ StreamRequest(s) \/ TimerRelease(s)
  BY <1>1 DEF RxLoad, TxOpen, TxCloseRequest, StreamRequest, TimerRelease, absVars
<1>2. CASE RxTransition \/ TxCloseConn \/ StreamResponse \/ TableRead \/ UNCHANGED vars
  BY <1>2 DEF RxTransition, TxCloseConn, StreamResponse, TableRead, vars, absVars
<1>3. CASE TakeRelease
  BY <1>3 DEF TakeRelease, absNext
<1>4. CASE TableTx
  BY <1>4, TableTxRefines
<1>5. CASE TableRx
  BY <1>5, TableRxRefines
<1>6. CASE TableTimer
  <2>1. timerReq # <<>> /\ Head(timerReq) \in Sessions
    BY <1>6 DEF TableTimer, TimerWaiting, IInv, TypeOK
  <2> QED
    BY <1>6, <2>1 DEF TableTimer, ServeRelease, absTimer, absNext, absVars
<1>7. CASE TableTxWait
  <2>1. TxFree /\ txAccess \in Query
    BY <1>7 DEF TableTxWait, IInv, TypeOK, TxInv, TxDecides, TxWrites
  <2>2. txAccess.write => txAccess.st = "SYN_SENT"
    BY <1>7, <2>1, QueryFields DEF TableTxWait, TxFree
  <2> QED
    BY <1>7, <2>1, <2>2, TxServeRefines DEF TableTxWait
<1>8. CASE TableRxWait
  <2>1. RxAsking /\ rxAccess = Read(rxId) /\ rxAccess \in Query
    BY <1>8 DEF TableRxWait, IInv, TypeOK, RxInv, RxIdle, RxAsking, RxDecides, RxWrites
  <2> QED
    BY <1>8, <2>1, QueryFields, RxServeRefines DEF TableRxWait
<1>9. CASE TableCloseWait
  <2>1. closeWait \in Sessions
    BY <1>9 DEF TableCloseWait, IInv, TypeOK
  <2> QED
    BY <1>9, <2>1 DEF TableCloseWait, ServeRelease, absTimer, absNext
<1> QED
  BY <1>1, <1>2, <1>3, <1>4, <1>5, <1>6, <1>7, <1>8, <1>9 DEF Next, TableStep

(* The state table implements the atomic session states, for any number of *)
(* sessions and any FIFO depth.                                            *)
THEOREM TableIsAtomic == Spec => Atomic
<1>1. Init => absInit
  BY DEF Init
<1> QED
  BY <1>1, InductiveInit, InductiveNext, NextRefines, PTL DEF Spec, Atomic, absSpec
=============================================================================
