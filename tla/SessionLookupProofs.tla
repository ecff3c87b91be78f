------------------------ MODULE SessionLookupProofs -------------------------
(* Proofs about SessionLookup, for any number of sessions and ports, any   *)
(* segments and any depth of the FIFOs.                                    *)
EXTENDS SessionLookup, FiniteSetTheorems, TLAPS

-----------------------------------------------------------------------------
(* FIFOs *)

(* An entry is put into a FIFO with room. *)
LEMMA FifoAppend ==
  ASSUME NEW S, NEW q, Fifo(q, S), Room(q), NEW e \in S
  PROVE  Fifo(Append(q, e), S)
  BY ConstAssumption DEF Fifo, Room

(* An entry is taken from a FIFO. *)
LEMMA FifoTail ==
  ASSUME NEW S, NEW q, Fifo(q, S), q # <<>>
  PROVE  Fifo(Tail(q), S) /\ Head(q) \in S
  BY ConstAssumption DEF Fifo

(* The first entry of a queue. *)
LEMMA HeadIn ==
  ASSUME NEW S, NEW q \in Seq(S), q # <<>>
  PROVE  Head(q) \in S
  OBVIOUS

(* An empty FIFO holds nothing. *)
LEMMA FifoEmpty == \A S : Fifo(<<>>, S)
  BY ConstAssumption DEF Fifo

(* What a register that holds at most one value holds. *)
LEMMA SingleValue ==
  ASSUME NEW S, NEW q, Single(q, S), q # <<>>
  PROVE  q[1] \in S /\ q = <<q[1]>>
  BY DEF Single

-----------------------------------------------------------------------------
(* rxMetadataHandler waits for one answer at a time, and lookupReplyHandler *)
(* for one insert; a tuple that is marked as valid has been written.        *)
RxUnderWay == Len(rxReq) + Len(rxRsp) + (IF slc # <<>> /\ slc[1].source = "RX" THEN 1 ELSE 0)
LookupInv == RxUnderWay <= Len(mh)
RevInv == \A id \in valid : rev[id] \in Tuples

Types == PortTypes /\ EngineTypes /\ TableTypes /\ UpdateTypes /\ LookupInv /\ RevInv

(* What keeps a part of the invariant: its variables are left alone. *)
LEMMA PortFrame == PortTypes /\ UNCHANGED <<ports, relPort>> => PortTypes'
  BY DEF PortTypes, ports
LEMMA EngineFrame == EngineTypes /\ UNCHANGED <<rx, tx, states>> => EngineTypes'
  BY DEF EngineTypes, rx, tx, states
LEMMA TableFrame == TableTypes /\ UNCHANGED <<slc, table, revs>> => TableTypes'
  BY DEF TableTypes, revs
LEMMA UpdateFrame == UpdateTypes /\ UNCHANGED <<update, counter, finQ, freeList>> => UpdateTypes'
  BY DEF UpdateTypes, update
LEMMA LookupFrame == LookupInv /\ UNCHANGED <<mh, rxReq, rxRsp, slc>> => LookupInv'
  BY DEF LookupInv, RxUnderWay
LEMMA RevFrame == RevInv /\ UNCHANGED <<rev, valid>> => RevInv'
  BY DEF RevInv

(* port_table keeps the types. *)
LEMMA PortTableStep ==
  ASSUME Types,
         \/ \E p \in LowPorts : Listen(p)
         \/ \E p \in HighPorts : OfferPort(p)
         \/ ReleasePort
  PROVE  Types'
<1>1. PortTypes'
  <2>1. ASSUME NEW p \in LowPorts, Listen(p) PROVE PortTypes'
    BY <2>1 DEF Types, PortTypes, Listen
  <2>2. ASSUME NEW p \in HighPorts, OfferPort(p) PROVE PortTypes'
    BY <2>2, FifoAppend DEF Types, PortTypes, OfferPort
  <2>3. CASE ReleasePort
    BY <2>3, FifoTail DEF Types, PortTypes, ReleasePort
  <2> QED
    BY <2>1, <2>2, <2>3
<1>2. UNCHANGED <<rx, tx, states, slc, table, update, ids, revs>>
  BY DEF Listen, OfferPort, ReleasePort
<1> QED
  BY <1>1, <1>2, EngineFrame, TableFrame, UpdateFrame, LookupFrame, RevFrame
  DEF Types, rx, ids, revs

(* The answer of a port check keeps the type of the checks. *)
LEMMA AnswerType ==
  ASSUME Types, NEW high, NEW open, Answer(high, open)
  PROVE  Fifo(checks', Check)
<1>1. PICK i \in DOMAIN checks : \E a \in {"open", "closed"} :
             checks' = [checks EXCEPT ![i].answer = a]
  BY DEF Answer, Pending
<1>2. checks \in Seq(Check) /\ Len(checks) <= Depth
  BY DEF Types, EngineTypes, Fifo
<1>3. PICK a \in {"open", "closed"} : checks' = [checks EXCEPT ![i].answer = a]
  BY <1>1
<1>4. [checks[i] EXCEPT !.answer = a] \in Check
  <2>1. checks[i] \in Check
    BY <1>2
  <2> QED
    BY <2>1, <1>3 DEF Check
<1>5. checks' = [checks EXCEPT ![i] = [checks[i] EXCEPT !.answer = a]]
  BY <1>3
<1> QED
  BY <1>2, <1>4, <1>5 DEF Fifo

LEMMA CheckStep ==
  ASSUME Types, CheckListening \/ CheckUsed
  PROVE  Types'
<1>1. Fifo(checks', Check)
  BY AnswerType DEF CheckListening, CheckUsed
<1>2. UNCHANGED <<ports, relPort, mh, rxReq, rxRsp, fsmQ, tx, states, slc, table, update, ids,
                  revs>>
  BY DEF CheckListening, CheckUsed
<1>3. EngineTypes'
  BY <1>1, <1>2 DEF Types, EngineTypes, tx, states
<1> QED
  BY <1>2, <1>3, PortFrame, TableFrame, UpdateFrame, LookupFrame, RevFrame
  DEF Types, ids, revs

(* tx_app_if keeps the types. *)
LEMMA AppStep ==
  ASSUME Types, OpenAnswer \/ \E peer \in Peers : AppOpen(peer)
  PROVE  Types'
<1>1. ASSUME NEW peer \in Peers, AppOpen(peer) PROVE Types'
  <2>1. Head(offers) \in HighPorts /\ Fifo(Tail(offers), HighPorts)
    BY <1>1, FifoTail DEF AppOpen, Types, PortTypes
  <2>2. [peer |-> peer, myPort |-> reverse(Head(offers))] \in Tuples
    BY <2>1 DEF Tuples, Ports
  <2>3. PortTypes'
    BY <1>1, <2>1 DEF AppOpen, Types, PortTypes
  <2>4. EngineTypes'
    BY <1>1, <2>2, FifoAppend DEF AppOpen, Types, EngineTypes, rx, states
  <2> QED
    BY <1>1, <2>3, <2>4, TableFrame, UpdateFrame, LookupFrame, RevFrame
    DEF AppOpen, Types, rx, ids, revs
<1>2. CASE OpenAnswer
  <2>1. Head(txRsp) \in Ids \cup {None} /\ Fifo(Tail(txRsp), Ids \cup {None})
    BY <1>2, FifoTail DEF OpenAnswer, Types, EngineTypes
  <2>2. live' \subseteq Ids
    BY <1>2, <2>1 DEF OpenAnswer, Types, EngineTypes
  <2>3. EngineTypes'
    BY <1>2, <2>1, <2>2 DEF OpenAnswer, Types, EngineTypes, rx
  <2> QED
    BY <1>2, <2>3, PortFrame, TableFrame, UpdateFrame, LookupFrame, RevFrame
    DEF OpenAnswer, Types, rx, ids, revs
<1> QED
  BY <1>1, <1>2

(* rx_engine and the timers keep the types. *)
LEMMA ArriveStep ==
  ASSUME Types, NEW seg \in Segments, Arrive(seg)
  PROVE  Types'
<1>1. seg.peer \in Peers /\ seg.port \in Ports /\ seg.flags \in Flags
  BY ConstAssumption
<1>2. [tuple |-> [peer |-> seg.peer, myPort |-> reverse(seg.port)],
       flags |-> seg.flags, answer |-> "none"] \in Check
  BY <1>1 DEF Check, Tuples
<1>3. EngineTypes'
  BY <1>2, FifoAppend DEF Arrive, Types, EngineTypes, tx, states
<1> QED
  BY <1>3, PortFrame, TableFrame, UpdateFrame, LookupFrame, RevFrame
  DEF Arrive, Types, ids, revs

LEMMA MetaStep ==
  ASSUME Types, MetaClosed \/ MetaOpen \/ MetaLookup
  PROVE  Types'
<1>1. CASE MetaClosed
  <2>1. EngineTypes'
    BY <1>1, FifoTail DEF MetaClosed, Types, EngineTypes, tx, states
  <2> QED
    BY <1>1, <2>1, PortFrame, TableFrame, UpdateFrame, LookupFrame, RevFrame
    DEF MetaClosed, Types, ids, revs
<1>2. CASE MetaOpen
  <2>1. Head(checks) \in Check /\ Fifo(Tail(checks), Check)
    BY <1>2, FifoTail DEF MetaOpen, Types, EngineTypes
  <2>2. [tuple |-> Head(checks).tuple, create |-> Head(checks).flags \in {"SYN", "SYN_ACK"}]
          \in [tuple : Tuples, create : BOOLEAN]
    BY <2>1 DEF Check
  <2>3. rxReq = <<>> /\ Len(mh') = 1 /\ Len(rxRsp) = 0 /\ ~(slc # <<>> /\ slc[1].source = "RX")
    <3>1. Len(mh) = 0 /\ Len(rxReq) \in Nat /\ Len(rxRsp) \in Nat
      BY <1>2 DEF MetaOpen, Types, EngineTypes, Fifo
    <3>2. Len(rxReq) = 0 /\ Len(rxRsp) = 0 /\ ~(slc # <<>> /\ slc[1].source = "RX")
      BY <3>1 DEF Types, LookupInv, RxUnderWay
    <3> QED
      BY <1>2, <3>2 DEF MetaOpen, Types, EngineTypes, Fifo
  <2>4. EngineTypes'
    <3>1. Single(mh', Flags)
      BY <1>2, <2>1 DEF MetaOpen, Single, Check
    <3>2. Fifo(rxReq', [tuple : Tuples, create : BOOLEAN])
      <4>1. Room(rxReq)
        BY <2>3, ConstAssumption DEF Room
      <4> QED
        BY <1>2, <2>2, <4>1, FifoAppend DEF MetaOpen, Types, EngineTypes
    <3> QED
      BY <1>2, <2>1, <3>1, <3>2 DEF MetaOpen, Types, EngineTypes, tx, states
  <2>5. LookupInv'
    <3>1. Len(rxReq') = 1
      BY <1>2, <2>2, <2>3 DEF MetaOpen
    <3> QED
      BY <1>2, <2>3, <3>1 DEF MetaOpen, LookupInv, RxUnderWay
  <2> QED
    BY <1>2, <2>4, <2>5, PortFrame, TableFrame, UpdateFrame, RevFrame
    DEF MetaOpen, Types, ids, revs
<1>3. CASE MetaLookup
  <2>1. Head(rxRsp) \in Ids \cup {None} /\ Fifo(Tail(rxRsp), Ids \cup {None})
    BY <1>3, FifoTail DEF MetaLookup, Types, EngineTypes
  <2>2. mh[1] \in Flags /\ Len(mh) = 1
    BY <1>3 DEF MetaLookup, Types, EngineTypes, Single
  <2>3. EngineTypes'
    <3>1. Fifo(fsmQ', [id : Ids, flags : Flags])
      <4>1. CASE Head(rxRsp) = None
        BY <1>3, <4>1 DEF MetaLookup, Types, EngineTypes
      <4>2. CASE Head(rxRsp) # None
        <5>1. [id |-> Head(rxRsp), flags |-> mh[1]] \in [id : Ids, flags : Flags]
          BY <2>1, <2>2, <4>2
        <5> QED
          BY <1>3, <4>2, <5>1, FifoAppend DEF MetaLookup, Types, EngineTypes
      <4> QED
        BY <4>1, <4>2
    <3> QED
      BY <1>3, <2>1, <3>1 DEF MetaLookup, Types, EngineTypes, Single, tx, states
  <2>4. LookupInv'
    <3>1. Len(rxRsp) \in Nat \ {0} /\ Len(rxReq) \in Nat /\ Len(rxRsp') = Len(rxRsp) - 1
          /\ Len(mh') = 0
      BY <1>3 DEF MetaLookup, Types, EngineTypes, Fifo
    <3> QED
      BY <1>3, <2>2, <3>1 DEF MetaLookup, Types, LookupInv, RxUnderWay
  <2> QED
    BY <1>3, <2>3, <2>4, PortFrame, TableFrame, UpdateFrame, RevFrame
    DEF MetaLookup, Types, ids, revs
<1> QED
  BY <1>1, <1>2, <1>3

LEMMA ReleaseStep ==
  ASSUME Types, FsmSegment \/ \E id \in Ids : TimerRelease(id)
  PROVE  Types'
<1>1. CASE FsmSegment
  <2>1. Head(fsmQ) \in [id : Ids, flags : Flags] /\ Fifo(fsmQ', [id : Ids, flags : Flags])
    BY <1>1, FifoTail DEF FsmSegment, Types, EngineTypes
  <2>2. Fifo(Append(relQ, Head(fsmQ).id), Ids)
    BY <1>1, <2>1, FifoAppend DEF FsmSegment, Types, EngineTypes
  <2>3. EngineTypes'
    BY <1>1, <2>1, <2>2 DEF FsmSegment, Types, EngineTypes, states, tx
  <2> QED
    BY <1>1, <2>3, PortFrame, TableFrame, UpdateFrame, LookupFrame, RevFrame
    DEF FsmSegment, Types, ids, revs
<1>2. ASSUME NEW id \in Ids, TimerRelease(id) PROVE Types'
  <2>1. EngineTypes'
    BY <1>2, FifoAppend DEF TimerRelease, Types, EngineTypes, rx, tx
  <2> QED
    BY <1>2, <2>1, PortFrame, TableFrame, UpdateFrame, LookupFrame, RevFrame
    DEF TimerRelease, Types, rx, ids, revs
<1> QED
  BY <1>1, <1>2

(* lookupReplyHandler keeps the types. *)
LEMMA RequestStep ==
  ASSUME Types, RequestTx \/ RequestRx
  PROVE  Types'
<1>1. ASSUME NEW source \in {"TX_APP", "RX"}, NEW tuple \in Tuples, NEW create \in BOOLEAN,
             Ask(source, tuple, create)
      PROVE  Single(slc', Query) /\ slc' # <<>> /\ slc'[1].source = source
  BY <1>1 DEF Ask, Single, Query
<1>2. CASE RequestTx
  <2>1. Head(txReq) \in Tuples /\ Fifo(txReq', Tuples)
    BY <1>2, FifoTail DEF RequestTx, Types, EngineTypes
  <2>2. TableTypes' /\ slc'[1].source = "TX_APP"
    BY <1>1, <1>2, <2>1 DEF RequestTx, Types, TableTypes, revs
  <2>3. EngineTypes'
    BY <1>2, <2>1 DEF RequestTx, Types, EngineTypes, rx, states
  <2>4. LookupInv'
    BY <1>2, <2>2 DEF RequestTx, Types, LookupInv, RxUnderWay, rx
  <2> QED
    BY <1>2, <2>2, <2>3, <2>4, PortFrame, UpdateFrame, RevFrame DEF RequestTx, Types, ids, revs
<1>3. CASE RequestRx
  <2>1. /\ Head(rxReq).tuple \in Tuples /\ Head(rxReq).create \in BOOLEAN
        /\ Fifo(rxReq', [tuple : Tuples, create : BOOLEAN])
    BY <1>3, FifoTail DEF RequestRx, Types, EngineTypes
  <2>2. TableTypes' /\ slc' # <<>> /\ slc'[1].source = "RX"
    BY <1>1, <1>3, <2>1 DEF RequestRx, Types, TableTypes, revs
  <2>3. EngineTypes'
    BY <1>3, <2>1 DEF RequestRx, Types, EngineTypes, tx, states
  <2>4. LookupInv'
    <3>1. Len(rxReq) \in Nat \ {0} /\ Len(rxRsp) \in Nat /\ Len(rxReq') = Len(rxReq) - 1
      BY <1>3 DEF RequestRx, Types, EngineTypes, Fifo
    <3>2. Len(mh) \in Nat
      BY DEF Types, EngineTypes, Single
    <3> QED
      BY <1>3, <2>2, <3>1, <3>2 DEF RequestRx, Types, LookupInv, RxUnderWay
  <2> QED
    BY <1>3, <2>2, <2>3, <2>4, PortFrame, UpdateFrame, RevFrame DEF RequestRx, Types, ids, revs
<1> QED
  BY <1>2, <1>3

(* An answer keeps the types and ends the lookup. *)
LEMMA ReplyType ==
  ASSUME Types, NEW id \in Ids \cup {None}, slc # <<>>, Reply(id), slc' = <<>>,
         UNCHANGED <<mh, rxReq>>
  PROVE  Fifo(rxRsp', Ids \cup {None}) /\ Fifo(txRsp', Ids \cup {None}) /\ LookupInv'
<1>1. Fifo(rxRsp', Ids \cup {None}) /\ Fifo(txRsp', Ids \cup {None})
  <2>1. Fifo(rxRsp, Ids \cup {None}) /\ Fifo(txRsp, Ids \cup {None})
    BY DEF Types, EngineTypes
  <2>2. CASE slc[1].source = "RX"
    BY <2>1, <2>2, FifoAppend DEF Reply
  <2>3. CASE slc[1].source # "RX"
    BY <2>1, <2>3, FifoAppend DEF Reply
  <2> QED
    BY <2>2, <2>3
<1>2. Len(rxReq) \in Nat /\ Len(rxRsp) \in Nat /\ Len(mh) \in Nat
  BY DEF Types, EngineTypes, Fifo, Single
<1>3. CASE slc[1].source = "RX"
  <2>1. Len(rxRsp') = Len(rxRsp) + 1
    BY <1>3 DEF Reply, Types, EngineTypes, Fifo
  <2> QED
    BY <1>1, <1>2, <1>3, <2>1 DEF Types, LookupInv, RxUnderWay
<1>4. CASE slc[1].source # "RX"
  BY <1>1, <1>2, <1>4 DEF Reply, Types, LookupInv, RxUnderWay
<1> QED
  BY <1>1, <1>3, <1>4

(* The query keeps its type, its source and its tuple while it is answered. *)
LEMMA SlcType ==
  ASSUME Types, slc # <<>>, NEW phase \in {"found", "inserting"}, NEW id \in Ids \cup {None}
  PROVE  LET q == [slc[1] EXCEPT !.at = phase, !.id = id]
         IN  q \in Query /\ q.source = slc[1].source /\ q.tuple = slc[1].tuple /\ q.at = phase
  BY SingleValue DEF Types, TableTypes, Query

LEMMA CreateStep ==
  ASSUME Types, Create
  PROVE  Types'
<1>1. slc # <<>> /\ slc[1] \in Query
  BY SingleValue DEF Create, At, Types, TableTypes
<1>2. Head(freeList) \in Ids /\ freeList' \in Seq(Ids)
  BY DEF Create, MayCreate, Types, UpdateTypes
<1>3. [op |-> "INSERT", tuple |-> slc[1].tuple, id |-> Head(freeList)] \in Request({"INSERT"})
  BY <1>1, <1>2 DEF Request, Query
<1>4. UpdateTypes'
  BY <1>2, <1>3, FifoAppend DEF Create, Types, UpdateTypes
<1>5. [slc[1] EXCEPT !.at = "inserting"] \in Query /\ slc'[1].source = slc[1].source /\ slc' # <<>>
  BY <1>1 DEF Create, Query
<1>6. TableTypes'
  BY <1>5 DEF Create, Types, TableTypes, Single, revs
<1>7. LookupInv'
  BY <1>1, <1>5 DEF Create, Types, LookupInv, RxUnderWay, rx
<1> QED
  BY <1>4, <1>6, <1>7, PortFrame, EngineFrame, RevFrame DEF Create, Types, revs

LEMMA FoundStep ==
  ASSUME Types, Found
  PROVE  Types'
<1>1. slc # <<>> /\ slc[1].id \in Ids \cup {None}
  BY SingleValue DEF Found, At, Types, TableTypes, Query
<1>2. Fifo(rxRsp', Ids \cup {None}) /\ Fifo(txRsp', Ids \cup {None}) /\ LookupInv'
  BY <1>1, ReplyType DEF Found
<1>3. EngineTypes'
  BY <1>2 DEF Found, Types, EngineTypes, states
<1>4. TableTypes'
  BY DEF Found, Types, TableTypes, Single, revs
<1> QED
  BY <1>2, <1>3, <1>4, PortFrame, UpdateFrame, RevFrame DEF Found, Types, ids, revs

LEMMA InsertedStep ==
  ASSUME Types, Inserted
  PROVE  Types'
<1>1. slc # <<>> /\ slc[1].tuple \in Tuples
  BY SingleValue DEF Inserted, At, Types, TableTypes, Query
<1>2. Head(insRsp) \in Ids /\ Fifo(insRsp', Ids)
  BY FifoTail DEF Inserted, Types, UpdateTypes
<1>3. Fifo(rxRsp', Ids \cup {None}) /\ Fifo(txRsp', Ids \cup {None}) /\ LookupInv'
  BY <1>1, <1>2, ReplyType DEF Inserted
<1>4. EngineTypes'
  BY <1>3 DEF Inserted, Types, EngineTypes, states
<1>5. [id |-> Head(insRsp), tuple |-> slc[1].tuple] \in RevEntry
  BY <1>1, <1>2 DEF RevEntry
<1>6. TableTypes'
  BY <1>5, FifoAppend DEF Inserted, Types, TableTypes, Single
<1>7. UpdateTypes'
  BY <1>2 DEF Inserted, Types, UpdateTypes, ids
<1> QED
  BY <1>3, <1>4, <1>6, <1>7, PortFrame, RevFrame DEF Inserted, Types

(* updateRequestSender, sessionIdManager and updateReplyHandler keep the types. *)
LEMMA UpdateStep ==
  ASSUME Types, SendInsert \/ SendDelete \/ RecycleId \/ NewId \/ UpdateReply
  PROVE  Types'
<1>1. UpdateTypes'
  <2>1. CASE SendInsert
    <3>1. Head(insQ) \in Request({"INSERT", "DELETE"}) /\ Fifo(insQ', Request({"INSERT"}))
      BY <2>1, FifoTail DEF SendInsert, Types, UpdateTypes, Request
    <3> QED
      BY <2>1, <3>1, FifoAppend DEF SendInsert, Types, UpdateTypes
  <2>2. CASE SendDelete
    <3>1. /\ Head(delQ) \in Request({"INSERT", "DELETE"}) /\ Head(delQ).id \in Ids
          /\ Fifo(delQ', Request({"DELETE"}))
      BY <2>2, FifoTail DEF SendDelete, Types, UpdateTypes, Request
    <3> QED
      BY <2>2, <3>1, FifoAppend DEF SendDelete, Types, UpdateTypes
  <2>3. CASE RecycleId
    <3>1. Head(finQ) \in Ids /\ Fifo(finQ', Ids)
      BY <2>3, FifoTail DEF RecycleId, Types, UpdateTypes
    <3> QED
      BY <2>3, <3>1 DEF RecycleId, Types, UpdateTypes, update
  <2>4. CASE NewId
    <3>1. counter \in Ids /\ counter' \in 0 .. MaxSessions
      BY <2>4, ConstAssumption DEF NewId, Types, UpdateTypes, Ids
    <3> QED
      BY <2>4, <3>1 DEF NewId, Types, UpdateTypes, update
  <2>5. CASE UpdateReply
    <3>1. Head(updRsp) \in Outcome /\ Fifo(updRsp', Outcome)
      BY <2>5, FifoTail DEF UpdateReply, Types, UpdateTypes
    <3>2. Head(updRsp).id \in Ids
      BY <3>1 DEF Outcome
    <3> QED
      BY <2>5, <3>1, <3>2, FifoAppend DEF UpdateReply, Types, UpdateTypes, ids
  <2> QED
    BY <2>1, <2>2, <2>3, <2>4, <2>5
<1>2. UNCHANGED <<ports, relPort, rx, tx, states, slc, table, revs>>
  BY DEF SendInsert, SendDelete, RecycleId, NewId, UpdateReply
<1> QED
  BY <1>1, <1>2, PortFrame, EngineFrame, TableFrame, LookupFrame, RevFrame DEF Types, rx, revs

(* The hash table keeps the types. *)
LEMMA HashLookupStep ==
  ASSUME Types, HashLookup
  PROVE  Types'
<1>1. slc # <<>> /\ slc[1] \in Query
  BY SingleValue DEF HashLookup, At, Types, TableTypes
<1>2. table[slc[1].tuple] \in Ids \cup {None}
  BY <1>1 DEF Types, TableTypes, Query
<1>3. [slc[1] EXCEPT !.at = "found", !.id = table[slc[1].tuple]] \in Query
      /\ slc'[1].source = slc[1].source /\ slc' # <<>>
  BY <1>1, <1>2 DEF HashLookup, Query
<1>4. TableTypes'
  BY <1>3 DEF HashLookup, Types, TableTypes, Single, revs
<1>5. LookupInv'
  BY <1>1, <1>3 DEF HashLookup, Types, LookupInv, RxUnderWay, rx
<1> QED
  BY <1>4, <1>5, PortFrame, EngineFrame, UpdateFrame, RevFrame DEF HashLookup, Types, ids, revs

LEMMA HashUpdateStep ==
  ASSUME Types, HashUpdate
  PROVE  Types'
<1> DEFINE q == Head(updQ)
<1>1. q \in Request({"INSERT", "DELETE"}) /\ Fifo(updQ', Request({"INSERT", "DELETE"}))
  BY FifoTail DEF HashUpdate, Types, UpdateTypes
<1>2. table' \in [Tuples -> Ids \cup {None}]
  <2>1. q.tuple \in Tuples /\ q.id \in Ids
    BY <1>1 DEF Request
  <2>2. CASE q.op = "INSERT"
    <3>1. table' \in AfterInsert(q)
      BY <2>2 DEF HashUpdate
    <3> QED
      BY <2>1, <3>1 DEF AfterInsert, Types, TableTypes
  <2>3. CASE q.op # "INSERT"
    BY <2>1, <2>3 DEF HashUpdate, Types, TableTypes
  <2> QED
    BY <2>2, <2>3
<1>3. TableTypes'
  BY <1>2 DEF HashUpdate, Types, TableTypes, revs
<1>4. UpdateTypes'
  <2>1. [op |-> q.op, id |-> q.id] \in Outcome
    BY <1>1 DEF Request, Outcome
  <2> QED
    BY <1>1, <2>1, FifoAppend DEF HashUpdate, Types, UpdateTypes, ids
<1> QED
  BY <1>3, <1>4, PortFrame, EngineFrame, LookupFrame, RevFrame DEF HashUpdate, Types, rx, revs

(* reverseLookupTableInterface keeps the types. *)
LEMMA RevInsertStep ==
  ASSUME Types, RevInsert
  PROVE  Types'
<1>1. Head(revIns) \in RevEntry /\ Fifo(revIns', RevEntry)
  BY FifoTail DEF RevInsert, Types, TableTypes
<1>2. Head(revIns).id \in Ids /\ Head(revIns).tuple \in Tuples
  BY <1>1 DEF RevEntry
<1>3. TableTypes'
  BY <1>1, <1>2 DEF RevInsert, Types, TableTypes
<1>4. RevInv'
  BY <1>2 DEF RevInsert, Types, RevInv, TableTypes
<1> QED
  BY <1>3, <1>4, PortFrame, EngineFrame, UpdateFrame, LookupFrame DEF RevInsert, Types, rx, ids

LEMMA RevReleaseStep ==
  ASSUME Types, RevRelease
  PROVE  Types'
<1> DEFINE id == Head(relQ)
<1>1. id \in Ids /\ Fifo(relQ', Ids)
  BY FifoTail DEF RevRelease, Types, EngineTypes
<1>2. EngineTypes'
  BY <1>1 DEF RevRelease, Types, EngineTypes, rx, tx
<1>3. CASE id \in valid
  <2>1. rev[id] \in Tuples
    BY <1>3 DEF Types, RevInv
  <2>2. rev[id].myPort \in {reverse(p) : p \in Ports}
    BY <2>1 DEF Tuples
  <2>3. [op |-> "DELETE", tuple |-> rev[id], id |-> id] \in Request({"DELETE"})
    BY <1>1, <2>1 DEF Request
  <2>4. PortTypes'
    <3>1. Room(relPort) /\ relPort' = Append(relPort, rev[id].myPort) /\ UNCHANGED ports
      BY <1>3 DEF RevRelease
    <3>2. Fifo(relPort', {reverse(p) : p \in Ports})
      BY <2>2, <3>1, FifoAppend DEF Types, PortTypes
    <3> QED
      BY <3>1, <3>2 DEF Types, PortTypes, ports
  <2>5. UpdateTypes'
    <3>1. Room(delQ) /\ delQ' = Append(delQ, [op |-> "DELETE", tuple |-> rev[id], id |-> id])
      BY <1>3 DEF RevRelease
    <3>2. Fifo(delQ', Request({"DELETE"}))
      BY <2>3, <3>1, FifoAppend DEF Types, UpdateTypes
    <3> QED
      BY <3>2 DEF RevRelease, Types, UpdateTypes, ids
  <2>6. TableTypes' /\ RevInv'
    BY <1>3 DEF RevRelease, Types, TableTypes, RevInv
  <2> QED
    BY <1>2, <2>4, <2>5, <2>6, LookupFrame DEF RevRelease, Types, rx
<1>4. CASE id \notin valid
  BY <1>2, <1>4, PortFrame, UpdateFrame, TableFrame, LookupFrame, RevFrame
  DEF RevRelease, Types, rx, ids, update, revs
<1> QED
  BY <1>3, <1>4

(* Every step keeps the types. *)
LEMMA TypesStep == Types /\ [Next]_vars => Types'
<1> SUFFICES ASSUME Types, [Next]_vars PROVE Types'
  OBVIOUS
<1>1. CASE UNCHANGED vars
  BY <1>1, PortFrame, EngineFrame, TableFrame, UpdateFrame, LookupFrame, RevFrame
  DEF vars, Types, rx, ids, revs
<1>2. CASE Next
  BY <1>2, PortTableStep, CheckStep, AppStep, ArriveStep, MetaStep, ReleaseStep, RequestStep,
     CreateStep, FoundStep, InsertedStep, UpdateStep, HashLookupStep, HashUpdateStep,
     RevInsertStep, RevReleaseStep
  DEF Next, PortTable, Controller, HashTable
<1> QED
  BY <1>1, <1>2

(* The types hold at the start. *)
LEMMA TypesInit == Init => Types
<1> SUFFICES ASSUME Init PROVE Types
  OBVIOUS
<1>1. PortTypes
  BY FifoEmpty DEF Init, PortTypes
<1>2. EngineTypes
  BY FifoEmpty DEF Init, EngineTypes, Single
<1>3. TableTypes
  BY FifoEmpty DEF Init, TableTypes, Single
<1>4. UpdateTypes
  BY FifoEmpty, ConstAssumption DEF Init, UpdateTypes
<1> QED
  BY <1>1, <1>2, <1>3, <1>4 DEF Init, Types, LookupInv, RxUnderWay, RevInv

-----------------------------------------------------------------------------
(* The IDs.  Each place is a set of IDs: the values of a FIFO, the IDs of  *)
(* its requests, or the IDs of its INSERT requests.                        *)
Values(q) == {q[i] : i \in DOMAIN q}
IdsIn(q)  == {q[i].id : i \in DOMAIN q}
NewIn(q)  == {q[i].id : i \in Inserts(q)}

(* No ID is twice in a FIFO. *)
Once(q)    == \A i, j \in DOMAIN q : q[i] = q[j] => i = j
OnceId(q)  == \A i, j \in DOMAIN q : q[i].id = q[j].id => i = j
OnceNew(q) == \A i, j \in Inserts(q) : q[i].id = q[j].id => i = j

(* The nine places are disjoint and hold the IDs that were issued. *)
Partition(F, N, D, I, U, R, E, V, W, c) ==
  /\ F \cap (N \cup D \cup I \cup U \cup R \cup E \cup V \cup W) = {}
  /\ N \cap (D \cup I \cup U \cup R \cup E \cup V \cup W) = {}
  /\ D \cap (I \cup U \cup R \cup E \cup V \cup W) = {}
  /\ I \cap (U \cup R \cup E \cup V \cup W) = {}
  /\ U \cap (R \cup E \cup V \cup W) = {}
  /\ R \cap (E \cup V \cup W) = {}
  /\ E \cap (V \cup W) = {}
  /\ V \cap W = {}
  /\ F \cup N \cup D \cup I \cup U \cup R \cup E \cup V \cup W = 0 .. c - 1

Places == Partition(Values(freeList), Values(finQ), IdsIn(delQ), IdsIn(insQ), NewIn(updQ),
                    NewIn(updRsp), Values(insRsp), IdsIn(revIns), valid, counter)
NoneTwice == /\ Once(freeList) /\ Once(finQ) /\ Once(insRsp)
             /\ OnceId(delQ) /\ OnceId(insQ) /\ OnceId(revIns)
             /\ OnceNew(updQ) /\ OnceNew(updRsp)
UsedCount == usedSessionIDs = counter - Len(freeList) - Len(finQ) - Len(insQ)

(* What a FIFO holds once an entry is added or taken. *)
LEMMA AppendAt ==
  ASSUME NEW S, NEW q \in Seq(S), NEW e \in S
  PROVE  /\ Len(q) \in Nat /\ DOMAIN q = 1 .. Len(q)
         /\ Len(Append(q, e)) = Len(q) + 1 /\ DOMAIN Append(q, e) = 1 .. Len(q) + 1
         /\ \A i \in 1 .. Len(q) : Append(q, e)[i] = q[i]
         /\ Append(q, e)[Len(q) + 1] = e
  OBVIOUS
LEMMA TailAt ==
  ASSUME NEW S, NEW q \in Seq(S), q # <<>>
  PROVE  /\ Len(q) \in Nat \ {0} /\ DOMAIN q = 1 .. Len(q) /\ Head(q) = q[1]
         /\ Len(Tail(q)) = Len(q) - 1 /\ DOMAIN Tail(q) = 1 .. Len(q) - 1
         /\ \A i \in 1 .. Len(q) - 1 : Tail(q)[i] = q[i + 1]
  OBVIOUS

LEMMA ValuesAppend ==
  ASSUME NEW S, NEW q \in Seq(S), NEW e \in S
  PROVE  /\ Values(Append(q, e)) = Values(q) \cup {e}
         /\ Once(q) /\ e \notin Values(q) => Once(Append(q, e))
         /\ Len(Append(q, e)) = Len(q) + 1
<1> DEFINE r == Append(q, e)
           n == Len(q)
<1>1. /\ n \in Nat /\ DOMAIN q = 1 .. n /\ Len(r) = n + 1 /\ DOMAIN r = 1 .. n + 1
      /\ \A i \in 1 .. n : r[i] = q[i]
      /\ r[n + 1] = e
  BY AppendAt
<1> HIDE DEF r, n
<1>2. Values(r) = Values(q) \cup {e}
  BY <1>1 DEF Values
<1>3. Once(q) /\ e \notin Values(q) => Once(r)
  BY <1>1 DEF Values, Once
<1> QED
  BY <1>1, <1>2, <1>3 DEF r, n
LEMMA ValuesTail ==
  ASSUME NEW S, NEW q \in Seq(S), q # <<>>, Once(q)
  PROVE  /\ Head(q) \in Values(q) /\ Values(Tail(q)) = Values(q) \ {Head(q)}
         /\ Once(Tail(q)) /\ Len(Tail(q)) = Len(q) - 1
<1> DEFINE r == Tail(q)
           n == Len(q)
<1>1. /\ n \in Nat \ {0} /\ DOMAIN q = 1 .. n /\ Len(r) = n - 1 /\ DOMAIN r = 1 .. n - 1
      /\ \A i \in 1 .. n - 1 : r[i] = q[i + 1]
      /\ Head(q) = q[1]
  BY TailAt
<1> HIDE DEF r, n
<1>2. Head(q) \in Values(q)
  BY <1>1 DEF Values
<1>3. Values(r) \subseteq Values(q) \ {Head(q)}
  BY <1>1 DEF Values, Once
<1>4. ASSUME NEW x \in Values(q) \ {Head(q)} PROVE x \in Values(r)
  <2>1. PICK i \in 1 .. n : x = q[i]
    BY <1>1 DEF Values
  <2>2. i - 1 \in 1 .. n - 1 /\ x = r[i - 1]
    BY <1>1, <1>4, <2>1
  <2> QED
    BY <1>1, <2>2 DEF Values
<1>5. Once(r)
  <2>1. ASSUME NEW i \in 1 .. n - 1, NEW j \in 1 .. n - 1, r[i] = r[j] PROVE i = j
    <3>1. i + 1 \in 1 .. n /\ j + 1 \in 1 .. n /\ q[i + 1] = q[j + 1]
      BY <1>1, <2>1
    <3>2. i + 1 = j + 1
      BY <1>1, <3>1 DEF Once
    <3> QED
      BY <3>2
  <2> QED
    BY <1>1, <2>1 DEF Once
<1> QED
  BY <1>1, <1>2, <1>3, <1>4, <1>5 DEF r, n
LEMMA IdsAppend ==
  ASSUME NEW S, NEW q \in Seq(S), NEW e \in S
  PROVE  /\ IdsIn(Append(q, e)) = IdsIn(q) \cup {e.id}
         /\ OnceId(q) /\ e.id \notin IdsIn(q) => OnceId(Append(q, e))
         /\ Len(Append(q, e)) = Len(q) + 1
<1> DEFINE r == Append(q, e)
           n == Len(q)
<1>1. /\ n \in Nat /\ DOMAIN q = 1 .. n /\ Len(r) = n + 1 /\ DOMAIN r = 1 .. n + 1
      /\ \A i \in 1 .. n : r[i] = q[i]
      /\ r[n + 1] = e
  BY AppendAt
<1> HIDE DEF r, n
<1>2. IdsIn(r) = IdsIn(q) \cup {e.id}
  BY <1>1 DEF IdsIn
<1>3. OnceId(q) /\ e.id \notin IdsIn(q) => OnceId(r)
  BY <1>1 DEF IdsIn, OnceId
<1> QED
  BY <1>1, <1>2, <1>3 DEF r, n
LEMMA IdsTail ==
  ASSUME NEW S, NEW q \in Seq(S), q # <<>>, OnceId(q)
  PROVE  /\ Head(q).id \in IdsIn(q) /\ IdsIn(Tail(q)) = IdsIn(q) \ {Head(q).id}
         /\ OnceId(Tail(q)) /\ Len(Tail(q)) = Len(q) - 1
<1> DEFINE r == Tail(q)
           n == Len(q)
<1>1. /\ n \in Nat \ {0} /\ DOMAIN q = 1 .. n /\ Len(r) = n - 1 /\ DOMAIN r = 1 .. n - 1
      /\ \A i \in 1 .. n - 1 : r[i] = q[i + 1]
      /\ Head(q) = q[1]
  BY TailAt
<1> HIDE DEF r, n
<1>2. Head(q).id \in IdsIn(q)
  BY <1>1 DEF IdsIn
<1>3. ASSUME NEW i \in 1 .. n - 1 PROVE r[i].id \in IdsIn(q) \ {Head(q).id}
  <2>1. i + 1 \in 1 .. n /\ r[i] = q[i + 1] /\ i + 1 # 1
    BY <1>1
  <2> QED
    BY <1>1, <2>1 DEF IdsIn, OnceId
<1>4. ASSUME NEW x \in IdsIn(q) \ {Head(q).id} PROVE x \in IdsIn(r)
  <2>1. PICK i \in 1 .. n : x = q[i].id
    BY <1>1 DEF IdsIn
  <2>2. i - 1 \in 1 .. n - 1 /\ x = r[i - 1].id
    BY <1>1, <1>4, <2>1
  <2> QED
    BY <1>1, <2>2 DEF IdsIn
<1>5. IdsIn(r) \subseteq IdsIn(q) \ {Head(q).id}
  BY <1>1, <1>3 DEF IdsIn
<1>6. OnceId(r)
  <2>1. ASSUME NEW i \in 1 .. n - 1, NEW j \in 1 .. n - 1, r[i].id = r[j].id PROVE i = j
    <3>1. i + 1 \in 1 .. n /\ j + 1 \in 1 .. n /\ q[i + 1].id = q[j + 1].id
      BY <1>1, <2>1
    <3>2. i + 1 = j + 1
      BY <1>1, <3>1 DEF OnceId
    <3> QED
      BY <3>2
  <2> QED
    BY <1>1, <2>1 DEF OnceId
<1> QED
  BY <1>1, <1>2, <1>4, <1>5, <1>6 DEF r, n
LEMMA NewAppend ==
  ASSUME NEW S, NEW q \in Seq(S), NEW e \in S
  PROVE  /\ e.op = "INSERT" => NewIn(Append(q, e)) = NewIn(q) \cup {e.id}
         /\ e.op # "INSERT" => NewIn(Append(q, e)) = NewIn(q)
         /\ OnceNew(q) /\ (e.op # "INSERT" \/ e.id \notin NewIn(q)) => OnceNew(Append(q, e))
<1> DEFINE r == Append(q, e)
           n == Len(q)
<1>1. /\ n \in Nat /\ DOMAIN q = 1 .. n /\ DOMAIN r = 1 .. n + 1
      /\ \A i \in 1 .. n : r[i] = q[i]
      /\ r[n + 1] = e
  BY AppendAt
<1> HIDE DEF r, n
<1>2. Inserts(r) = Inserts(q) \cup (IF e.op = "INSERT" THEN {n + 1} ELSE {})
  BY <1>1 DEF Inserts
<1>3. \A i \in Inserts(q) : i \in 1 .. n /\ r[i] = q[i]
  BY <1>1 DEF Inserts
<1>4. NewIn(r) = NewIn(q) \cup (IF e.op = "INSERT" THEN {e.id} ELSE {})
  BY <1>1, <1>2, <1>3 DEF NewIn
<1>5. OnceNew(q) /\ (e.op # "INSERT" \/ e.id \notin NewIn(q)) => OnceNew(r)
  BY <1>1, <1>2, <1>3 DEF NewIn, OnceNew
<1> QED
  BY <1>4, <1>5 DEF r, n
LEMMA NewTail ==
  ASSUME NEW S, NEW q \in Seq(S), q # <<>>, OnceNew(q)
  PROVE  /\ Head(q).op = "INSERT" => /\ Head(q).id \in NewIn(q)
                                     /\ NewIn(Tail(q)) = NewIn(q) \ {Head(q).id}
         /\ Head(q).op # "INSERT" => NewIn(Tail(q)) = NewIn(q)
         /\ OnceNew(Tail(q))
<1> DEFINE r == Tail(q)
           n == Len(q)
<1>1. /\ n \in Nat \ {0} /\ DOMAIN q = 1 .. n /\ DOMAIN r = 1 .. n - 1
      /\ \A i \in 1 .. n - 1 : r[i] = q[i + 1]
      /\ Head(q) = q[1]
  BY TailAt
<1> HIDE DEF r, n
<1>2. ASSUME NEW i \in Inserts(r) PROVE i \in Int /\ i + 1 \in Inserts(q) /\ q[i + 1] = r[i] /\ i + 1 # 1
  BY <1>1, <1>2 DEF Inserts
<1>3. ASSUME NEW i \in Inserts(q), i # 1 PROVE i - 1 \in Inserts(r) /\ r[i - 1] = q[i]
  BY <1>1, <1>3 DEF Inserts
<1>4. OnceNew(r)
  BY <1>2 DEF OnceNew
<1>5. CASE Head(q).op = "INSERT"
  <2>1. 1 \in Inserts(q)
    BY <1>1, <1>5 DEF Inserts
  <2>2. \A i \in Inserts(q) : i # 1 => q[i].id # Head(q).id
    BY <1>1, <2>1 DEF OnceNew
  <2>3. Head(q).id \in NewIn(q)
    BY <1>1, <2>1 DEF NewIn
  <2>4. NewIn(r) \subseteq NewIn(q) \ {Head(q).id}
    BY <1>2, <2>2 DEF NewIn
  <2>5. NewIn(q) \ {Head(q).id} \subseteq NewIn(r)
    BY <1>1, <1>3 DEF NewIn
  <2> QED
    BY <1>4, <1>5, <2>3, <2>4, <2>5 DEF r
<1>6. CASE Head(q).op # "INSERT"
  <2>1. 1 \notin Inserts(q)
    BY <1>1, <1>6 DEF Inserts
  <2>2. NewIn(r) \subseteq NewIn(q)
    BY <1>2 DEF NewIn
  <2>3. NewIn(q) \subseteq NewIn(r)
    BY <1>3, <2>1 DEF NewIn
  <2> QED
    BY <1>4, <1>6, <2>2, <2>3 DEF r
<1> QED
  BY <1>5, <1>6

(* The places of the IDs depend on these variables only. *)
idVars == <<freeList, finQ, delQ, insQ, updQ, updRsp, insRsp, revIns, valid, counter>>
Ledger == Places /\ NoneTwice /\ UsedCount
LEMMA LedgerFrame == Ledger /\ UNCHANGED <<idVars, usedSessionIDs>> => Ledger'
  BY DEF Ledger, Places, NoneTwice, UsedCount, idVars

(* An ID moves from the free list into the insert request. *)
LEMMA LedgerCreate ==
  ASSUME Types, Ledger, Create
  PROVE  /\ Ledger'
         /\ IdsIn(insQ') = IdsIn(insQ) \cup {Head(freeList)}
<1> DEFINE x == Head(freeList)
           r == [op |-> "INSERT", tuple |-> slc[1].tuple, id |-> x]
<1>1. freeList \in Seq(Ids) /\ freeList # <<>> /\ insQ \in Seq(Request({"INSERT"}))
  BY DEF Create, MayCreate, Types, UpdateTypes, Fifo
<1>2. insQ' = Append(insQ, r) /\ freeList' = Tail(freeList)
  BY DEF Create
<1>3. r \in Request({"INSERT"})
  <2>1. slc[1] \in Query
    BY SingleValue DEF Create, At, Types, TableTypes
  <2> QED
    BY <1>1, <2>1 DEF Request, Query
<1>4. /\ x \in Values(freeList) /\ Values(freeList') = Values(freeList) \ {x}
      /\ Once(freeList') /\ Len(freeList') = Len(freeList) - 1
  BY <1>1, <1>2, ValuesTail DEF Ledger, NoneTwice
<1>5. x \notin IdsIn(insQ)
  BY <1>4 DEF Ledger, Places, Partition
<1>6. IdsIn(insQ') = IdsIn(insQ) \cup {x} /\ OnceId(insQ') /\ Len(insQ') = Len(insQ) + 1
  BY <1>1, <1>2, <1>3, <1>5, IdsAppend DEF Ledger, NoneTwice
<1>7. UNCHANGED <<finQ, delQ, updQ, updRsp, insRsp, revIns, valid, counter, usedSessionIDs>>
  BY DEF Create, revs
<1>8. Places'
  <2>1. Partition(Values(freeList'), Values(finQ), IdsIn(delQ), IdsIn(insQ'), NewIn(updQ),
                  NewIn(updRsp), Values(insRsp), IdsIn(revIns), valid, counter)
    BY <1>4, <1>6 DEF Ledger, Places, Partition
  <2> QED
    BY <1>7, <2>1 DEF Places
<1>9. NoneTwice'
  BY <1>4, <1>6, <1>7 DEF Ledger, NoneTwice
<1>10. UsedCount'
  BY <1>4, <1>6, <1>7, <1>1 DEF Ledger, UsedCount, Types, UpdateTypes, Fifo
<1> QED
  BY <1>6, <1>8, <1>9, <1>10 DEF Ledger

(* The request moves to the hash table. *)
LEMMA LedgerSendInsert ==
  ASSUME Types, Ledger, SendInsert
  PROVE  /\ Ledger'
         /\ Head(insQ).id \in IdsIn(insQ) /\ IdsIn(insQ') = IdsIn(insQ) \ {Head(insQ).id}
         /\ NewIn(updQ') = NewIn(updQ) \cup {Head(insQ).id}
<1> DEFINE r == Head(insQ)
<1>1. /\ insQ \in Seq(Request({"INSERT"})) /\ insQ # <<>> /\ Len(insQ) \in Nat
      /\ updQ \in Seq(Request({"INSERT", "DELETE"}))
  BY DEF SendInsert, Types, UpdateTypes, Fifo
<1>2. r \in Request({"INSERT", "DELETE"}) /\ r.op = "INSERT"
  <2>1. r \in Request({"INSERT"})
    BY <1>1, HeadIn
  <2> QED
    BY <2>1 DEF Request
<1>3. insQ' = Tail(insQ) /\ updQ' = Append(updQ, r) /\ usedSessionIDs' = usedSessionIDs + 1
  BY DEF SendInsert
<1>4. /\ r.id \in IdsIn(insQ) /\ IdsIn(insQ') = IdsIn(insQ) \ {r.id}
      /\ OnceId(insQ') /\ Len(insQ') = Len(insQ) - 1
  BY <1>1, <1>3, IdsTail DEF Ledger, NoneTwice
<1>5. r.id \notin NewIn(updQ)
  BY <1>4 DEF Ledger, Places, Partition
<1>6. NewIn(updQ') = NewIn(updQ) \cup {r.id} /\ OnceNew(updQ')
  BY <1>1, <1>2, <1>3, <1>5, NewAppend DEF Ledger, NoneTwice
<1>7. UNCHANGED <<freeList, finQ, delQ, updRsp, insRsp, revIns, valid, counter>>
  BY DEF SendInsert, revs
<1>8. Places'
  <2>1. Partition(Values(freeList), Values(finQ), IdsIn(delQ), IdsIn(insQ'), NewIn(updQ'),
                  NewIn(updRsp), Values(insRsp), IdsIn(revIns), valid, counter)
    BY <1>4, <1>6 DEF Ledger, Places, Partition
  <2> QED
    BY <1>7, <2>1 DEF Places
<1>9. NoneTwice'
  BY <1>4, <1>6, <1>7 DEF Ledger, NoneTwice
<1>10. UsedCount'
  BY <1>1, <1>3, <1>4, <1>7 DEF Ledger, UsedCount, Types, UpdateTypes, Fifo
<1> QED
  BY <1>4, <1>6, <1>8, <1>9, <1>10 DEF Ledger

(* The hash table has served a request; a DELETE holds no ID any more. *)
LEMMA LedgerHashUpdate ==
  ASSUME Types, Ledger, HashUpdate
  PROVE  /\ Ledger'
         /\ Head(updQ).op = "INSERT" =>
              /\ Head(updQ).id \in NewIn(updQ) /\ NewIn(updQ') = NewIn(updQ) \ {Head(updQ).id}
              /\ NewIn(updRsp') = NewIn(updRsp) \cup {Head(updQ).id}
         /\ Head(updQ).op # "INSERT" => NewIn(updQ') = NewIn(updQ) /\ NewIn(updRsp') = NewIn(updRsp)
<1> DEFINE r == Head(updQ)
           a == [op |-> r.op, id |-> r.id]
<1>1. /\ updQ \in Seq(Request({"INSERT", "DELETE"})) /\ updQ # <<>>
      /\ updRsp \in Seq(Outcome)
  BY DEF HashUpdate, Types, UpdateTypes, Fifo
<1>2. r \in Request({"INSERT", "DELETE"}) /\ a \in Outcome
  <2>1. r \in Request({"INSERT", "DELETE"})
    BY <1>1, HeadIn
  <2> QED
    BY <2>1 DEF Request, Outcome
<1>3. updQ' = Tail(updQ) /\ updRsp' = Append(updRsp, a)
  BY DEF HashUpdate
<1>4. /\ r.op = "INSERT" => r.id \in NewIn(updQ) /\ NewIn(updQ') = NewIn(updQ) \ {r.id}
      /\ r.op # "INSERT" => NewIn(updQ') = NewIn(updQ)
      /\ OnceNew(updQ')
  BY <1>1, <1>3, NewTail DEF Ledger, NoneTwice
<1>5. r.op # "INSERT" \/ r.id \notin NewIn(updRsp)
  BY <1>4 DEF Ledger, Places, Partition
<1>6. /\ r.op = "INSERT" => NewIn(updRsp') = NewIn(updRsp) \cup {r.id}
      /\ r.op # "INSERT" => NewIn(updRsp') = NewIn(updRsp)
      /\ OnceNew(updRsp')
  <2>1. a.op = r.op /\ a.id = r.id
    OBVIOUS
  <2> HIDE DEF a
  <2>2. /\ a.op = "INSERT" => NewIn(updRsp') = NewIn(updRsp) \cup {a.id}
        /\ a.op # "INSERT" => NewIn(updRsp') = NewIn(updRsp)
        /\ OnceNew(updRsp) /\ (a.op # "INSERT" \/ a.id \notin NewIn(updRsp)) => OnceNew(updRsp')
    BY <1>1, <1>2, <1>3, NewAppend
  <2> QED
    BY <1>5, <2>1, <2>2 DEF Ledger, NoneTwice
<1>7. UNCHANGED <<freeList, finQ, delQ, insQ, insRsp, revIns, valid, counter, usedSessionIDs>>
  BY DEF HashUpdate, ids, revs
<1>8. Places'
  <2>1. Partition(Values(freeList), Values(finQ), IdsIn(delQ), IdsIn(insQ), NewIn(updQ'),
                  NewIn(updRsp'), Values(insRsp), IdsIn(revIns), valid, counter)
    BY <1>4, <1>6 DEF Ledger, Places, Partition
  <2> QED
    BY <1>7, <2>1 DEF Places
<1>9. NoneTwice' /\ UsedCount'
  BY <1>4, <1>6, <1>7 DEF Ledger, NoneTwice, UsedCount
<1> QED
  BY <1>4, <1>6, <1>8, <1>9 DEF Ledger

(* The answer of an insert is passed on to lookupReplyHandler. *)
LEMMA LedgerUpdateReply ==
  ASSUME Types, Ledger, UpdateReply
  PROVE  /\ Ledger'
         /\ NewIn(updRsp') \cup Values(insRsp') = NewIn(updRsp) \cup Values(insRsp)
<1> DEFINE r == Head(updRsp)
<1>1. updRsp \in Seq(Outcome) /\ updRsp # <<>> /\ insRsp \in Seq(Ids)
  BY DEF UpdateReply, Types, UpdateTypes, Fifo
<1>2. r.id \in Ids
  <2>1. r \in Outcome
    BY <1>1, HeadIn
  <2> QED
    BY <2>1 DEF Outcome
<1>3. updRsp' = Tail(updRsp) /\ insRsp' = IF r.op = "INSERT" THEN Append(insRsp, r.id) ELSE insRsp
  BY DEF UpdateReply
<1>4. /\ r.op = "INSERT" => r.id \in NewIn(updRsp) /\ NewIn(updRsp') = NewIn(updRsp) \ {r.id}
      /\ r.op # "INSERT" => NewIn(updRsp') = NewIn(updRsp)
      /\ OnceNew(updRsp')
  BY <1>1, <1>3, NewTail DEF Ledger, NoneTwice
<1>5. r.op = "INSERT" => r.id \notin Values(insRsp)
  BY <1>4 DEF Ledger, Places, Partition
<1>6. /\ r.op = "INSERT" => Values(insRsp') = Values(insRsp) \cup {r.id}
      /\ Once(insRsp')
  BY <1>1, <1>2, <1>3, <1>5, ValuesAppend DEF Ledger, NoneTwice
<1>7. UNCHANGED <<freeList, finQ, delQ, insQ, updQ, revIns, valid, counter, usedSessionIDs>>
  BY DEF UpdateReply, ids, revs
<1>8. Places'
  <2>1. CASE r.op = "INSERT"
    <3>1. Partition(Values(freeList), Values(finQ), IdsIn(delQ), IdsIn(insQ), NewIn(updQ),
                    NewIn(updRsp'), Values(insRsp'), IdsIn(revIns), valid, counter)
      BY <1>4, <1>6, <2>1 DEF Ledger, Places, Partition
    <3> QED
      BY <1>7, <3>1 DEF Places
  <2>2. CASE r.op # "INSERT"
    BY <1>3, <1>4, <1>7, <2>2 DEF Ledger, Places
  <2> QED
    BY <2>1, <2>2
<1>9. NoneTwice' /\ UsedCount'
  BY <1>4, <1>6, <1>7 DEF Ledger, NoneTwice, UsedCount
<1> QED
  BY <1>3, <1>4, <1>6, <1>8, <1>9 DEF Ledger

(* lookupReplyHandler passes the ID on to the reverse table. *)
LEMMA LedgerInserted ==
  ASSUME Types, Ledger, Inserted
  PROVE  /\ Ledger'
         /\ Head(insRsp) \in Values(insRsp) /\ Values(insRsp') = Values(insRsp) \ {Head(insRsp)}
<1> DEFINE x == Head(insRsp)
           r == [id |-> x, tuple |-> slc[1].tuple]
<1>1. insRsp \in Seq(Ids) /\ insRsp # <<>> /\ revIns \in Seq(RevEntry)
  BY DEF Inserted, Types, UpdateTypes, TableTypes, Fifo
<1>2. r \in RevEntry /\ r.id = x
  <2>1. slc[1] \in Query
    BY SingleValue DEF Inserted, At, Types, TableTypes
  <2> QED
    BY <1>1, <2>1, HeadIn DEF Query, RevEntry
<1>3. insRsp' = Tail(insRsp) /\ revIns' = Append(revIns, r)
  BY DEF Inserted
<1>4. x \in Values(insRsp) /\ Values(insRsp') = Values(insRsp) \ {x} /\ Once(insRsp')
  BY <1>1, <1>3, ValuesTail DEF Ledger, NoneTwice
<1>5. x \notin IdsIn(revIns)
  BY <1>4 DEF Ledger, Places, Partition
<1>6. IdsIn(revIns') = IdsIn(revIns) \cup {x} /\ OnceId(revIns')
  <2> HIDE DEF r
  <2> QED
    BY <1>1, <1>2, <1>3, <1>5, IdsAppend DEF Ledger, NoneTwice
<1>7. UNCHANGED <<freeList, finQ, delQ, insQ, updQ, updRsp, valid, counter, usedSessionIDs>>
  BY DEF Inserted, ids
<1>8. Places'
  <2>1. Partition(Values(freeList), Values(finQ), IdsIn(delQ), IdsIn(insQ), NewIn(updQ),
                  NewIn(updRsp), Values(insRsp'), IdsIn(revIns'), valid, counter)
    BY <1>4, <1>6 DEF Ledger, Places, Partition
  <2> QED
    BY <1>7, <2>1 DEF Places
<1>9. NoneTwice' /\ UsedCount'
  BY <1>4, <1>6, <1>7 DEF Ledger, NoneTwice, UsedCount
<1> QED
  BY <1>4, <1>8, <1>9 DEF Ledger

(* The reverse table takes the ID. *)
LEMMA LedgerRevInsert ==
  ASSUME Types, Ledger, RevInsert
  PROVE  Ledger'
<1> DEFINE x == Head(revIns).id
<1>1. revIns \in Seq(RevEntry) /\ revIns # <<>>
  BY DEF RevInsert, Types, TableTypes, Fifo
<1>2. revIns' = Tail(revIns) /\ valid' = valid \cup {x}
  BY DEF RevInsert
<1>3. x \in IdsIn(revIns) /\ IdsIn(revIns') = IdsIn(revIns) \ {x} /\ OnceId(revIns')
  BY <1>1, <1>2, IdsTail DEF Ledger, NoneTwice
<1>4. UNCHANGED <<freeList, finQ, delQ, insQ, updQ, updRsp, insRsp, counter, usedSessionIDs>>
  BY DEF RevInsert, update, ids
<1>5. Places'
  <2>1. Partition(Values(freeList), Values(finQ), IdsIn(delQ), IdsIn(insQ), NewIn(updQ),
                  NewIn(updRsp), Values(insRsp), IdsIn(revIns'), valid', counter)
    BY <1>2, <1>3 DEF Ledger, Places, Partition
  <2> QED
    BY <1>4, <2>1 DEF Places
<1>6. NoneTwice' /\ UsedCount'
  BY <1>3, <1>4 DEF Ledger, NoneTwice, UsedCount
<1> QED
  BY <1>5, <1>6 DEF Ledger

(* A release takes the ID from the reverse table, if it is there. *)
LEMMA LedgerRevRelease ==
  ASSUME Types, Ledger, RevRelease
  PROVE  Ledger'
<1> DEFINE x == Head(relQ)
           r == [op |-> "DELETE", tuple |-> rev[x], id |-> x]
<1>1. x \in Ids /\ delQ \in Seq(Request({"DELETE"}))
  BY FifoTail DEF RevRelease, Types, EngineTypes, UpdateTypes, Fifo
<1>2. UNCHANGED <<freeList, finQ, insQ, updQ, updRsp, insRsp, revIns, counter, usedSessionIDs>>
  BY DEF RevRelease, ids
<1>3. CASE x \in valid
  <2>1. delQ' = Append(delQ, r) /\ valid' = valid \ {x}
    BY <1>3 DEF RevRelease
  <2>2. r \in Request({"DELETE"}) /\ r.id = x
    BY <1>1, <1>3 DEF Types, RevInv, Request
  <2>3. x \notin IdsIn(delQ)
    BY <1>3 DEF Ledger, Places, Partition
  <2>4. IdsIn(delQ') = IdsIn(delQ) \cup {x} /\ OnceId(delQ')
    <3> HIDE DEF r
    <3> QED
      BY <1>1, <2>1, <2>2, <2>3, IdsAppend DEF Ledger, NoneTwice
  <2>5. Partition(Values(freeList), Values(finQ), IdsIn(delQ'), IdsIn(insQ), NewIn(updQ),
                  NewIn(updRsp), Values(insRsp), IdsIn(revIns), valid', counter)
    BY <1>3, <2>1, <2>4 DEF Ledger, Places, Partition
  <2>6. Places'
    BY <1>2, <2>5 DEF Places
  <2> QED
    BY <1>2, <2>4, <2>6 DEF Ledger, NoneTwice, UsedCount
<1>4. CASE x \notin valid
  BY <1>2, <1>4, LedgerFrame DEF RevRelease, idVars
<1> QED
  BY <1>3, <1>4

(* The ID of a delete goes back to sessionIdManager. *)
LEMMA LedgerSendDelete ==
  ASSUME Types, Ledger, SendDelete
  PROVE  /\ Ledger'
         /\ Head(delQ).id \in IdsIn(delQ) /\ NewIn(updQ') = NewIn(updQ)
<1> DEFINE r == Head(delQ)
<1>1. /\ delQ \in Seq(Request({"DELETE"})) /\ delQ # <<>>
      /\ updQ \in Seq(Request({"INSERT", "DELETE"})) /\ finQ \in Seq(Ids)
  BY DEF SendDelete, Types, UpdateTypes, Fifo
<1>2. r \in Request({"INSERT", "DELETE"}) /\ r.op # "INSERT" /\ r.id \in Ids
  <2>1. r \in Request({"DELETE"})
    BY <1>1, HeadIn
  <2> QED
    BY <2>1 DEF Request
<1>3. /\ delQ' = Tail(delQ) /\ updQ' = Append(updQ, r) /\ finQ' = Append(finQ, r.id)
      /\ usedSessionIDs' = usedSessionIDs - 1
  BY DEF SendDelete
<1>4. r.id \in IdsIn(delQ) /\ IdsIn(delQ') = IdsIn(delQ) \ {r.id} /\ OnceId(delQ')
  BY <1>1, <1>3, IdsTail DEF Ledger, NoneTwice
<1>5. NewIn(updQ') = NewIn(updQ) /\ OnceNew(updQ')
  BY <1>1, <1>2, <1>3, NewAppend DEF Ledger, NoneTwice
<1>6. r.id \notin Values(finQ)
  BY <1>4 DEF Ledger, Places, Partition
<1>7. Values(finQ') = Values(finQ) \cup {r.id} /\ Once(finQ') /\ Len(finQ') = Len(finQ) + 1
  BY <1>1, <1>2, <1>3, <1>6, ValuesAppend DEF Ledger, NoneTwice
<1>8. UNCHANGED <<freeList, insQ, updRsp, insRsp, revIns, valid, counter>>
  BY DEF SendDelete, revs
<1>9. Places'
  <2>1. Partition(Values(freeList), Values(finQ'), IdsIn(delQ'), IdsIn(insQ), NewIn(updQ'),
                  NewIn(updRsp), Values(insRsp), IdsIn(revIns), valid, counter)
    BY <1>4, <1>5, <1>7 DEF Ledger, Places, Partition
  <2> QED
    BY <1>8, <2>1 DEF Places
<1>10. NoneTwice'
  BY <1>4, <1>5, <1>7, <1>8 DEF Ledger, NoneTwice
<1>11. UsedCount'
  BY <1>3, <1>7, <1>8 DEF Ledger, UsedCount, Types, UpdateTypes, Fifo
<1> QED
  BY <1>4, <1>5, <1>9, <1>10, <1>11 DEF Ledger

(* sessionIdManager refills the free list. *)
LEMMA LedgerRecycle ==
  ASSUME Types, Ledger, RecycleId
  PROVE  Ledger'
<1> DEFINE x == Head(finQ)
<1>1. finQ \in Seq(Ids) /\ finQ # <<>> /\ freeList \in Seq(Ids) /\ x \in Ids
  BY HeadIn DEF RecycleId, Types, UpdateTypes, Fifo
<1>2. finQ' = Tail(finQ) /\ freeList' = Append(freeList, x)
  BY DEF RecycleId
<1>3. /\ x \in Values(finQ) /\ Values(finQ') = Values(finQ) \ {x}
      /\ Once(finQ') /\ Len(finQ') = Len(finQ) - 1
  BY <1>1, <1>2, ValuesTail DEF Ledger, NoneTwice
<1>4. x \notin Values(freeList)
  BY <1>3 DEF Ledger, Places, Partition
<1>5. /\ Values(freeList') = Values(freeList) \cup {x} /\ Once(freeList')
      /\ Len(freeList') = Len(freeList) + 1
  BY <1>1, <1>2, <1>4, ValuesAppend DEF Ledger, NoneTwice
<1>6. UNCHANGED <<delQ, insQ, updQ, updRsp, insRsp, revIns, valid, counter, usedSessionIDs>>
  BY DEF RecycleId, update, revs
<1>7. Places'
  <2>1. Partition(Values(freeList'), Values(finQ'), IdsIn(delQ), IdsIn(insQ), NewIn(updQ),
                  NewIn(updRsp), Values(insRsp), IdsIn(revIns), valid, counter)
    BY <1>3, <1>5 DEF Ledger, Places, Partition
  <2> QED
    BY <1>6, <2>1 DEF Places
<1>8. NoneTwice'
  BY <1>3, <1>5, <1>6 DEF Ledger, NoneTwice
<1>9. UsedCount'
  BY <1>1, <1>3, <1>5, <1>6 DEF Ledger, UsedCount, Types, UpdateTypes, Fifo
<1> QED
  BY <1>7, <1>8, <1>9 DEF Ledger

LEMMA LedgerNew ==
  ASSUME Types, Ledger, NewId
  PROVE  Ledger'
<1>1. counter \in Ids /\ counter \in Nat /\ freeList \in Seq(Ids)
  BY ConstAssumption DEF NewId, Types, UpdateTypes, Ids
<1>2. counter' = counter + 1 /\ freeList' = Append(freeList, counter)
  BY DEF NewId
<1>3. counter \notin Values(freeList)
  BY <1>1 DEF Ledger, Places, Partition
<1>4. /\ Values(freeList') = Values(freeList) \cup {counter} /\ Once(freeList')
      /\ Len(freeList') = Len(freeList) + 1
  BY <1>1, <1>2, <1>3, ValuesAppend DEF Ledger, NoneTwice
<1>5. UNCHANGED <<finQ, delQ, insQ, updQ, updRsp, insRsp, revIns, valid, usedSessionIDs>>
  BY DEF NewId, update, revs
<1>6. Places'
  <2>1. counter \notin 0 .. counter - 1 /\ 0 .. counter' - 1 = (0 .. counter - 1) \cup {counter}
    BY <1>1, <1>2
  <2>2. Partition(Values(freeList'), Values(finQ), IdsIn(delQ), IdsIn(insQ), NewIn(updQ),
                  NewIn(updRsp), Values(insRsp), IdsIn(revIns), valid, counter')
    BY <1>4, <2>1 DEF Ledger, Places, Partition
  <2> QED
    BY <1>5, <2>2 DEF Places
<1>7. NoneTwice'
  BY <1>4, <1>5 DEF Ledger, NoneTwice
<1>8. UsedCount'
  BY <1>1, <1>2, <1>4, <1>5 DEF Ledger, UsedCount, Types, UpdateTypes, Fifo
<1> QED
  BY <1>6, <1>7, <1>8 DEF Ledger

(* Every step keeps the ledger. *)
LEMMA LedgerStep == Types /\ Ledger /\ [Next]_vars => Ledger'
<1> SUFFICES ASSUME Types, Ledger, [Next]_vars PROVE Ledger'
  OBVIOUS
<1>1. ASSUME UNCHANGED <<update, ids, revs>> PROVE Ledger'
  BY <1>1, LedgerFrame DEF idVars, update, ids, revs
<1>2. CASE UNCHANGED vars
  BY <1>1, <1>2 DEF vars
<1>3. CASE \/ \E p \in LowPorts : Listen(p)
           \/ \E p \in HighPorts : OfferPort(p)
           \/ \E peer \in Peers : AppOpen(peer)
           \/ \E seg \in Segments : Arrive(seg)
           \/ \E id \in Ids : TimerRelease(id)
  BY <1>1, <1>3 DEF Listen, OfferPort, AppOpen, Arrive, TimerRelease
<1>4. CASE PortTable \/ OpenAnswer
  BY <1>1, <1>4 DEF PortTable, CheckListening, ReleasePort, CheckUsed, OpenAnswer
<1>5. CASE MetaClosed \/ MetaOpen \/ MetaLookup \/ FsmSegment
  BY <1>1, <1>5 DEF MetaClosed, MetaOpen, MetaLookup, FsmSegment
<1>6. CASE RequestTx \/ RequestRx \/ Found \/ HashLookup
  BY <1>1, <1>6 DEF RequestTx, RequestRx, Found, HashLookup
<1> QED
  BY <1>2, <1>3, <1>4, <1>5, <1>6, LedgerCreate, LedgerSendInsert, LedgerHashUpdate,
     LedgerUpdateReply, LedgerInserted, LedgerRevInsert, LedgerRevRelease, LedgerSendDelete,
     LedgerRecycle, LedgerNew
  DEF Next, Controller, HashTable

(* At the start no ID has been issued. *)
LEMMA LedgerInit == Init => Ledger
<1> SUFFICES ASSUME Init PROVE Ledger
  OBVIOUS
<1>1. Values(<<>>) = {} /\ IdsIn(<<>>) = {} /\ NewIn(<<>>) = {}
  BY DEF Values, IdsIn, NewIn, Inserts
<1>2. Once(<<>>) /\ OnceId(<<>>) /\ OnceNew(<<>>)
  BY DEF Once, OnceId, OnceNew, Inserts
<1>3. Places
  <2>1. Partition({}, {}, {}, {}, {}, {}, {}, {}, {}, 0)
    BY DEF Partition
  <2> QED
    BY <1>1, <2>1 DEF Init, Places
<1>4. NoneTwice
  BY <1>2 DEF Init, NoneTwice
<1>5. UsedCount
  <2>1. usedSessionIDs = 0 /\ counter = 0
    BY DEF Init
  <2>2. Len(freeList) = 0 /\ Len(finQ) = 0 /\ Len(insQ) = 0
    BY DEF Init
  <2> QED
    BY <2>1, <2>2 DEF UsedCount
<1> QED
  BY <1>3, <1>4, <1>5 DEF Ledger

(* The place an entry is in. *)
At3(h, place, S) == h[1] = place /\ h[3] \in S
InPlace(h) ==
  \/ At3(h, "freeList", Values(freeList))
  \/ At3(h, "finQ", Values(finQ))
  \/ At3(h, "delQ", IdsIn(delQ))
  \/ At3(h, "insQ", IdsIn(insQ))
  \/ At3(h, "updQ", NewIn(updQ))
  \/ At3(h, "updRsp", NewIn(updRsp))
  \/ At3(h, "insRsp", Values(insRsp))
  \/ At3(h, "revIns", IdsIn(revIns))
  \/ At3(h, "valid", valid)
LEMMA HeldPlace == \A h \in Held : InPlace(h)
<1> SUFFICES ASSUME NEW h \in Held PROVE InPlace(h)
  OBVIOUS
<1>1. ASSUME NEW i \in DOMAIN freeList, h = <<"freeList", i, freeList[i]>> PROVE InPlace(h)
  BY <1>1 DEF InPlace, At3, Values
<1>2. ASSUME NEW i \in DOMAIN finQ, h = <<"finQ", i, finQ[i]>> PROVE InPlace(h)
  BY <1>2 DEF InPlace, At3, Values
<1>3. ASSUME NEW i \in DOMAIN delQ, h = <<"delQ", i, delQ[i].id>> PROVE InPlace(h)
  BY <1>3 DEF InPlace, At3, IdsIn
<1>4. ASSUME NEW i \in DOMAIN insQ, h = <<"insQ", i, insQ[i].id>> PROVE InPlace(h)
  BY <1>4 DEF InPlace, At3, IdsIn
<1>5. ASSUME NEW i \in Inserts(updQ), h = <<"updQ", i, updQ[i].id>> PROVE InPlace(h)
  BY <1>5 DEF InPlace, At3, NewIn
<1>6. ASSUME NEW i \in Inserts(updRsp), h = <<"updRsp", i, updRsp[i].id>> PROVE InPlace(h)
  BY <1>6 DEF InPlace, At3, NewIn
<1>7. ASSUME NEW i \in DOMAIN insRsp, h = <<"insRsp", i, insRsp[i]>> PROVE InPlace(h)
  BY <1>7 DEF InPlace, At3, Values
<1>8. ASSUME NEW i \in DOMAIN revIns, h = <<"revIns", i, revIns[i].id>> PROVE InPlace(h)
  BY <1>8 DEF InPlace, At3, IdsIn
<1>9. ASSUME NEW id \in valid, h = <<"valid", 0, id>> PROVE InPlace(h)
  BY <1>9 DEF InPlace, At3
<1> QED
  BY <1>1, <1>2, <1>3, <1>4, <1>5, <1>6, <1>7, <1>8, <1>9 DEF Held

(* The entries of one place, one by one. *)
LEMMA HeldOnce ==
  ASSUME NoneTwice, NEW g \in Held, NEW h \in Held, g[1] = h[1], g[3] = h[3]
  PROVE  g = h
<1>1. CASE h[1] = "freeList"
  <2>1. PICK i \in DOMAIN freeList : g = <<"freeList", i, freeList[i]>>
    BY <1>1 DEF Held
  <2>2. PICK j \in DOMAIN freeList : h = <<"freeList", j, freeList[j]>>
    BY <1>1 DEF Held
  <2> QED
    BY <2>1, <2>2 DEF NoneTwice, Once
<1>2. CASE h[1] = "finQ"
  <2>1. PICK i \in DOMAIN finQ : g = <<"finQ", i, finQ[i]>>
    BY <1>2 DEF Held
  <2>2. PICK j \in DOMAIN finQ : h = <<"finQ", j, finQ[j]>>
    BY <1>2 DEF Held
  <2> QED
    BY <2>1, <2>2 DEF NoneTwice, Once
<1>3. CASE h[1] = "delQ"
  <2>1. PICK i \in DOMAIN delQ : g = <<"delQ", i, delQ[i].id>>
    BY <1>3 DEF Held
  <2>2. PICK j \in DOMAIN delQ : h = <<"delQ", j, delQ[j].id>>
    BY <1>3 DEF Held
  <2> QED
    BY <2>1, <2>2 DEF NoneTwice, OnceId
<1>4. CASE h[1] = "insQ"
  <2>1. PICK i \in DOMAIN insQ : g = <<"insQ", i, insQ[i].id>>
    BY <1>4 DEF Held
  <2>2. PICK j \in DOMAIN insQ : h = <<"insQ", j, insQ[j].id>>
    BY <1>4 DEF Held
  <2> QED
    BY <2>1, <2>2 DEF NoneTwice, OnceId
<1>5. CASE h[1] = "updQ"
  <2>1. PICK i \in Inserts(updQ) : g = <<"updQ", i, updQ[i].id>>
    BY <1>5 DEF Held
  <2>2. PICK j \in Inserts(updQ) : h = <<"updQ", j, updQ[j].id>>
    BY <1>5 DEF Held
  <2> QED
    BY <2>1, <2>2 DEF NoneTwice, OnceNew
<1>6. CASE h[1] = "updRsp"
  <2>1. PICK i \in Inserts(updRsp) : g = <<"updRsp", i, updRsp[i].id>>
    BY <1>6 DEF Held
  <2>2. PICK j \in Inserts(updRsp) : h = <<"updRsp", j, updRsp[j].id>>
    BY <1>6 DEF Held
  <2> QED
    BY <2>1, <2>2 DEF NoneTwice, OnceNew
<1>7. CASE h[1] = "insRsp"
  <2>1. PICK i \in DOMAIN insRsp : g = <<"insRsp", i, insRsp[i]>>
    BY <1>7 DEF Held
  <2>2. PICK j \in DOMAIN insRsp : h = <<"insRsp", j, insRsp[j]>>
    BY <1>7 DEF Held
  <2> QED
    BY <2>1, <2>2 DEF NoneTwice, Once
<1>8. CASE h[1] = "revIns"
  <2>1. PICK i \in DOMAIN revIns : g = <<"revIns", i, revIns[i].id>>
    BY <1>8 DEF Held
  <2>2. PICK j \in DOMAIN revIns : h = <<"revIns", j, revIns[j].id>>
    BY <1>8 DEF Held
  <2> QED
    BY <2>1, <2>2 DEF NoneTwice, OnceId
<1>9. CASE h[1] = "valid"
  BY <1>9 DEF Held
<1> QED
  BY <1>1, <1>2, <1>3, <1>4, <1>5, <1>6, <1>7, <1>8, <1>9, HeldPlace DEF InPlace, At3

(* No ID is held twice: the places are disjoint. *)
LEMMA HeldUnique ==
  ASSUME Ledger, NEW g \in Held, NEW h \in Held, g[3] = h[3]
  PROVE  g = h
<1>1. InPlace(g) /\ InPlace(h)
  BY HeldPlace
<1>2. g[1] = h[1]
  BY <1>1 DEF InPlace, At3, Ledger, Places, Partition
<1> QED
  BY <1>2, HeldOnce DEF Ledger

(* Every issued ID is held, and no other. *)
LEMMA HeldIds ==
  ASSUME Ledger
  PROVE  {h[3] : h \in Held} = 0 .. counter - 1
<1>1. ASSUME NEW h \in Held PROVE h[3] \in 0 .. counter - 1
  <2>1. InPlace(h)
    BY HeldPlace
  <2> QED
    BY <2>1 DEF InPlace, At3, Ledger, Places, Partition
<1>2. ASSUME NEW id \in 0 .. counter - 1 PROVE \E h \in Held : h[3] = id
  <2>1. CASE id \in Values(freeList)
    <3>1. PICK i \in DOMAIN freeList : id = freeList[i]
      BY <2>1 DEF Values
    <3>2. <<"freeList", i, freeList[i]>> \in Held
      BY DEF Held
    <3> QED
      BY <3>1, <3>2
  <2>2. CASE id \in Values(finQ)
    <3>1. PICK i \in DOMAIN finQ : id = finQ[i]
      BY <2>2 DEF Values
    <3>2. <<"finQ", i, finQ[i]>> \in Held
      BY DEF Held
    <3> QED
      BY <3>1, <3>2
  <2>3. CASE id \in IdsIn(delQ)
    <3>1. PICK i \in DOMAIN delQ : id = delQ[i].id
      BY <2>3 DEF IdsIn
    <3>2. <<"delQ", i, delQ[i].id>> \in Held
      BY DEF Held
    <3> QED
      BY <3>1, <3>2
  <2>4. CASE id \in IdsIn(insQ)
    <3>1. PICK i \in DOMAIN insQ : id = insQ[i].id
      BY <2>4 DEF IdsIn
    <3>2. <<"insQ", i, insQ[i].id>> \in Held
      BY DEF Held
    <3> QED
      BY <3>1, <3>2
  <2>5. CASE id \in NewIn(updQ)
    <3>1. PICK i \in Inserts(updQ) : id = updQ[i].id
      BY <2>5 DEF NewIn
    <3>2. <<"updQ", i, updQ[i].id>> \in Held
      BY DEF Held
    <3> QED
      BY <3>1, <3>2
  <2>6. CASE id \in NewIn(updRsp)
    <3>1. PICK i \in Inserts(updRsp) : id = updRsp[i].id
      BY <2>6 DEF NewIn
    <3>2. <<"updRsp", i, updRsp[i].id>> \in Held
      BY DEF Held
    <3> QED
      BY <3>1, <3>2
  <2>7. CASE id \in Values(insRsp)
    <3>1. PICK i \in DOMAIN insRsp : id = insRsp[i]
      BY <2>7 DEF Values
    <3>2. <<"insRsp", i, insRsp[i]>> \in Held
      BY DEF Held
    <3> QED
      BY <3>1, <3>2
  <2>8. CASE id \in IdsIn(revIns)
    <3>1. PICK i \in DOMAIN revIns : id = revIns[i].id
      BY <2>8 DEF IdsIn
    <3>2. <<"revIns", i, revIns[i].id>> \in Held
      BY DEF Held
    <3> QED
      BY <3>1, <3>2
  <2>9. CASE id \in valid
    <3>1. <<"valid", 0, id>> \in Held
      BY <2>9 DEF Held
    <3> QED
      BY <3>1
  <2> QED
    BY <2>1, <2>2, <2>3, <2>4, <2>5, <2>6, <2>7, <2>8, <2>9 DEF Ledger, Places, Partition
<1> QED
  BY <1>1, <1>2

(* A queue of n different IDs, all below c, is no longer than c. *)
LEMMA IdsCounted ==
  ASSUME NEW c \in Nat, NEW n \in Nat, NEW f \in [1 .. n -> 0 .. c - 1],
         \A i, j \in 1 .. n : f[i] = f[j] => i = j
  PROVE  n <= c
<1>1. f \in Injection(1 .. n, 0 .. c - 1)
  BY DEF Injection, IsInjective
<1>2. IsFiniteSet(0 .. c - 1) /\ Cardinality(0 .. c - 1) = c
  BY FS_Interval
<1>3. Cardinality(1 .. n) = n
  BY FS_Interval
<1>4. Cardinality(1 .. n) <= Cardinality(0 .. c - 1)
  BY <1>1, <1>2, FS_Injection
<1> QED
  BY <1>2, <1>3, <1>4

(* The free, the returned and the requested IDs are different ones, so     *)
(* regSessionCount does not fall below zero.                               *)
LEMMA IdsBounded ==
  ASSUME Types, Ledger
  PROVE  Len(freeList) + Len(finQ) + Len(insQ) <= counter
<1> DEFINE a == Len(freeList)
           b == Len(finQ)
           n == a + b + Len(insQ)
           f == [i \in 1 .. n |-> IF i <= a THEN freeList[i]
                                  ELSE IF i <= a + b THEN finQ[i - a] ELSE insQ[i - a - b].id]
<1>1. /\ a \in Nat /\ b \in Nat /\ Len(insQ) \in Nat /\ counter \in Nat
      /\ DOMAIN freeList = 1 .. a /\ DOMAIN finQ = 1 .. b /\ DOMAIN insQ = 1 .. Len(insQ)
  BY ConstAssumption DEF Types, UpdateTypes, Fifo
<1>2. ASSUME NEW i \in 1 .. n
      PROVE  \/ i \in 1 .. a /\ f[i] = freeList[i] /\ f[i] \in Values(freeList)
             \/ i - a \in 1 .. b /\ f[i] = finQ[i - a] /\ f[i] \in Values(finQ)
             \/ /\ i - a - b \in 1 .. Len(insQ) /\ f[i] = insQ[i - a - b].id
                /\ f[i] \in IdsIn(insQ)
  <2>1. CASE i <= a
    BY <1>1, <2>1 DEF Values
  <2>2. CASE a < i /\ i <= a + b
    BY <1>1, <2>2, SMTT(40) DEF Values
  <2>3. CASE a + b < i
    BY <1>1, <2>3 DEF IdsIn
  <2> QED
    BY <1>1, <2>1, <2>2, <2>3
<1>3. f \in [1 .. n -> 0 .. counter - 1]
  <2>1. \A i \in 1 .. n : f[i] \in 0 .. counter - 1
    BY <1>2 DEF Ledger, Places, Partition
  <2> QED
    BY <2>1
<1> HIDE DEF f
<1>4. ASSUME NEW i \in 1 .. n, NEW j \in 1 .. n, f[i] = f[j]
      PROVE  i = j
  <2> Values(freeList) \cap Values(finQ) = {} /\ Values(freeList) \cap IdsIn(insQ) = {}
      /\ Values(finQ) \cap IdsIn(insQ) = {}
    BY DEF Ledger, Places, Partition
  <2>1. CASE f[i] \in Values(freeList)
    BY <1>1, <1>2, <1>4, <2>1 DEF Ledger, NoneTwice, Once
  <2>2. CASE f[i] \in Values(finQ)
    <3>1. i - a \in 1 .. b /\ j - a \in 1 .. b /\ finQ[i - a] = finQ[j - a]
      BY <1>2, <1>4, <2>2
    <3> QED
      BY <1>1, <3>1 DEF Ledger, NoneTwice, Once
  <2>3. CASE f[i] \in IdsIn(insQ)
    <3>1. /\ i - a - b \in 1 .. Len(insQ) /\ j - a - b \in 1 .. Len(insQ)
          /\ insQ[i - a - b].id = insQ[j - a - b].id
      BY <1>2, <1>4, <2>3
    <3>2. i - a - b = j - a - b
      BY <1>1, <3>1 DEF Ledger, NoneTwice, OnceId
    <3> QED
      BY <1>1, <3>2
  <2> QED
    BY <1>2, <2>1, <2>2, <2>3
<1>5. n \in Nat
  BY <1>1
<1> HIDE DEF n
<1>6. n <= counter
  BY <1>1, <1>3, <1>4, <1>5, IdsCounted
<1> QED
  BY <1>6 DEF n

(* The ledger says where each ID is and what regSessionCount shows. *)
LEMMA LedgerConserves == Types /\ Ledger => IdsConserved /\ TypeOK
<1> SUFFICES ASSUME Types, Ledger PROVE IdsConserved /\ TypeOK
  OBVIOUS
<1>1. IdsConserved
  BY HeldIds, HeldUnique DEF IdsConserved, Ledger, UsedCount
<1>2. /\ Len(freeList) \in Nat /\ Len(finQ) \in Nat /\ Len(insQ) \in Nat
      /\ counter \in 0 .. MaxSessions /\ MaxSessions \in Nat
  BY ConstAssumption DEF Types, UpdateTypes, Fifo
<1>3. Len(freeList) <= MaxSessions /\ usedSessionIDs \in 0 .. MaxSessions
  BY <1>2, IdsBounded DEF Ledger, UsedCount
<1> QED
  BY <1>1, <1>3 DEF Types, TypeOK

(* Type correctness of the session lookup controller and its neighbours: *)
(* no FIFO overflows, the free list holds at most MAX_SESSIONS IDs and   *)
(* regSessionCount stays within 0 and MAX_SESSIONS.                      *)
THEOREM TypeCorrect == Spec => []TypeOK
<1>1. Init => Types /\ Ledger
  BY TypesInit, LedgerInit
<1>2. Types /\ Ledger /\ [Next]_vars => Types' /\ Ledger'
  BY TypesStep, LedgerStep
<1> QED
  BY <1>1, <1>2, LedgerConserves, PTL DEF Spec

(* sessionIdManager, updateRequestSender, the hash table and the reverse   *)
(* table lose no session ID and hand none out twice.                       *)
THEOREM IdsCorrect == Spec => []IdsConserved
<1>1. Init => Types /\ Ledger
  BY TypesInit, LedgerInit
<1>2. Types /\ Ledger /\ [Next]_vars => Types' /\ Ledger'
  BY TypesStep, LedgerStep
<1> QED
  BY <1>1, <1>2, LedgerConserves, PTL DEF Spec

-----------------------------------------------------------------------------
(* The hash table.  At most one insert is under way, for the query that    *)
(* lookupReplyHandler is at; a delete never follows, in the hash table's   *)
(* queue, an insert of the same ID; and an entry has its owner.            *)
UnderWay == IdsIn(insQ) \cup NewIn(updQ) \cup NewIn(updRsp) \cup Values(insRsp)
OneInsert == /\ \A x, y \in UnderWay : x = y
             /\ UnderWay # {} => At("inserting")
SameTuple == /\ \A i \in DOMAIN insQ : insQ[i].tuple = slc[1].tuple
             /\ \A i \in Inserts(updQ) : updQ[i].tuple = slc[1].tuple
DeletesFirst == \A i, j \in DOMAIN updQ :
                  i < j /\ updQ[i].op = "INSERT" /\ updQ[j].op = "DELETE"
                    => updQ[i].id # updQ[j].id
Owner(t, id) == \/ id \in valid /\ rev[id] = t
                \/ \E i \in DOMAIN revIns : revIns[i] = [id |-> id, tuple |-> t]
                \/ At("inserting") /\ slc[1].tuple = t /\ id \in NewIn(updRsp) \cup Values(insRsp)
OneTuple == \A t, u \in Tuples : table[t] # None /\ table[t] = table[u] => t = u
Owned == \A t \in Tuples : table[t] # None => Owner(t, table[t]) \/ Deletes(t, table[t])
TableInv == OneInsert /\ SameTuple /\ DeletesFirst /\ OneTuple /\ Owned
Inv == Types /\ Ledger /\ TableInv

(* What a FIFO holds before its first entry is taken. *)
LEMMA ValuesHead ==
  ASSUME NEW S, NEW q \in Seq(S), q # <<>>
  PROVE  Values(q) = Values(Tail(q)) \cup {Head(q)}
<1> DEFINE r == Tail(q)
           n == Len(q)
<1>1. /\ n \in Nat \ {0} /\ DOMAIN q = 1 .. n /\ DOMAIN r = 1 .. n - 1
      /\ \A i \in 1 .. n - 1 : r[i] = q[i + 1]
      /\ Head(q) = q[1]
  BY TailAt
<1> HIDE DEF r, n
<1>2. ASSUME NEW i \in 1 .. n, i # 1 PROVE q[i] \in Values(r)
  <2>1. i - 1 \in 1 .. n - 1 /\ q[i] = r[i - 1]
    BY <1>1, <1>2
  <2> QED
    BY <1>1, <2>1 DEF Values
<1>3. ASSUME NEW i \in 1 .. n - 1 PROVE r[i] \in Values(q)
  <2>1. i + 1 \in 1 .. n /\ r[i] = q[i + 1]
    BY <1>1
  <2> QED
    BY <1>1, <2>1 DEF Values
<1>4. Head(q) \in Values(q)
  BY <1>1 DEF Values
<1>5. Values(r) \subseteq Values(q)
  BY <1>1, <1>3 DEF Values
<1>6. Values(q) \subseteq Values(r) \cup {Head(q)}
  BY <1>1, <1>2 DEF Values
<1> QED
  BY <1>4, <1>5, <1>6 DEF r

(* An entry's owner and its delete, by what the FIFOs hold. *)
Delete(t, id) == [op |-> "DELETE", tuple |-> t, id |-> id]
LEMMA DeletesIn == \A t, id : Deletes(t, id) <=> Delete(t, id) \in Values(delQ) \cup Values(updQ)
  BY DEF Deletes, Delete, Values
LEMMA OwnerIn ==
  \A t, id : Owner(t, id) <=>
    \/ id \in valid /\ rev[id] = t
    \/ [id |-> id, tuple |-> t] \in Values(revIns)
    \/ At("inserting") /\ slc[1].tuple = t /\ id \in NewIn(updRsp) \cup Values(insRsp)
  BY DEF Owner, Values

(* The same facts after a step. *)
LEMMA DeletesInNext ==
  \A t, id : Deletes(t, id)' <=> Delete(t, id) \in Values(delQ') \cup Values(updQ')
  BY DEF Deletes, Delete, Values
LEMMA OwnerInNext ==
  \A t, id : Owner(t, id)' <=>
    \/ id \in valid' /\ rev'[id] = t
    \/ [id |-> id, tuple |-> t] \in Values(revIns')
    \/ At("inserting")' /\ slc'[1].tuple = t /\ id \in NewIn(updRsp') \cup Values(insRsp')
  BY DEF Owner, Values, NewIn, Inserts

LEMMA OwnedNext ==
  ASSUME \A t \in Tuples : \A id : id = table'[t] /\ id # None => Owner(t, id)' \/ Deletes(t, id)'
  PROVE  Owned'
  BY DEF Owned, Owner, Deletes, At

(* What keeps the invariant: its variables are left alone. *)
LEMMA EntriesFrame ==
  ASSUME TableInv, UNCHANGED <<slc, table, update, revs>>
  PROVE  TableInv'
<1> USE DEF TableInv, update, revs, At
<1>1. OneInsert'
  <2>1. UnderWay' = UnderWay
    BY DEF UnderWay, IdsIn, NewIn, Values, Inserts
  <2> QED
    BY <2>1 DEF OneInsert
<1>2. SameTuple' /\ DeletesFirst' /\ OneTuple'
  BY DEF SameTuple, Inserts, DeletesFirst, OneTuple
<1>3. Owned'
  BY DEF Owned, Owner, Deletes, NewIn, Values, Inserts
<1> QED
  BY <1>1, <1>2, <1>3

(* Nothing is under way while lookupReplyHandler waits for no insert. *)
LEMMA NothingUnderWay ==
  ASSUME TableInv, ~At("inserting")
  PROVE  UnderWay = {} /\ DOMAIN insQ = {} /\ Inserts(updQ) = {}
  BY DEF TableInv, OneInsert, UnderWay, IdsIn, NewIn

(* A query comes, is looked up and is answered without an insert. *)
LEMMA QueryStep ==
  ASSUME TableInv, ~At("inserting"), ~At("inserting")', UNCHANGED <<table, update, revs>>
  PROVE  TableInv'
<1>1. UnderWay' = {} /\ DOMAIN insQ' = {} /\ Inserts(updQ') = {}
  BY NothingUnderWay DEF UnderWay, IdsIn, NewIn, Values, Inserts, update
<1>2. OneInsert' /\ SameTuple'
  BY <1>1 DEF OneInsert, SameTuple
<1>3. DeletesFirst' /\ OneTuple'
  BY DEF TableInv, DeletesFirst, OneTuple, update
<1>4. Owned'
  BY DEF TableInv, Owned, Owner, Deletes, update, revs
<1> QED
  BY <1>2, <1>3, <1>4 DEF TableInv

(* The insert of a new session is asked for. *)
LEMMA EntriesCreate ==
  ASSUME Types, Ledger, TableInv, Create
  PROVE  TableInv'
<1> DEFINE r == [op |-> "INSERT", tuple |-> slc[1].tuple, id |-> Head(freeList)]
<1>1. UnderWay = {} /\ DOMAIN insQ = {} /\ Inserts(updQ) = {}
  BY NothingUnderWay DEF Create, At
<1>2. UNCHANGED <<table, delQ, updQ, updRsp, insRsp, revIns, rev, valid>>
  BY DEF Create, revs
<1>3. slc' # <<>> /\ slc'[1].tuple = slc[1].tuple /\ slc'[1].at = "inserting"
  <2>1. slc[1] \in Query
    BY SingleValue DEF Create, At, Types, TableTypes
  <2> QED
    BY <2>1 DEF Create, Query
<1>4. OneInsert'
  <2>1. UnderWay' = IdsIn(insQ') \cup NewIn(updQ) \cup NewIn(updRsp) \cup Values(insRsp)
    BY <1>2 DEF UnderWay
  <2>2. UnderWay' = {Head(freeList)}
    BY <1>1, <2>1, LedgerCreate DEF UnderWay
  <2> QED
    BY <1>3, <2>2 DEF OneInsert, At
<1>5. SameTuple'
  <2>1. insQ \in Seq(Request({"INSERT"})) /\ insQ' = Append(insQ, r)
    BY DEF Create, Types, UpdateTypes, Fifo
  <2>2. insQ = <<>>
    BY <1>1, <2>1
  <2>3. \A i \in DOMAIN insQ' : insQ'[i] = r
    BY <2>1, <2>2
  <2>4. Inserts(updQ') = {}
    BY <1>1, <1>2 DEF Inserts
  <2> QED
    BY <1>3, <2>3, <2>4 DEF SameTuple
<1>6. DeletesFirst' /\ OneTuple'
  BY <1>2 DEF TableInv, DeletesFirst, OneTuple
<1>7. Owned'
  <2>1. \A t, id : Owner(t, id) => Owner(t, id)'
    BY <1>2, OwnerIn, OwnerInNext DEF Create, At
  <2> QED
    BY <1>2, <2>1, DeletesIn, DeletesInNext DEF TableInv, Owned
<1> QED
  BY <1>4, <1>5, <1>6, <1>7 DEF TableInv

(* The insert is sent to the hash table. *)
LEMMA EntriesSendInsert ==
  ASSUME Types, Ledger, TableInv, SendInsert
  PROVE  TableInv'
<1> DEFINE r == Head(insQ)
           n == Len(updQ)
<1>1. /\ insQ \in Seq(Request({"INSERT"})) /\ insQ # <<>>
      /\ updQ \in Seq(Request({"INSERT", "DELETE"}))
      /\ r \in Request({"INSERT", "DELETE"}) /\ r.op = "INSERT"
  <2>1. insQ \in Seq(Request({"INSERT"})) /\ insQ # <<>> /\ updQ \in Seq(Request({"INSERT", "DELETE"}))
    BY DEF SendInsert, Types, UpdateTypes, Fifo
  <2>2. r \in Request({"INSERT"})
    BY <2>1, HeadIn
  <2> QED
    BY <2>1, <2>2 DEF Request
<1>2. insQ' = Tail(insQ) /\ updQ' = Append(updQ, r)
  BY DEF SendInsert
<1>3. UNCHANGED <<slc, table, delQ, updRsp, insRsp, revIns, rev, valid>>
  BY DEF SendInsert, revs
<1>4. OneInsert'
  <2>1. UnderWay' = UnderWay
    BY <1>3, LedgerSendInsert DEF UnderWay
  <2> QED
    BY <1>3, <2>1 DEF TableInv, OneInsert, At
<1>5. /\ n \in Nat /\ DOMAIN updQ = 1 .. n /\ DOMAIN updQ' = 1 .. n + 1
      /\ \A i \in 1 .. n : updQ'[i] = updQ[i]
      /\ updQ'[n + 1] = r
  BY <1>1, <1>2, AppendAt
<1>6. /\ Len(insQ) \in Nat \ {0} /\ DOMAIN insQ = 1 .. Len(insQ) /\ DOMAIN insQ' = 1 .. Len(insQ) - 1
      /\ \A i \in 1 .. Len(insQ) - 1 : insQ'[i] = insQ[i + 1]
      /\ r = insQ[1]
  BY <1>1, <1>2, TailAt
<1>7. SameTuple'
  <2>1. ASSUME NEW i \in DOMAIN insQ' PROVE insQ'[i].tuple = slc[1].tuple
    <3>1. i + 1 \in DOMAIN insQ /\ insQ'[i] = insQ[i + 1]
      BY <1>6
    <3> QED
      BY <3>1 DEF TableInv, SameTuple
  <2>2. r.tuple = slc[1].tuple
    BY <1>6 DEF TableInv, SameTuple
  <2>3. \A i \in Inserts(updQ') : updQ'[i].tuple = slc[1].tuple
    BY <1>5, <2>2 DEF TableInv, SameTuple, Inserts
  <2> QED
    BY <1>3, <2>1, <2>3 DEF SameTuple
<1>8. DeletesFirst'
  BY <1>1, <1>5 DEF TableInv, DeletesFirst
<1>9. OneTuple'
  BY <1>3 DEF TableInv, OneTuple
<1>10. Owned'
  <2>1. \A t, id : Owner(t, id) => Owner(t, id)'
    BY <1>3, OwnerIn, OwnerInNext DEF At
  <2>2. Values(updQ) \subseteq Values(updQ')
    BY <1>5 DEF Values
  <2> QED
    BY <1>3, <2>1, <2>2, DeletesIn, DeletesInNext DEF TableInv, Owned
<1> QED
  BY <1>4, <1>7, <1>8, <1>9, <1>10 DEF TableInv

(* A delete is sent to the hash table. *)
LEMMA EntriesSendDelete ==
  ASSUME Types, Ledger, TableInv, SendDelete
  PROVE  TableInv'
<1> DEFINE r == Head(delQ)
           n == Len(updQ)
<1>1. /\ delQ \in Seq(Request({"DELETE"})) /\ delQ # <<>>
      /\ updQ \in Seq(Request({"INSERT", "DELETE"}))
      /\ r \in Request({"INSERT", "DELETE"}) /\ r.op = "DELETE"
  <2>1. delQ \in Seq(Request({"DELETE"})) /\ delQ # <<>> /\ updQ \in Seq(Request({"INSERT", "DELETE"}))
    BY DEF SendDelete, Types, UpdateTypes, Fifo
  <2>2. r \in Request({"DELETE"})
    BY <2>1, HeadIn
  <2> QED
    BY <2>1, <2>2 DEF Request
<1>2. delQ' = Tail(delQ) /\ updQ' = Append(updQ, r)
  BY DEF SendDelete
<1>3. UNCHANGED <<slc, table, insQ, updRsp, insRsp, revIns, rev, valid>>
  BY DEF SendDelete, revs
<1>4. OneInsert'
  <2>1. UnderWay' = UnderWay
    BY <1>3, LedgerSendDelete DEF UnderWay
  <2> QED
    BY <1>3, <2>1 DEF TableInv, OneInsert, At
<1>5. /\ n \in Nat /\ DOMAIN updQ = 1 .. n /\ DOMAIN updQ' = 1 .. n + 1
      /\ \A i \in 1 .. n : updQ'[i] = updQ[i]
      /\ updQ'[n + 1] = r
  BY <1>1, <1>2, AppendAt
<1>6. SameTuple'
  <2>1. \A i \in Inserts(updQ') : updQ'[i].tuple = slc[1].tuple
    BY <1>1, <1>5 DEF TableInv, SameTuple, Inserts
  <2> QED
    BY <1>3, <2>1 DEF TableInv, SameTuple
<1>7. DeletesFirst'
  <2>1. r.id \notin NewIn(updQ)
    BY LedgerSendDelete DEF Ledger, Places, Partition
  <2>2. \A i \in 1 .. n : updQ[i].op = "INSERT" => updQ[i].id # r.id
    BY <1>5, <2>1 DEF NewIn, Inserts
  <2> QED
    BY <1>1, <1>5, <2>2 DEF TableInv, DeletesFirst
<1>8. OneTuple'
  BY <1>3 DEF TableInv, OneTuple
<1>9. Owned'
  <2>1. \A t, id : Owner(t, id) => Owner(t, id)'
    BY <1>3, OwnerIn, OwnerInNext DEF At
  <2>2. Values(updQ') = Values(updQ) \cup {r} /\ Values(delQ) = Values(delQ') \cup {r}
    BY <1>1, <1>2, ValuesAppend, ValuesHead
  <2> QED
    BY <1>3, <2>1, <2>2, DeletesIn, DeletesInNext DEF TableInv, Owned
<1> QED
  BY <1>4, <1>6, <1>7, <1>8, <1>9 DEF TableInv

(* The hash table's queue without its first request. *)
LEMMA UpdQTail ==
  ASSUME Types, TableInv, updQ # <<>>, updQ' = Tail(updQ), UNCHANGED <<slc, insQ>>
  PROVE  SameTuple' /\ DeletesFirst'
<1> DEFINE n == Len(updQ)
<1>1. /\ n \in Nat \ {0} /\ DOMAIN updQ = 1 .. n /\ DOMAIN updQ' = 1 .. n - 1
      /\ \A i \in 1 .. n - 1 : updQ'[i] = updQ[i + 1]
  BY TailAt DEF Types, UpdateTypes, Fifo
<1>2. ASSUME NEW i \in 1 .. n - 1 PROVE i + 1 \in 1 .. n
  BY <1>1
<1>3. SameTuple'
  BY <1>1, <1>2 DEF TableInv, SameTuple, Inserts
<1>4. DeletesFirst'
  <2> SUFFICES ASSUME NEW i \in 1 .. n - 1, NEW j \in 1 .. n - 1, i < j,
                      updQ'[i].op = "INSERT", updQ'[j].op = "DELETE"
               PROVE  updQ'[i].id # updQ'[j].id
    BY <1>1 DEF DeletesFirst
  <2>1. i + 1 \in 1 .. n /\ j + 1 \in 1 .. n /\ i + 1 < j + 1
    BY <1>1
  <2> QED
    BY <1>1, <2>1 DEF TableInv, DeletesFirst
<1> QED
  BY <1>3, <1>4

(* When an insert is served, no other tuple has an entry for its ID: the   *)
(* old entry's delete has been served before.                              *)
LEMMA InsertFresh ==
  ASSUME Types, Ledger, TableInv, updQ # <<>>, Head(updQ).op = "INSERT"
  PROVE  /\ At("inserting") /\ Head(updQ).tuple = slc[1].tuple
         /\ \A t \in Tuples : table[t] = Head(updQ).id => t = Head(updQ).tuple
<1> DEFINE q == Head(updQ)
           n == Len(updQ)
<1>1. n \in Nat \ {0} /\ DOMAIN updQ = 1 .. n /\ q = updQ[1] /\ q \in Request({"INSERT", "DELETE"})
  BY TailAt, HeadIn DEF Types, UpdateTypes, Fifo
<1>2. 1 \in Inserts(updQ) /\ q.id \in NewIn(updQ)
  BY <1>1 DEF Inserts, NewIn
<1>3. At("inserting") /\ q.tuple = slc[1].tuple
  BY <1>1, <1>2 DEF TableInv, OneInsert, UnderWay, SameTuple
<1>4. /\ q.id \notin valid /\ q.id \notin IdsIn(revIns) /\ q.id \notin IdsIn(delQ)
      /\ q.id # None
  <2>1. q.id # None
    BY <1>1, ConstAssumption DEF Request
  <2> QED
    BY <1>2, <2>1 DEF Ledger, Places, Partition
<1>5. ASSUME NEW t \in Tuples, table[t] = q.id PROVE t = q.tuple
  <2>1. CASE Owner(t, q.id)
    <3>1. [id |-> q.id, tuple |-> t] \notin Values(revIns)
      BY <1>4 DEF Values, IdsIn
    <3> QED
      BY <1>3, <1>4, <2>1, <3>1, OwnerIn
  <2>2. CASE Deletes(t, q.id)
    <3>1. Delete(t, q.id) \notin Values(delQ)
      BY <1>4 DEF Values, IdsIn, Delete
    <3>2. PICK j \in 1 .. n : updQ[j] = Delete(t, q.id)
      BY <1>1, <2>2, <3>1, DeletesIn DEF Values
    <3>3. updQ[j].op = "DELETE" /\ updQ[j].id = q.id
      BY <3>2 DEF Delete
    <3>4. 1 \in 1 .. n /\ 1 < j
      BY <1>1, <3>3
    <3> QED
      BY <1>1, <3>3, <3>4 DEF TableInv, DeletesFirst
  <2> QED
    BY <1>4, <1>5, <2>1, <2>2 DEF TableInv, Owned
<1> QED
  BY <1>3, <1>5

(* The hash table serves a request. *)
LEMMA EntriesHashUpdate ==
  ASSUME Types, Ledger, TableInv, HashUpdate
  PROVE  TableInv'
<1> DEFINE q == Head(updQ)
<1>1. /\ updQ # <<>> /\ updQ \in Seq(Request({"INSERT", "DELETE"}))
      /\ q \in Request({"INSERT", "DELETE"}) /\ updQ' = Tail(updQ)
  BY HeadIn DEF HashUpdate, Types, UpdateTypes, Fifo
<1>2. UNCHANGED <<slc, insQ, delQ, insRsp, revIns, rev, valid>>
  BY DEF HashUpdate, revs
<1>3. SameTuple' /\ DeletesFirst'
  BY <1>1, <1>2, UpdQTail
<1>4. Values(updQ) = Values(updQ') \cup {q}
  BY <1>1, ValuesHead
<1>5. q.tuple \in Tuples /\ q.id \in Ids /\ q.id # None
  BY <1>1, ConstAssumption DEF Request
<1>6. CASE q.op = "INSERT"
  <2>1. /\ At("inserting") /\ q.tuple = slc[1].tuple
        /\ \A t \in Tuples : table[t] = q.id => t = q.tuple
    BY <1>1, <1>6, InsertFresh
  <2>2. /\ q.id \in NewIn(updQ) /\ NewIn(updQ') = NewIn(updQ) \ {q.id}
        /\ NewIn(updRsp') = NewIn(updRsp) \cup {q.id}
    BY <1>6, LedgerHashUpdate
  <2>3. OneInsert'
    <3>1. UnderWay' = UnderWay
      BY <1>2, <2>2 DEF UnderWay
    <3> QED
      BY <1>2, <3>1 DEF TableInv, OneInsert, At
  <2>4. ASSUME NEW t \in Tuples, table'[t] # None
        PROVE  \/ t = q.tuple /\ table'[t] = q.id
               \/ t # q.tuple /\ table'[t] = table[t]
    <3>1. table' \in AfterInsert(q)
      BY <1>6 DEF HashUpdate
    <3> QED
      BY <1>5, <2>4, <3>1 DEF AfterInsert, Types, TableTypes
  <2>5. OneTuple'
    BY <2>1, <2>4 DEF TableInv, OneTuple
  <2>6. Owned'
    <3> SUFFICES ASSUME NEW t \in Tuples, NEW id, id = table'[t], id # None
                 PROVE  Owner(t, id)' \/ Deletes(t, id)'
      BY OwnedNext
    <3>1. CASE t = q.tuple /\ table'[t] = q.id
      BY <1>2, <2>1, <2>2, <3>1, OwnerInNext DEF At
    <3>2. CASE t # q.tuple /\ table'[t] = table[t]
      <4>1. CASE Owner(t, table[t])
        BY <1>2, <2>2, <3>2, <4>1, OwnerIn, OwnerInNext DEF At
      <4>2. CASE Deletes(t, table[t])
        <5>1. Delete(t, table[t]) # q
          BY <1>6 DEF Delete
        <5> QED
          BY <1>2, <1>4, <3>2, <4>2, <5>1, DeletesIn, DeletesInNext
      <4> QED
        BY <3>2, <4>1, <4>2 DEF TableInv, Owned
    <3> QED
      BY <2>4, <3>1, <3>2
  <2> QED
    BY <1>3, <2>3, <2>5, <2>6 DEF TableInv
<1>7. CASE q.op # "INSERT"
  <2>1. NewIn(updQ') = NewIn(updQ) /\ NewIn(updRsp') = NewIn(updRsp)
    BY <1>7, LedgerHashUpdate
  <2>2. OneInsert'
    <3>1. UnderWay' = UnderWay
      BY <1>2, <2>1 DEF UnderWay
    <3> QED
      BY <1>2, <3>1 DEF TableInv, OneInsert, At
  <2>3. ASSUME NEW t \in Tuples, table'[t] # None
        PROVE  t # q.tuple /\ table'[t] = table[t]
    BY <1>5, <1>7, <2>3 DEF HashUpdate, Types, TableTypes
  <2>4. OneTuple'
    BY <2>3 DEF TableInv, OneTuple
  <2>5. Owned'
    <3> SUFFICES ASSUME NEW t \in Tuples, NEW id, id = table'[t], id # None
                 PROVE  Owner(t, id)' \/ Deletes(t, id)'
      BY OwnedNext
    <3>1. t # q.tuple /\ table'[t] = table[t]
      BY <2>3
    <3>2. CASE Owner(t, table[t])
      BY <1>2, <2>1, <3>1, <3>2, OwnerIn, OwnerInNext DEF At
    <3>3. CASE Deletes(t, table[t])
      <4>1. Delete(t, table[t]) # q
        BY <3>1 DEF Delete
      <4> QED
        BY <1>2, <1>4, <3>1, <3>3, <4>1, DeletesIn, DeletesInNext
    <3> QED
      BY <3>1, <3>2, <3>3 DEF TableInv, Owned
  <2> QED
    BY <1>3, <2>2, <2>4, <2>5 DEF TableInv
<1> QED
  BY <1>6, <1>7

(* The answer of an insert is passed on. *)
LEMMA EntriesUpdateReply ==
  ASSUME Types, Ledger, TableInv, UpdateReply
  PROVE  TableInv'
<1>1. UNCHANGED <<slc, table, insQ, delQ, updQ, revIns, rev, valid>>
  BY DEF UpdateReply, revs
<1>2. NewIn(updRsp') \cup Values(insRsp') = NewIn(updRsp) \cup Values(insRsp)
  BY LedgerUpdateReply
<1>3. OneInsert'
  <2>1. UnderWay' = UnderWay
    <3>1. IdsIn(insQ') = IdsIn(insQ) /\ NewIn(updQ') = NewIn(updQ)
      BY <1>1
    <3> QED
      BY <1>2, <3>1 DEF UnderWay
  <2> QED
    BY <1>1, <2>1 DEF TableInv, OneInsert, At
<1>4. SameTuple' /\ DeletesFirst' /\ OneTuple'
  BY <1>1 DEF TableInv, SameTuple, DeletesFirst, OneTuple, Inserts
<1>5. Owned'
  <2>1. \A t, id : Owner(t, id) => Owner(t, id)'
    BY <1>1, <1>2, OwnerIn, OwnerInNext DEF At
  <2>2. \A t, id : Deletes(t, id) => Deletes(t, id)'
    BY <1>1, DeletesIn, DeletesInNext
  <2> QED
    BY <1>1, <2>1, <2>2, OwnedNext DEF TableInv, Owned
<1> QED
  BY <1>3, <1>4, <1>5 DEF TableInv

(* lookupReplyHandler has its insert and goes on. *)
LEMMA EntriesInserted ==
  ASSUME Types, Ledger, TableInv, Inserted
  PROVE  TableInv'
<1> DEFINE x == Head(insRsp)
           r == [id |-> x, tuple |-> slc[1].tuple]
<1>1. UNCHANGED <<table, insQ, delQ, updQ, updRsp, rev, valid>> /\ slc' = <<>>
  BY DEF Inserted
<1>2. x \in Values(insRsp) /\ Values(insRsp') = Values(insRsp) \ {x}
  BY LedgerInserted
<1>3. \A y \in UnderWay : y = x
  BY <1>2 DEF TableInv, OneInsert, UnderWay
<1>4. Values(insRsp') = {} /\ IdsIn(insQ) = {} /\ NewIn(updQ) = {} /\ NewIn(updRsp) = {}
  BY <1>2, <1>3 DEF UnderWay, Ledger, Places, Partition
<1>5. OneInsert'
  <2>1. UnderWay' = {}
    BY <1>1, <1>4 DEF UnderWay
  <2> QED
    BY <2>1 DEF OneInsert
<1>6. SameTuple'
  <2>1. DOMAIN insQ = {} /\ Inserts(updQ) = {}
    BY <1>4 DEF IdsIn, NewIn
  <2> QED
    BY <1>1, <2>1 DEF SameTuple, Inserts
<1>7. DeletesFirst' /\ OneTuple'
  BY <1>1 DEF TableInv, DeletesFirst, OneTuple
<1>8. Values(revIns') = Values(revIns) \cup {r}
  <2>1. revIns \in Seq(RevEntry) /\ revIns' = Append(revIns, r)
    BY DEF Inserted, Types, TableTypes, Fifo
  <2>2. r \in RevEntry
    <3>1. slc[1] \in Query
      BY SingleValue DEF Inserted, At, Types, TableTypes
    <3>2. x \in Ids
      BY FifoTail DEF Inserted, Types, UpdateTypes
    <3> QED
      BY <3>1, <3>2 DEF Query, RevEntry
  <2> HIDE DEF r
  <2> QED
    BY <2>1, <2>2, ValuesAppend
<1>9. Owned'
  <2>1. ASSUME NEW t, NEW id, Owner(t, id) PROVE Owner(t, id)'
    <3>1. CASE id \in NewIn(updRsp) \cup Values(insRsp) /\ slc[1].tuple = t
      <4>1. id = x
        BY <1>3, <3>1 DEF UnderWay
      <4>2. r = [id |-> id, tuple |-> t]
        BY <3>1, <4>1
      <4> QED
        BY <1>8, <4>2, OwnerInNext
    <3>2. CASE id \in valid /\ rev[id] = t
      BY <1>1, <3>2, OwnerInNext
    <3>3. CASE [id |-> id, tuple |-> t] \in Values(revIns)
      BY <1>8, <3>3, OwnerInNext
    <3> QED
      BY <2>1, <3>1, <3>2, <3>3, OwnerIn
  <2>2. \A t, id : Deletes(t, id) => Deletes(t, id)'
    BY <1>1, DeletesIn, DeletesInNext
  <2> QED
    BY <1>1, <2>1, <2>2, OwnedNext DEF TableInv, Owned
<1> QED
  BY <1>5, <1>6, <1>7, <1>9 DEF TableInv

(* The reverse table takes over. *)
LEMMA EntriesRevInsert ==
  ASSUME Types, Ledger, TableInv, RevInsert
  PROVE  TableInv'
<1> DEFINE r == Head(revIns)
<1>1. /\ revIns \in Seq(RevEntry) /\ revIns # <<>> /\ r \in RevEntry
      /\ revIns' = Tail(revIns) /\ valid' = valid \cup {r.id}
      /\ rev' = [rev EXCEPT ![r.id] = r.tuple]
  BY HeadIn DEF RevInsert, Types, TableTypes, Fifo
<1>2. UNCHANGED <<slc, table, insQ, delQ, updQ, updRsp, insRsp>>
  BY DEF RevInsert, update
<1>3. OneInsert'
  <2>1. UnderWay' = UnderWay
    BY <1>2 DEF UnderWay
  <2> QED
    BY <1>2, <2>1 DEF TableInv, OneInsert, At
<1>4. SameTuple' /\ DeletesFirst' /\ OneTuple'
  BY <1>2 DEF TableInv, SameTuple, DeletesFirst, OneTuple, Inserts
<1>5. r.id \in IdsIn(revIns) /\ r.id \in Ids /\ r.id \notin valid
  <2>1. r.id \in IdsIn(revIns)
    BY <1>1, IdsTail DEF Ledger, NoneTwice
  <2> QED
    BY <1>1, <2>1 DEF Ledger, Places, Partition, RevEntry
<1>6. rev'[r.id] = r.tuple /\ \A id \in valid : rev'[id] = rev[id]
  BY <1>1, <1>5 DEF Types, TableTypes
<1>7. Values(revIns) = Values(revIns') \cup {r}
  BY <1>1, ValuesHead
<1>8. Owned'
  <2>1. ASSUME NEW t, NEW id, Owner(t, id) PROVE Owner(t, id)'
    <3>1. CASE id \in valid /\ rev[id] = t
      BY <1>1, <1>6, <3>1, OwnerInNext
    <3>2. CASE [id |-> id, tuple |-> t] = r
      <4>1. r.id = id /\ r.tuple = t
        BY <3>2
      <4> QED
        BY <1>1, <1>6, <4>1, OwnerInNext
    <3>3. CASE [id |-> id, tuple |-> t] \in Values(revIns')
      BY <3>3, OwnerInNext
    <3>4. CASE At("inserting") /\ slc[1].tuple = t /\ id \in NewIn(updRsp) \cup Values(insRsp)
      BY <1>2, <3>4, OwnerInNext DEF At
    <3> QED
      BY <1>7, <2>1, <3>1, <3>2, <3>3, <3>4, OwnerIn
  <2>2. \A t, id : Deletes(t, id) => Deletes(t, id)'
    BY <1>2, DeletesIn, DeletesInNext
  <2> QED
    BY <1>2, <2>1, <2>2, OwnedNext DEF TableInv, Owned
<1> QED
  BY <1>3, <1>4, <1>8 DEF TableInv

(* A release asks for the delete of the entry. *)
LEMMA EntriesRevRelease ==
  ASSUME Types, Ledger, TableInv, RevRelease
  PROVE  TableInv'
<1> DEFINE x == Head(relQ)
           r == Delete(rev[x], x)
<1>1. UNCHANGED <<slc, table, insQ, updQ, updRsp, insRsp, revIns, rev>>
  BY DEF RevRelease
<1>2. CASE x \notin valid
  BY <1>1, <1>2, EntriesFrame DEF RevRelease, update, revs
<1>3. CASE x \in valid
  <2>1. delQ' = Append(delQ, r) /\ valid' = valid \ {x}
    BY <1>3 DEF RevRelease, Delete
  <2>2. delQ \in Seq(Request({"DELETE"})) /\ r \in Request({"DELETE"})
    BY <1>3 DEF Types, UpdateTypes, TableTypes, RevInv, Fifo, Request, Delete
  <2>3. Values(delQ') = Values(delQ) \cup {r}
    BY <2>1, <2>2, ValuesAppend
  <2>4. OneInsert'
    <3>1. UnderWay' = UnderWay
      BY <1>1 DEF UnderWay
    <3> QED
      BY <1>1, <3>1 DEF TableInv, OneInsert, At
  <2>5. SameTuple' /\ DeletesFirst' /\ OneTuple'
    BY <1>1 DEF TableInv, SameTuple, DeletesFirst, OneTuple, Inserts
  <2>6. ASSUME NEW t, NEW id, Owner(t, id) PROVE Owner(t, id)' \/ Deletes(t, id)'
    <3>1. CASE id = x /\ rev[id] = t
      BY <2>3, <3>1, DeletesInNext
    <3>2. CASE id # x /\ id \in valid /\ rev[id] = t
      BY <1>1, <2>1, <3>2, OwnerInNext
    <3>3. CASE [id |-> id, tuple |-> t] \in Values(revIns)
      BY <1>1, <3>3, OwnerInNext
    <3>4. CASE At("inserting") /\ slc[1].tuple = t /\ id \in NewIn(updRsp) \cup Values(insRsp)
      BY <1>1, <3>4, OwnerInNext DEF At
    <3> QED
      BY <2>6, <3>1, <3>2, <3>3, <3>4, OwnerIn
  <2>7. \A t, id : Deletes(t, id) => Deletes(t, id)'
    BY <1>1, <2>3, DeletesIn, DeletesInNext
  <2>8. Owned'
    BY <1>1, <2>6, <2>7, OwnedNext DEF TableInv, Owned
  <2> QED
    BY <2>4, <2>5, <2>8 DEF TableInv
<1> QED
  BY <1>2, <1>3

(* Every step keeps the invariant of the hash table. *)
LEMMA EntriesStep == Types /\ Ledger /\ TableInv /\ [Next]_vars => TableInv'
<1> SUFFICES ASSUME Types, Ledger, TableInv, [Next]_vars PROVE TableInv'
  OBVIOUS
<1>1. CASE UNCHANGED vars
  BY <1>1, EntriesFrame DEF vars
<1>2. CASE \/ \E p \in LowPorts : Listen(p)
           \/ \E p \in HighPorts : OfferPort(p)
           \/ \E peer \in Peers : AppOpen(peer)
           \/ \E seg \in Segments : Arrive(seg)
           \/ \E id \in Ids : TimerRelease(id)
  BY <1>2, EntriesFrame DEF Listen, OfferPort, AppOpen, Arrive, TimerRelease
<1>3. CASE PortTable \/ OpenAnswer
  BY <1>3, EntriesFrame DEF PortTable, CheckListening, ReleasePort, CheckUsed, OpenAnswer
<1>4. CASE MetaClosed \/ MetaOpen \/ MetaLookup \/ FsmSegment
  BY <1>4, EntriesFrame DEF MetaClosed, MetaOpen, MetaLookup, FsmSegment
<1>5. CASE RecycleId \/ NewId
  BY <1>5, EntriesFrame DEF RecycleId, NewId
<1>6. CASE RequestTx \/ RequestRx
  BY <1>6, QueryStep DEF RequestTx, RequestRx, Ask, At
<1>7. CASE Found
  BY <1>7, QueryStep DEF Found, At
<1>8. CASE HashLookup
  <2>1. slc[1] \in Query
    BY <1>8, SingleValue DEF HashLookup, At, Types, TableTypes
  <2>2. slc'[1].at = "found"
    BY <1>8, <2>1 DEF HashLookup, Query
  <2> QED
    BY <1>8, <2>2, QueryStep DEF HashLookup, At
<1> QED
  BY <1>1, <1>2, <1>3, <1>4, <1>5, <1>6, <1>7, <1>8, EntriesCreate, EntriesSendInsert,
     EntriesSendDelete, EntriesHashUpdate, EntriesUpdateReply, EntriesInserted, EntriesRevInsert,
     EntriesRevRelease
  DEF Next, Controller, HashTable

(* The hash table is empty at the start. *)
LEMMA EntriesInit == Init => TableInv
<1> SUFFICES ASSUME Init PROVE TableInv
  OBVIOUS
<1>1. OneInsert /\ SameTuple
  BY DEF Init, OneInsert, UnderWay, SameTuple, IdsIn, NewIn, Values, Inserts
<1>2. DeletesFirst /\ OneTuple /\ Owned
  BY DEF Init, DeletesFirst, OneTuple, Owned
<1> QED
  BY <1>1, <1>2 DEF TableInv

(* The invariant implies what the run checks of the hash table. *)
LEMMA EntriesOwned == TableInv => TableOwned
<1> SUFFICES ASSUME TableInv PROVE TableOwned
  OBVIOUS
<1>1. \A t, id : Owner(t, id) => Owns(t, id)
  BY DEF Owner, Owns, NewIn, Values, Inserts
<1> QED
  BY <1>1 DEF TableInv, OneTuple, Owned, TableOwned

(* The hash table maps no two tuples to one session, and every entry       *)
(* belongs to the session's owner or is about to be deleted.               *)
THEOREM TableCorrect == Spec => []TableOwned
<1>1. Init => Inv
  BY TypesInit, LedgerInit, EntriesInit DEF Inv
<1>2. Inv /\ [Next]_vars => Inv'
  BY TypesStep, LedgerStep, EntriesStep DEF Inv
<1>3. Inv => TableOwned
  BY EntriesOwned DEF Inv
<1> QED
  BY <1>1, <1>2, <1>3, PTL DEF Spec

=============================================================================
