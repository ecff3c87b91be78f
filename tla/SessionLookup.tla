--------------------------- MODULE SessionLookup ----------------------------
(***************************************************************************)
(* How sessions and ports are handed out and taken back: the session       *)
(* lookup controller with the hash table behind it, the port table, and    *)
(* the parts of rx_engine, tx_app_if and the state table that ask for a    *)
(* session and give it up.  All of them are concurrent processes.          *)
(*                                                                         *)
(* A port is a pair of bytes <<high, low>>.  Segments, tuples and the      *)
(* tables of the controller hold it in network byte order, the port table  *)
(* in host order.  Ports of the upper half are handed out for active       *)
(* opens, the lower half is for listening.  Whether a session is closed is *)
(* all that matters of its state here; StateTable shows that its changes   *)
(* are atomic.                                                             *)
(***************************************************************************)
EXTENDS Integers, Sequences, FiniteSets

CONSTANTS MaxSessions,  \* MAX_SESSIONS
          Byte,         \* the largest value of a byte; the upper half has the top bit
          Peers,        \* addresses and ports of the other side
          LowPorts,     \* ports the application may listen on
          HighPorts,    \* ports of the freePortTable
          Segments,     \* the segments that may arrive, with their host-order port
          None,         \* no session
          Depth         \* depth of the FIFOs

Ids == 0 .. MaxSessions - 1
High(p) == 2 * p[1] > Byte
Ports == LowPorts \cup HighPorts
reverse(p) == <<p[2], p[1]>>
Tuples == [peer : Peers, myPort : {reverse(p) : p \in Ports}]
Flags == {"SYN", "SYN_ACK", "ACK"}

ASSUME ConstAssumption ==
  /\ MaxSessions \in Nat \ {0} /\ Byte \in Nat \ {0} /\ Depth \in Nat \ {0}
  /\ Ports \subseteq (0 .. Byte) \X (0 .. Byte)
  /\ \A p \in Ports : High(p) <=> p \in HighPorts
  /\ LowPorts \cap HighPorts = {}
  /\ Segments \subseteq [peer : Peers, port : Ports, flags : Flags]
  /\ None \notin Ids

VARIABLES
  listening,   \* listeningPortTable: the ports that are listened on
  used,        \* freePortTable: TRUE for a port that is taken
  offers,      \* portTable2txApp_port_rsp
  relPort,     \* sLookup2portTable_releasePort
  checks,      \* segments with their port check, answered or not
  mh,          \* the segment rxMetadataHandler is in LOOKUP for, or <<>>
  rxReq, rxRsp,\* lookups of rxMetadataHandler and their answers
  txReq, txRsp,\* lookups of tx_app_if and their answers
  fsmQ,        \* segments with their session, on their way to rxTcpFSM
  live,        \* the state table: sessions that are not CLOSED
  relQ,        \* stateTable2sLookup_releaseSession
  slc,         \* the query lookupReplyHandler is at, or <<>> in LUP_REQ
  table,       \* the hash table: the session of each tuple, or None
  insQ, delQ,  \* sessionInsert_req, sessionDelete_req
  updQ, updRsp,\* sessionUpdate_req, sessionUpdate_rsp
  insRsp,      \* slc_sessionInsert_rsp
  counter, finQ, freeList,   \* sessionIdManager
  usedSessionIDs,            \* updateRequestSender, shown in regSessionCount
  revIns,      \* reverseLupInsertFifo
  rev, valid   \* reverseLookupTable and tupleValid

ports  == <<listening, used, offers>>
rx     == <<checks, mh, rxReq, rxRsp, fsmQ>>
tx     == <<txReq, txRsp>>
states == <<live, relQ>>
update == <<insQ, delQ, updQ, updRsp, insRsp>>
ids    == <<counter, finQ, freeList, usedSessionIDs>>
revs   == <<revIns, rev, valid>>
vars   == <<ports, relPort, rx, tx, states, slc, table, update, ids, revs>>

(* mutant: a FIFO takes one entry too many *)
RoomOffByOne(q) == Len(q) <= Depth
Room(q) == Len(q) < Depth

Init ==
  /\ listening = {} /\ used = [p \in HighPorts |-> FALSE] /\ offers = <<>> /\ relPort = <<>>
  /\ checks = <<>> /\ mh = <<>> /\ rxReq = <<>> /\ rxRsp = <<>> /\ fsmQ = <<>>
  /\ txReq = <<>> /\ txRsp = <<>>
  /\ live = {} /\ relQ = <<>>
  /\ slc = <<>> /\ table = [t \in Tuples |-> None]
  /\ insQ = <<>> /\ delQ = <<>> /\ updQ = <<>> /\ updRsp = <<>> /\ insRsp = <<>>
  /\ counter = 0 /\ finQ = <<>> /\ freeList = <<>> /\ usedSessionIDs = 0
  /\ revIns = <<>> /\ rev = [id \in Ids |-> None] /\ valid = {}

-----------------------------------------------------------------------------
(* port_table *)

(* listening_port_table, for a request of rx_app_if *)
Listen(p) ==
  /\ listening' = listening \cup {p}
  /\ UNCHANGED <<used, offers, relPort, rx, tx, states, slc, table, update, ids, revs>>

(* The port checks of rx_engine pass one of two tables, by the upper half; *)
(* the answers are put in order again.                                     *)
Open(c) == c.answer = "open"
Pending(high) == {i \in DOMAIN checks : checks[i].answer = "none"
                                        /\ High(reverse(checks[i].tuple.myPort)) = high}
Answer(high, open) ==
  \E i \in Pending(high) :
    /\ \A j \in Pending(high) : i <= j
    /\ checks' = [checks EXCEPT ![i].answer =
                    IF reverse(checks[i].tuple.myPort) \in open THEN "open" ELSE "closed"]

CheckListening ==
  /\ Answer(FALSE, listening)
  /\ UNCHANGED <<ports, relPort, mh, rxReq, rxRsp, fsmQ, tx, states, slc, table, update,
                 ids, revs>>

(* free_port_table: a release first, then a check, then the next offer.    *)
(* The port that comes with a release is taken as it is.                   *)
ReleasePort ==
  /\ relPort # <<>>
  /\ used' = [p \in HighPorts |-> used[p] /\ p # Head(relPort)]
  /\ relPort' = Tail(relPort)
  /\ UNCHANGED <<listening, offers, rx, tx, states, slc, table, update, ids, revs>>

CheckUsed ==
  /\ relPort = <<>>
  /\ Answer(TRUE, {p \in HighPorts : used[p]})
  /\ UNCHANGED <<ports, relPort, mh, rxReq, rxRsp, fsmQ, tx, states, slc, table, update,
                 ids, revs>>

OfferPort(p) ==
  /\ relPort = <<>> /\ Pending(TRUE) = {} /\ ~used[p] /\ Room(offers)
  /\ used' = [used EXCEPT ![p] = TRUE]
  /\ offers' = Append(offers, p)
  /\ UNCHANGED <<listening, relPort, rx, tx, states, slc, table, update, ids, revs>>

-----------------------------------------------------------------------------
(* tx_app_if: an active open takes a port and asks for a session; with the *)
(* session the state becomes SYN_SENT, without one the open has failed.    *)
AppOpen(peer) ==
  /\ offers # <<>> /\ Room(txReq)
  /\ txReq' = Append(txReq, [peer |-> peer, myPort |-> reverse(Head(offers))])
  /\ offers' = Tail(offers)
  /\ UNCHANGED <<listening, used, relPort, rx, txRsp, states, slc, table, update, ids, revs>>

OpenAnswer ==
  /\ txRsp # <<>>
  /\ live' = IF Head(txRsp) = None THEN live ELSE live \cup {Head(txRsp)}
  /\ txRsp' = Tail(txRsp)
  /\ UNCHANGED <<ports, relPort, rx, txReq, relQ, slc, table, update, ids, revs>>

-----------------------------------------------------------------------------
(* rx_engine *)

(* A segment arrives and its port is checked. *)
Arrive(seg) ==
  /\ Room(checks)
  /\ checks' = Append(checks, [tuple |-> [peer |-> seg.peer, myPort |-> reverse(seg.port)],
                               flags |-> seg.flags, answer |-> "none"])
  /\ UNCHANGED <<ports, relPort, mh, rxReq, rxRsp, fsmQ, tx, states, slc, table, update,
                 ids, revs>>

(* rxMetadataHandler, META: a closed port is answered with a reset. *)
MetaClosed ==
  /\ mh = <<>> /\ checks # <<>> /\ Head(checks).answer = "closed"
  /\ checks' = Tail(checks)
  /\ UNCHANGED <<ports, relPort, mh, rxReq, rxRsp, fsmQ, tx, states, slc, table, update,
                 ids, revs>>

MetaOpen ==
  /\ mh = <<>> /\ checks # <<>> /\ Open(Head(checks))
  /\ mh' = <<Head(checks).flags>>
  /\ rxReq' = Append(rxReq, [tuple |-> Head(checks).tuple,
                             create |-> Head(checks).flags \in {"SYN", "SYN_ACK"}])
  /\ checks' = Tail(checks)
  /\ UNCHANGED <<ports, relPort, rxRsp, fsmQ, tx, states, slc, table, update, ids, revs>>

(* LOOKUP: only a hit is passed on. *)
MetaLookup ==
  /\ mh # <<>> /\ rxRsp # <<>> /\ Room(fsmQ)
  /\ fsmQ' = IF Head(rxRsp) = None THEN fsmQ
             ELSE Append(fsmQ, [id |-> Head(rxRsp), flags |-> mh[1]])
  /\ mh' = <<>> /\ rxRsp' = Tail(rxRsp)
  /\ UNCHANGED <<ports, relPort, checks, rxReq, tx, states, slc, table, update, ids, revs>>

(* rxTcpFSM with the state table.  A SYN opens a closed session; any other *)
(* segment of a closed session writes CLOSED again, and each write of      *)
(* CLOSED releases the session.  In an open session a segment may close it.*)
FsmSegment ==
  /\ fsmQ # <<>> /\ Room(relQ)
  /\ LET id == Head(fsmQ).id
     IN  \/ /\ id \in live
            /\ UNCHANGED states
         \/ /\ id \notin live /\ Head(fsmQ).flags = "SYN"
            /\ live' = live \cup {id}
            /\ UNCHANGED relQ
         \/ /\ id \in live \/ Head(fsmQ).flags # "SYN"
            /\ live' = live \ {id}
            /\ relQ' = Append(relQ, id)
  /\ fsmQ' = Tail(fsmQ)
  /\ UNCHANGED <<ports, relPort, checks, mh, rxReq, rxRsp, tx, slc, table, update, ids, revs>>

(* The retransmit or the close timer gives an open session up. *)
TimerRelease(id) ==
  /\ id \in live /\ Room(relQ)
  /\ live' = live \ {id}
  /\ relQ' = Append(relQ, id)
  /\ UNCHANGED <<ports, relPort, rx, tx, slc, table, update, ids, revs>>

-----------------------------------------------------------------------------
(* lookupReplyHandler *)

(* LUP_REQ: the application's query first *)
Ask(source, tuple, create) ==
  slc' = <<[source |-> source, tuple |-> tuple, create |-> create, at |-> "asked", id |-> None]>>

RequestTx ==
  /\ slc = <<>> /\ txReq # <<>>
  /\ Ask("TX_APP", Head(txReq), TRUE)
  /\ txReq' = Tail(txReq)
  /\ UNCHANGED <<ports, relPort, rx, txRsp, states, table, update, ids, revs>>

RequestRx ==
  /\ slc = <<>> /\ txReq = <<>> /\ rxReq # <<>>
  /\ Ask("RX", Head(rxReq).tuple, Head(rxReq).create)
  /\ rxReq' = Tail(rxReq)
  /\ UNCHANGED <<ports, relPort, checks, mh, rxRsp, fsmQ, tx, states, table, update, ids, revs>>

At(phase) == slc # <<>> /\ slc[1].at = phase

(* The answer for the source of the query: a session, or None for no hit. *)
Reply(id) ==
  IF slc[1].source = "RX" THEN Room(rxRsp) /\ rxRsp' = Append(rxRsp, id) /\ UNCHANGED txRsp
                          ELSE Room(txRsp) /\ txRsp' = Append(txRsp, id) /\ UNCHANGED rxRsp

(* LUP_RSP: a miss that may create a session takes a free ID. *)
MayCreate == slc[1].id = None /\ slc[1].create /\ freeList # <<>>

Create ==
  /\ At("found") /\ MayCreate /\ Room(insQ)
  /\ insQ' = Append(insQ, [op |-> "INSERT", tuple |-> slc[1].tuple, id |-> Head(freeList)])
  /\ freeList' = Tail(freeList)
  /\ slc' = <<[slc[1] EXCEPT !.at = "inserting"]>>
  /\ UNCHANGED <<ports, relPort, rx, tx, states, table, delQ, updQ, updRsp, insRsp, counter,
                 finQ, usedSessionIDs, revs>>

Found ==
  /\ At("found") /\ ~MayCreate
  /\ Reply(slc[1].id)
  /\ slc' = <<>>
  /\ UNCHANGED <<ports, relPort, checks, mh, rxReq, fsmQ, txReq, states, table, update, ids,
                 revs>>

(* UPD_RSP: the insert is done, whatever its success bit says. *)
Inserted ==
  /\ At("inserting") /\ insRsp # <<>> /\ Room(revIns)
  /\ Reply(Head(insRsp))
  /\ revIns' = Append(revIns, [id |-> Head(insRsp), tuple |-> slc[1].tuple])
  /\ insRsp' = Tail(insRsp)
  /\ slc' = <<>>
  /\ UNCHANGED <<ports, relPort, checks, mh, rxReq, fsmQ, txReq, states, table, insQ, delQ,
                 updQ, updRsp, ids, rev, valid>>

-----------------------------------------------------------------------------
(* updateRequestSender: inserts first; with a delete the ID becomes free *)
SendInsert ==
  /\ insQ # <<>> /\ Room(updQ)
  /\ updQ' = Append(updQ, Head(insQ)) /\ insQ' = Tail(insQ)
  /\ usedSessionIDs' = usedSessionIDs + 1
  /\ UNCHANGED <<ports, relPort, rx, tx, states, slc, table, delQ, updRsp, insRsp, counter,
                 finQ, freeList, revs>>

(* mutant: the ID becomes free and its entry stays *)
SendDeleteUnsent ==
  /\ insQ = <<>> /\ delQ # <<>> /\ Room(updQ) /\ Room(finQ)
  /\ delQ' = Tail(delQ)
  /\ finQ' = Append(finQ, Head(delQ).id)
  /\ usedSessionIDs' = usedSessionIDs - 1
  /\ UNCHANGED <<ports, relPort, rx, tx, states, slc, table, insQ, updQ, updRsp, insRsp,
                 counter, freeList, revs>>
SendDelete ==
  /\ insQ = <<>> /\ delQ # <<>> /\ Room(updQ) /\ Room(finQ)
  /\ updQ' = Append(updQ, Head(delQ)) /\ delQ' = Tail(delQ)
  /\ finQ' = Append(finQ, Head(delQ).id)
  /\ usedSessionIDs' = usedSessionIDs - 1
  /\ UNCHANGED <<ports, relPort, rx, tx, states, slc, table, insQ, updRsp, insRsp, counter,
                 freeList, revs>>

(* sessionIdManager: a returned ID, or one that was never used *)
RecycleId ==
  /\ finQ # <<>>
  /\ freeList' = Append(freeList, Head(finQ)) /\ finQ' = Tail(finQ)
  /\ UNCHANGED <<ports, relPort, rx, tx, states, slc, table, update, counter, usedSessionIDs,
                 revs>>

NewId ==
  /\ finQ = <<>> /\ counter < MaxSessions
  /\ freeList' = Append(freeList, counter) /\ counter' = counter + 1
  /\ UNCHANGED <<ports, relPort, rx, tx, states, slc, table, update, finQ, usedSessionIDs,
                 revs>>

(* updateReplyHandler: only inserts are waited for. *)
UpdateReply ==
  /\ updRsp # <<>> /\ Room(insRsp)
  /\ insRsp' = IF Head(updRsp).op = "INSERT" THEN Append(insRsp, Head(updRsp).id) ELSE insRsp
  /\ updRsp' = Tail(updRsp)
  /\ UNCHANGED <<ports, relPort, rx, tx, states, slc, table, insQ, delQ, updQ, ids, revs>>

-----------------------------------------------------------------------------
(* hash_table: a lookup first, then an update *)
HashLookup ==
  /\ At("asked")
  /\ slc' = <<[slc[1] EXCEPT !.at = "found", !.id = table[slc[1].tuple]]>>
  /\ UNCHANGED <<ports, relPort, rx, tx, states, table, update, ids, revs>>

(* What an insert may leave: when no slot is found in MAX_TRIALS rounds,   *)
(* the entry that was moved last, of any tuple, is lost.                   *)
AfterInsert(q) ==
  LET stored == [table EXCEPT ![q.tuple] = q.id]
  IN  {stored} \cup {[stored EXCEPT ![lost] = None] : lost \in {t \in Tuples : stored[t] # None}}

HashUpdate ==
  /\ ~At("asked") /\ updQ # <<>> /\ Room(updRsp)
  /\ IF Head(updQ).op = "INSERT" THEN table' \in AfterInsert(Head(updQ))
                                 ELSE table' = [table EXCEPT ![Head(updQ).tuple] = None]
  /\ updRsp' = Append(updRsp, [op |-> Head(updQ).op, id |-> Head(updQ).id])
  /\ updQ' = Tail(updQ)
  /\ UNCHANGED <<ports, relPort, rx, tx, states, slc, insQ, delQ, insRsp, ids, revs>>

-----------------------------------------------------------------------------
(* reverseLookupTableInterface: inserts first *)
RevInsert ==
  /\ revIns # <<>>
  /\ rev' = [rev EXCEPT ![Head(revIns).id] = Head(revIns).tuple]
  /\ valid' = valid \cup {Head(revIns).id}
  /\ revIns' = Tail(revIns)
  /\ UNCHANGED <<ports, relPort, rx, tx, states, slc, table, update, ids>>

(* mutant: a session that was released before is released again *)
RevReleaseAlways ==
  /\ revIns = <<>> /\ relQ # <<>>
  /\ LET id == Head(relQ)
     IN  IF rev[id] # None
         THEN /\ Room(relPort) /\ Room(delQ)
              /\ relPort' = Append(relPort, rev[id].myPort)
              /\ delQ' = Append(delQ, [op |-> "DELETE", tuple |-> rev[id], id |-> id])
              /\ valid' = valid \ {id}
         ELSE UNCHANGED <<relPort, delQ, valid>>
  /\ relQ' = Tail(relQ)
  /\ UNCHANGED <<ports, rx, tx, live, slc, table, insQ, updQ, updRsp, insRsp, ids, revIns, rev>>
(* A session is released: its port and its ID are given back, once. *)
RevRelease ==
  /\ revIns = <<>> /\ relQ # <<>>
  /\ LET id == Head(relQ)
     IN  IF id \in valid
         THEN /\ Room(relPort) /\ Room(delQ)
              /\ relPort' = Append(relPort, rev[id].myPort)
              /\ delQ' = Append(delQ, [op |-> "DELETE", tuple |-> rev[id], id |-> id])
              /\ valid' = valid \ {id}
         ELSE UNCHANGED <<relPort, delQ, valid>>
  /\ relQ' = Tail(relQ)
  /\ UNCHANGED <<ports, rx, tx, live, slc, table, insQ, updQ, updRsp, insRsp, ids, revIns, rev>>

PortTable == CheckListening \/ ReleasePort \/ CheckUsed
Controller == \/ RequestTx \/ RequestRx \/ Create \/ Found \/ Inserted
              \/ SendInsert \/ SendDelete \/ RecycleId \/ NewId \/ UpdateReply
              \/ RevInsert \/ RevRelease
HashTable == HashLookup \/ HashUpdate

Next == \/ \E p \in LowPorts : Listen(p)
        \/ \E p \in HighPorts : OfferPort(p)
        \/ \E peer \in Peers : AppOpen(peer)
        \/ \E seg \in Segments : Arrive(seg)
        \/ \E id \in Ids : TimerRelease(id)
        \/ PortTable
        \/ OpenAnswer
        \/ MetaClosed \/ MetaOpen \/ MetaLookup \/ FsmSegment
        \/ Controller \/ HashTable

Spec == Init /\ [][Next]_vars

-----------------------------------------------------------------------------
(* Properties *)

(* Every FIFO keeps its depth and the values are of their types. *)
Fifo(q, S) == q \in Seq(S) /\ Len(q) <= Depth
Single(q, S) == q = <<>> \/ \E x \in S : q = <<x>>
Request(ops) == [op : ops, tuple : Tuples, id : Ids]
Outcome == [op : {"INSERT", "DELETE"}, id : Ids]
RevEntry == [id : Ids, tuple : Tuples]
Check == [tuple : Tuples, flags : Flags, answer : {"none", "open", "closed"}]
Query == [source : {"TX_APP", "RX"}, tuple : Tuples, create : BOOLEAN,
          at : {"asked", "found", "inserting"}, id : Ids \cup {None}]
PortTypes ==
  /\ listening \subseteq LowPorts /\ used \in [HighPorts -> BOOLEAN]
  /\ Fifo(offers, HighPorts) /\ Fifo(relPort, {reverse(p) : p \in Ports})
EngineTypes ==
  /\ Fifo(checks, Check) /\ Single(mh, Flags) /\ Fifo(fsmQ, [id : Ids, flags : Flags])
  /\ Fifo(rxReq, [tuple : Tuples, create : BOOLEAN]) /\ Fifo(rxRsp, Ids \cup {None})
  /\ Fifo(txReq, Tuples) /\ Fifo(txRsp, Ids \cup {None})
  /\ live \subseteq Ids /\ Fifo(relQ, Ids)
TableTypes ==
  /\ Single(slc, Query) /\ table \in [Tuples -> Ids \cup {None}]
  /\ Fifo(revIns, RevEntry)
  /\ rev \in [Ids -> Tuples \cup {None}] /\ valid \subseteq Ids
UpdateTypes ==
  /\ Fifo(insQ, Request({"INSERT"})) /\ Fifo(delQ, Request({"DELETE"}))
  /\ Fifo(updQ, Request({"INSERT", "DELETE"}))
  /\ Fifo(updRsp, Outcome) /\ Fifo(insRsp, Ids)
  /\ Fifo(finQ, Ids) /\ freeList \in Seq(Ids) /\ counter \in 0 .. MaxSessions
TypeOK == /\ PortTypes /\ EngineTypes /\ TableTypes /\ UpdateTypes
          /\ Len(freeList) <= MaxSessions /\ usedSessionIDs \in 0 .. MaxSessions

(* Where the IDs are, as <<place, position, ID>>: free, on their way into  *)
(* the tables, in them, or on their way back.                              *)
Inserts(q) == {i \in DOMAIN q : q[i].op = "INSERT"}
Held ==
  {<<"freeList", i, freeList[i]>> : i \in DOMAIN freeList}
  \cup {<<"finQ", i, finQ[i]>> : i \in DOMAIN finQ}
  \cup {<<"delQ", i, delQ[i].id>> : i \in DOMAIN delQ}
  \cup {<<"insQ", i, insQ[i].id>> : i \in DOMAIN insQ}
  \cup {<<"updQ", i, updQ[i].id>> : i \in Inserts(updQ)}
  \cup {<<"updRsp", i, updRsp[i].id>> : i \in Inserts(updRsp)}
  \cup {<<"insRsp", i, insRsp[i]>> : i \in DOMAIN insRsp}
  \cup {<<"revIns", i, revIns[i].id>> : i \in DOMAIN revIns}
  \cup {<<"valid", 0, id>> : id \in valid}

(* No ID is lost and none is given out twice: each ID that sessionIdManager *)
(* has issued is in exactly one place, although rx_engine and the timers    *)
(* may release a session several times and inserts may fail; and            *)
(* regSessionCount is the number of IDs in use.                             *)
IdsConserved ==
  /\ {h[3] : h \in Held} = 0 .. counter - 1
  /\ \A g, h \in Held : g[3] = h[3] => g = h
  /\ usedSessionIDs = counter - Len(freeList) - Len(finQ) - Len(insQ)

(* The hash table never maps two tuples to one session, and an entry for a *)
(* session belongs to its current owner, or its delete is on the way.      *)
Deletes(t, id) == \E q \in {delQ, updQ} : \E i \in DOMAIN q :
                    q[i] = [op |-> "DELETE", tuple |-> t, id |-> id]
Owns(t, id) == \/ id \in valid /\ rev[id] = t
               \/ \E i \in DOMAIN revIns : revIns[i] = [id |-> id, tuple |-> t]
               \/ At("inserting") /\ slc[1].tuple = t
                    /\ id \in {updRsp[i].id : i \in DOMAIN updRsp}
                              \cup {insRsp[i] : i \in DOMAIN insRsp}
TableOwned ==
  /\ \A t, u \in Tuples : table[t] # None /\ table[t] = table[u] => t = u
  /\ \A t \in Tuples : table[t] # None => Owns(t, table[t]) \/ Deletes(t, table[t])

(* A session that is open is not in the list of free IDs: "the sessionID   *)
(* free list which keeps track of the free SessionIDs".                    *)
FreeIdsFree == \A i \in DOMAIN freeList : freeList[i] \notin live

(* A port of the upper half that a session uses is marked as taken, so     *)
(* that its segments pass the port check and it is not offered again.      *)
PortsMarked == \A id \in valid : LET p == reverse(rev[id].myPort)
                                 IN  High(p) => used[p]
=============================================================================
