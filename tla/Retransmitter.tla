---------------------------- MODULE Retransmitter ----------------------------
(***************************************************************************)
(* The retransmitter of ib_transport_protocol: linked lists of requests in *)
(* one table (retrans_meta_table), a pointer entry per queue pair          *)
(* (retrans_pointer_table) with a lock, a free list (freelist_handler),    *)
(* and the state machine process_retransmissions, four processes joined by *)
(* FIFOs.  It is shown to implement RetransQueue.                          *)
(***************************************************************************)
EXTENDS RetransList, FiniteSets

CONSTANTS Qps,         \* queue pairs
          TableSize,   \* META_TABLE_SIZE
          Depth,       \* slots of the FIFOs between the processes
          Scripts      \* the operations that arrive, by kind

(* What arrives: retransUpdate, retransmission and retransEntry.           *)
Kinds == {"upd", "nak", "timeout", "insert"}
Request == [op : STRING, psn : 0 .. PsnMod - 1, laddr : Nat, raddr : Nat, len : Int]
Answer == [qpn : Qps, op : STRING]
Demand == [qpn : Qps, psn : 0 .. PsnMod - 1]
Insertion == [qpn : Qps, entry : Request]
Operations(k) ==
    CASE k = "upd" -> Answer [] k = "insert" -> Insertion [] OTHER -> Demand

ASSUME RetransAssumption ==
    /\ PsnMod \in Nat \ {0} /\ TableSize \in Nat \ {0} /\ Depth \in Nat \ {0}
    /\ \A s \in Scripts : DOMAIN s = Kinds /\ \A k \in Kinds : s[k] \in Seq(Operations(k))

VARIABLES script,   \* operations that are still to come, by kind
          in,       \* rx2retrans_upd, rx2retrans_req, timer2retrans_req, tx2retrans_insertRequest
          fsm,      \* process_retransmissions: its state and its registers
          ptr,      \* retrans_pointer_table
          meta,     \* retrans_meta_table
          free,     \* freelist_handler: its counter and its two FIFOs
          fifo,     \* the FIFOs to and from the two tables
          events,   \* retrans2event
          init      \* retrans2rx_init

vars == <<script, in, fsm, ptr, meta, free, fifo, events, init>>
env == <<script, in>>

Indices == 0 .. TableSize - 1
NoEntry == [valid |-> FALSE, isTail |-> FALSE, next |-> 0, e |-> <<>>]
NoPtr == [valid |-> FALSE, head |-> 0, tail |-> 0]

Room(f) == Len(fifo[f]) < Depth

Init ==
    /\ script \in Scripts
    /\ in = [k \in Kinds |-> <<>>]
    /\ fsm = [state |-> "MAIN", op |-> <<>>, idx |-> 0, ptr |-> NoPtr]
    /\ ptr = [table |-> [q \in Qps |-> NoPtr], locked |-> <<>>, wait |-> <<>>]
    /\ meta = [i \in Indices |-> NoEntry]
    /\ free = [counter |-> 0, list |-> <<>>, release |-> <<>>]
    /\ fifo = [f \in {"ptrReq", "ptrUpd", "ptrRsp", "metaReq", "metaRsp"} |-> <<>>]
    /\ events = <<>> /\ init = <<>>

Arrive ==
    \E k \in Kinds :
        /\ script[k] # <<>>
        /\ in' = [in EXCEPT ![k] = Append(@, Head(script[k]))]
        /\ script' = [script EXCEPT ![k] = Tail(@)]
        /\ UNCHANGED <<fsm, ptr, meta, free, fifo, events, init>>

------------------------------------------------------------------------------
(* retrans_pointer_table: an update goes first and releases the lock; a    *)
(* locking request that finds it taken would wait (LockFree: never does).  *)

(* mutant: an update does not release the lock *)
PtrUpdateKeepsLock ==
    /\ fifo["ptrUpd"] # <<>>
    /\ ptr' = [ptr EXCEPT !.table[Head(fifo["ptrUpd"]).qpn] = Head(fifo["ptrUpd"]).entry]
    /\ fifo' = [fifo EXCEPT !["ptrUpd"] = Tail(@)]
    /\ UNCHANGED <<env, fsm, meta, free, events, init>>

PtrUpdate ==
    /\ fifo["ptrUpd"] # <<>>
    /\ LET u == Head(fifo["ptrUpd"])
       IN ptr' = [ptr EXCEPT !.table[u.qpn] = u.entry,
                             !.locked = IF @ = <<u.qpn>> THEN <<>> ELSE @]
    /\ fifo' = [fifo EXCEPT !["ptrUpd"] = Tail(@)]
    /\ UNCHANGED <<env, fsm, meta, free, events, init>>

PtrRequest ==
    /\ fifo["ptrUpd"] = <<>> /\ fifo["ptrReq"] # <<>> /\ ptr.wait = <<>>
    /\ LET r == Head(fifo["ptrReq"])
           blocked == r.lock /\ ptr.locked # <<>>
       IN /\ blocked \/ Room("ptrRsp")
          /\ fifo' = [fifo EXCEPT !["ptrReq"] = Tail(@),
                        !["ptrRsp"] = IF blocked THEN @ ELSE Append(@, ptr.table[r.qpn])]
          /\ ptr' = [ptr EXCEPT !.wait = IF blocked THEN <<r.qpn>> ELSE @,
                                !.locked = IF r.lock /\ ~blocked THEN <<r.qpn>> ELSE @]
    /\ UNCHANGED <<env, fsm, meta, free, events, init>>

(* retrans_meta_table: one request, in order.                              *)
Applied(t, r) ==
    CASE r.kind = "write" -> [t EXCEPT ![r.idx] = r.entry]
      [] r.kind = "append" -> [t EXCEPT ![r.idx].next = r.next, ![r.idx].isTail = FALSE]
      [] r.kind = "read" -> t

MetaTable ==
    /\ fifo["metaReq"] # <<>>
    /\ LET r == Head(fifo["metaReq"])
       IN /\ r.kind = "read" => Room("metaRsp")
          /\ meta' = Applied(meta, r)
          /\ fifo' = [fifo EXCEPT !["metaReq"] = Tail(@),
                        !["metaRsp"] = IF r.kind = "read" THEN Append(@, meta[r.idx]) ELSE @]
    /\ UNCHANGED <<env, fsm, ptr, free, events, init>>

(* freelist_handler: released indices first, then those never used.        *)
FreeList ==
    \/ /\ free.release # <<>>
       /\ free' = [free EXCEPT !.release = Tail(@), !.list = Append(@, Head(free.release))]
       /\ UNCHANGED <<env, fsm, ptr, meta, fifo, events, init>>
    \/ /\ free.release = <<>> /\ free.counter < TableSize /\ Len(free.list) < TableSize
       /\ free' = [free EXCEPT !.counter = @ + 1, !.list = Append(@, free.counter)]
       /\ UNCHANGED <<env, fsm, ptr, meta, fifo, events, init>>

------------------------------------------------------------------------------
(* process_retransmissions.                                                *)

Read(idx) == [kind |-> "read", idx |-> idx]
Write(idx, e) == [kind |-> "write", idx |-> idx, entry |-> e]
Link(idx, next) == [kind |-> "append", idx |-> idx, next |-> next]
TailEntry(e) == [valid |-> TRUE, isTail |-> TRUE, next |-> 0, e |-> e]
PtrUpd(q, p) == [qpn |-> q, entry |-> p]

(* MAIN: the next operation, by priority; its pointer is requested.  Only  *)
(* what changes the list locks it.                                         *)
Take(k, lock) ==
    /\ fsm.state = "MAIN" /\ in[k] # <<>> /\ Room("ptrReq")
    /\ in' = [in EXCEPT ![k] = Tail(@)]
    /\ fifo' = [fifo EXCEPT !["ptrReq"] = Append(@, [qpn |-> Head(in[k]).qpn, lock |-> lock])]
    /\ UNCHANGED <<script, ptr, meta, events, init>>

MainUpdate ==
    /\ Take("upd", TRUE)
    /\ fsm' = [fsm EXCEPT !.state = "UPDATE_0", !.op = <<Head(in["upd"])>>]
    /\ UNCHANGED free

MainNak ==
    /\ in["upd"] = <<>>
    /\ Take("nak", FALSE)
    /\ fsm' = [fsm EXCEPT !.state = "RETRANS_0", !.op = <<Head(in["nak"])>>]
    /\ UNCHANGED free

MainTimeout ==
    /\ in["upd"] = <<>> /\ in["nak"] = <<>>
    /\ Take("timeout", FALSE)
    /\ fsm' = [fsm EXCEPT !.state = "TIMER_RETRANS_0", !.op = <<Head(in["timeout"])>>]
    /\ UNCHANGED free

MainInsert ==
    /\ in["upd"] = <<>> /\ in["nak"] = <<>> /\ in["timeout"] = <<>>
    /\ free.list # <<>>
    /\ Take("insert", TRUE)
    /\ fsm' = [fsm EXCEPT !.state = "INSERT_0", !.op = <<Head(in["insert"])>>,
                          !.idx = Head(free.list)]
    /\ free' = [free EXCEPT !.list = Tail(@)]

(* A state that waits for the pointer, or for an entry.  An entry that was *)
(* never written would end or block the operation; IndicesConserved: none  *)
(* is ever read.                                                           *)
GotPtr(state) == fsm.state = state /\ fifo["ptrRsp"] # <<>>
GotMeta(state) ==
    fsm.state = state /\ fifo["metaRsp"] # <<>> /\ Head(fifo["metaRsp"]).valid
Qpn == fsm.op[1].qpn

(* INSERT_0: a list of one, or the link from the old tail.                 *)
Insert0First ==
    /\ GotPtr("INSERT_0") /\ ~Head(fifo["ptrRsp"]).valid
    /\ Room("metaReq") /\ Room("ptrUpd")
    /\ fifo' = [fifo EXCEPT !["ptrRsp"] = Tail(@),
                  !["metaReq"] = Append(@, Write(fsm.idx, TailEntry(fsm.op[1].entry))),
                  !["ptrUpd"] = Append(@, PtrUpd(Qpn, [valid |-> TRUE, head |-> fsm.idx,
                                                       tail |-> fsm.idx]))]
    /\ fsm' = [fsm EXCEPT !.state = "MAIN"]
    /\ UNCHANGED <<env, ptr, meta, free, events, init>>

Insert0Append ==
    /\ GotPtr("INSERT_0") /\ Head(fifo["ptrRsp"]).valid /\ Room("metaReq")
    /\ fifo' = [fifo EXCEPT !["ptrRsp"] = Tail(@),
                  !["metaReq"] = Append(@, Link(Head(fifo["ptrRsp"]).tail, fsm.idx))]
    /\ fsm' = [fsm EXCEPT !.state = "INSERT_1",
                          !.ptr = [Head(fifo["ptrRsp"]) EXCEPT !.tail = fsm.idx]]
    /\ UNCHANGED <<env, ptr, meta, free, events, init>>

(* mutant: the pointer keeps the old tail *)
Insert1KeepsTail ==
    /\ fsm.state = "INSERT_1" /\ Room("metaReq")
    /\ fifo' = [fifo EXCEPT !["metaReq"] = Append(@, Write(fsm.idx, TailEntry(fsm.op[1].entry))),
                  !["ptrUpd"] = Append(@, PtrUpd(Qpn, ptr.table[Qpn]))]
    /\ fsm' = [fsm EXCEPT !.state = "MAIN"]
    /\ UNCHANGED <<env, ptr, meta, free, events, init>>

Insert1 ==
    /\ fsm.state = "INSERT_1" /\ Room("metaReq") /\ Room("ptrUpd")
    /\ fifo' = [fifo EXCEPT !["metaReq"] = Append(@, Write(fsm.idx, TailEntry(fsm.op[1].entry))),
                            !["ptrUpd"] = Append(@, PtrUpd(Qpn, fsm.ptr))]
    /\ fsm' = [fsm EXCEPT !.state = "MAIN"]
    /\ UNCHANGED <<env, ptr, meta, free, events, init>>

(* mutant: an answer for an empty list is not finished *)
Update0Waits ==
    /\ GotPtr("UPDATE_0") /\ Room("metaReq")
    /\ LET p == Head(fifo["ptrRsp"])
       IN /\ fifo' = [fifo EXCEPT !["ptrRsp"] = Tail(@),
                        !["metaReq"] = IF p.valid THEN Append(@, Read(p.head)) ELSE @]
          /\ fsm' = [fsm EXCEPT !.state = "UPDATE_1", !.ptr = p, !.idx = p.head]
    /\ UNCHANGED <<env, ptr, meta, free, events, init>>

(* UPDATE_0: the head of the list, if there is one.                        *)
Update0 ==
    /\ GotPtr("UPDATE_0") /\ Room("metaReq") /\ Room("ptrUpd")
    /\ LET p == Head(fifo["ptrRsp"])
       IN /\ fifo' = [fifo EXCEPT !["ptrRsp"] = Tail(@),
                        !["metaReq"] = IF p.valid THEN Append(@, Read(p.head)) ELSE @,
                        !["ptrUpd"] = IF p.valid THEN @ ELSE Append(@, PtrUpd(Qpn, p))]
          /\ fsm' = [fsm EXCEPT !.state = IF p.valid THEN "UPDATE_1" ELSE "MAIN",
                                !.ptr = p, !.idx = IF p.valid THEN p.head ELSE @]
    /\ UNCHANGED <<env, ptr, meta, free, events, init>>

(* UPDATE_1: the entry is moved on by one packet, or released.             *)
Update1Keep ==
    /\ GotMeta("UPDATE_1")
    /\ fsm.op[1].op \in KeepsEntry
    /\ Room("metaReq") /\ Room("ptrUpd")
    /\ LET m == Head(fifo["metaRsp"])
       IN /\ init' = IF fsm.op[1].op \in ForwardsAddress THEN Append(init, m.e.laddr) ELSE init
          /\ fifo' = [fifo EXCEPT !["metaRsp"] = Tail(@),
                        !["metaReq"] = Append(@, Write(fsm.ptr.head,
                                                       [m EXCEPT !.e = Advanced(@)])),
                        !["ptrUpd"] = Append(@, PtrUpd(Qpn, fsm.ptr))]
    /\ fsm' = [fsm EXCEPT !.state = "MAIN"]
    /\ UNCHANGED <<env, ptr, meta, free, events>>

(* mutant: the entry is not given back to the free list *)
Update1Leaks ==
    /\ GotMeta("UPDATE_1") /\ fsm.op[1].op \notin KeepsEntry /\ Room("ptrUpd")
    /\ LET m == Head(fifo["metaRsp"])
       IN /\ init' = IF fsm.op[1].op \in ForwardsAddress THEN Append(init, m.e.laddr) ELSE init
          /\ fifo' = [fifo EXCEPT !["metaRsp"] = Tail(@),
                        !["ptrUpd"] = Append(@, PtrUpd(Qpn, [fsm.ptr EXCEPT
                                                !.head = m.next, !.valid = ~m.isTail]))]
    /\ fsm' = [fsm EXCEPT !.state = "MAIN"]
    /\ UNCHANGED <<env, ptr, meta, free, events>>

Update1Release ==
    /\ GotMeta("UPDATE_1")
    /\ fsm.op[1].op \notin KeepsEntry
    /\ Room("ptrUpd") /\ Len(free.release) < Depth
    /\ LET m == Head(fifo["metaRsp"])
       IN /\ init' = IF fsm.op[1].op \in ForwardsAddress THEN Append(init, m.e.laddr) ELSE init
          /\ fifo' = [fifo EXCEPT !["metaRsp"] = Tail(@),
                        !["ptrUpd"] = Append(@, PtrUpd(Qpn, [fsm.ptr EXCEPT
                                                !.head = m.next, !.valid = ~m.isTail]))]
    /\ free' = [free EXCEPT !.release = Append(@, fsm.idx)]
    /\ fsm' = [fsm EXCEPT !.state = "MAIN"]
    /\ UNCHANGED <<env, ptr, meta, events>>

(* RETRANS_0 and TIMER_RETRANS_0: the head of the list is read, to look    *)
(* for the PSN or to send everything.                                      *)
StartRetrans(state, next) ==
    /\ GotPtr(state) /\ Room("metaReq")
    /\ LET p == Head(fifo["ptrRsp"])
       IN /\ fifo' = [fifo EXCEPT !["ptrRsp"] = Tail(@),
                        !["metaReq"] = IF p.valid THEN Append(@, Read(p.head)) ELSE @]
          /\ fsm' = [fsm EXCEPT !.state = IF p.valid THEN next ELSE "MAIN"]
    /\ UNCHANGED <<env, ptr, meta, free, events, init>>
Retrans0 == StartRetrans("RETRANS_0", "RETRANS_1")
TimerRetrans0 == StartRetrans("TIMER_RETRANS_0", "RETRANS_2")

(* RETRANS_1: the entry after this one is asked for.  Where the PSN is not *)
(* found the state stays, at the tail without a request.                   *)
Retrans1 ==
    /\ GotMeta("RETRANS_1") /\ Room("metaReq")
    /\ LET m == Head(fifo["metaRsp"])
           found == m.e.psn = fsm.op[1].psn
       IN /\ fifo' = [fifo EXCEPT !["metaRsp"] = Tail(@),
                        !["metaReq"] = IF m.isTail THEN @ ELSE Append(@, Read(m.next))]
          /\ events' = IF found THEN Append(events, m.e) ELSE events
          /\ fsm' = [fsm EXCEPT !.state = IF ~found THEN "RETRANS_1"
                                          ELSE IF m.isTail THEN "MAIN" ELSE "RETRANS_2"]
    /\ UNCHANGED <<env, ptr, meta, free, init>>

(* RETRANS_2: every entry up to the tail.                                  *)
Retrans2 ==
    /\ GotMeta("RETRANS_2") /\ Room("metaReq")
    /\ LET m == Head(fifo["metaRsp"])
       IN /\ fifo' = [fifo EXCEPT !["metaRsp"] = Tail(@),
                        !["metaReq"] = IF m.isTail THEN @ ELSE Append(@, Read(m.next))]
          /\ events' = Append(events, m.e)
          /\ fsm' = [fsm EXCEPT !.state = IF m.isTail THEN "MAIN" ELSE "RETRANS_2"]
    /\ UNCHANGED <<env, ptr, meta, free, init>>

------------------------------------------------------------------------------
Tables == PtrUpdate \/ PtrRequest \/ MetaTable
Process ==
    \/ MainUpdate \/ MainNak \/ MainTimeout \/ MainInsert
    \/ Insert0First \/ Insert0Append \/ Insert1
    \/ Update0 \/ Update1Keep \/ Update1Release
    \/ Retrans0 \/ TimerRetrans0 \/ Retrans1 \/ Retrans2

Next == Arrive \/ Tables \/ FreeList \/ Process

(* The four processes run for ever.                                        *)
Fairness == WF_vars(Tables) /\ WF_vars(FreeList) /\ WF_vars(Process)
Spec == Init /\ [][Next]_vars /\ Fairness

------------------------------------------------------------------------------
(* The lists as the FIFOs will leave them: the pointer of q and the table  *)
(* with the requests on their way applied.                                 *)

PtrOf(q) ==
    LET upd == {i \in DOMAIN fifo["ptrUpd"] : fifo["ptrUpd"][i].qpn = q}
    IN IF upd = {} THEN ptr.table[q] ELSE fifo["ptrUpd"][Max(upd)].entry

AllApplied(t, reqs) ==
    LET after[n \in 0 .. Len(reqs)] == IF n = 0 THEN t ELSE Applied(after[n - 1], reqs[n])
    IN after[Len(reqs)]
MetaNow == AllApplied(meta, fifo["metaReq"])

(* The indices from the head to the tail of a pointer p.                   *)
Walk(p, t) ==
    LET walk[n \in 1 .. TableSize] ==
            IF n = 1 THEN <<p.head>>
            ELSE IF Last(walk[n - 1]) = p.tail THEN walk[n - 1]
            ELSE Append(walk[n - 1], t[Last(walk[n - 1])].next)
    IN IF p.valid THEN walk[TableSize] ELSE <<>>
Chain(q) == Walk(PtrOf(q), MetaNow)

Entries(q) == LET c == Chain(q) IN [k \in DOMAIN c |-> MetaNow[c[k]].e]

(* The refinement mapping: an operation has happened once it is taken, and *)
(* a retransmission has as many entries to send as follow the one asked    *)
(* for.                                                                    *)
Doing(q, states) == fsm.state \in states /\ Qpn = q
Updating == {"UPDATE_0", "UPDATE_1"}
AbsList ==
    [q \in Qps |->
        IF Doing(q, Updating) THEN Answered(Entries(q), fsm.op[1].op)
        ELSE IF Doing(q, {"INSERT_0", "INSERT_1"})
             THEN Append(Entries(q), fsm.op[1].entry)
             ELSE Entries(q)]

(* Where in its list a walk is: at the entry that is asked for or answered. *)
AnswerIsAt(c, k) ==
    LET m == Head(fifo["metaRsp"])
    IN IF m.isTail THEN k = Len(c) ELSE k < Len(c) /\ c[k + 1] = m.next
Position ==
    LET c == Chain(Qpn)
    IN CHOOSE k \in DOMAIN c : IF fifo["metaRsp"] # <<>> THEN AnswerIsAt(c, k)
                               ELSE c[k] = Last(fifo["metaReq"]).idx
AbsPending ==
    CASE fsm.state \in {"RETRANS_0", "RETRANS_1"} -> SuffixFrom(Entries(Qpn), fsm.op[1].psn)
      [] fsm.state = "TIMER_RETRANS_0" -> Entries(Qpn)
      [] fsm.state = "RETRANS_2" -> SubSeq(Entries(Qpn), Position, Len(Entries(Qpn)))
      [] OTHER -> <<>>
AbsInit ==
    IF fsm.state \in Updating /\ Entries(Qpn) # <<>> /\ fsm.op[1].op \in ForwardsAddress
    THEN Append(init, Head(Entries(Qpn)).laddr) ELSE init
AbsLost ==
    /\ fsm.state \in {"RETRANS_0", "RETRANS_1"}
    /\ Entries(Qpn) # <<>> /\ IndexOf(Entries(Qpn), fsm.op[1].psn) = 0

Queue == INSTANCE RetransQueue WITH list <- AbsList, pending <- AbsPending,
                                    init <- AbsInit, lost <- AbsLost

------------------------------------------------------------------------------
(* The retransmitter implements the lists of RetransQueue, although the    *)
(* pointer and the entries of a list are written and read over FIFOs, and  *)
(* a list is walked without its lock.                                      *)
Implements == Queue!AbsSpec

(* Where the indices of the table are: in the list of a queue pair, in the *)
(* free list or on their way to it, in the hands of an insertion, or never *)
(* used.                                                                   *)
Tags == ({"list"} \X Qps) \cup {<<"free", 0>>, <<"release", 0>>, <<"hand", 0>>, <<"unused", 0>>}
Places ==
    [x \in Tags |->
        CASE x[1] = "list" -> Chain(x[2])
          [] x[1] = "free" -> free.list
          [] x[1] = "release" -> free.release
          [] x[1] = "hand" -> IF fsm.state \in {"INSERT_0", "INSERT_1"} THEN <<fsm.idx>> ELSE <<>>
          [] x[1] = "unused" -> [k \in 1 .. TableSize - free.counter |-> free.counter + k - 1]]

(* Every index of the table is in one place: none is lost and none is used *)
(* twice, and an entry that is read has been written.                      *)
IndicesConserved ==
    /\ LET at == Places
       IN /\ UNION {{at[x][k] : k \in DOMAIN at[x]} : x \in Tags} = Indices
          /\ \A x, y \in Tags : \A j \in DOMAIN at[x], k \in DOMAIN at[y] :
                at[x][j] = at[y][k] => x = y /\ j = k
    /\ fifo["metaRsp"] # <<>> => Head(fifo["metaRsp"]).valid

(* A locking request always finds the lock free: the one client writes the *)
(* pointer back before it asks for the next one, and updates go first.     *)
LockFree ==
    /\ ptr.wait = <<>>
    /\ fsm.state = "MAIN" /\ fifo["ptrUpd"] = <<>> => ptr.locked = <<>>

(* Every answer, NAK and timeout that arrives is taken and finished, and    *)
(* process_retransmissions is ready again, unless a NAK named a PSN that   *)
(* is not stored.  Insertions may stay queued: the table may be full.      *)
ReadyAgain ==
    []<>(\/ fsm.state = "MAIN" /\ \A k \in Kinds \ {"insert"} : in[k] = <<>>
         \/ AbsLost)
=============================================================================
