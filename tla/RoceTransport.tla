--------------------------- MODULE RoceTransport ---------------------------
(***************************************************************************)
(* The reliable connection of ib_transport_protocol, between the requester *)
(* of one queue pair and its responder, over a network that loses packets. *)
(*                                                                         *)
(* Requester: local_req_handler sends the requests of the user and the     *)
(* retransmissions; meta_merger, generate_ibh and generate_exh give a      *)
(* packet its PSN, enter it in the retransmitter and start the timer;      *)
(* rx_ibh_fsm checks the PSN of an answer, rx_exh_fsm places read data.    *)
(* Responder: rx_ibh_fsm accepts, answers again, or drops a request;       *)
(* rx_exh_fsm writes it to memory and acknowledges it;                     *)
(* handle_read_requests cuts a read into responses.                        *)
(*                                                                         *)
(* Payloads are counted in packets of PMTU bytes, addresses in such        *)
(* blocks.  The payload of a packet is the address it was read from.  PSNs *)
(* are taken modulo PsnMod (2^24 in the code).                             *)
(***************************************************************************)
EXTENDS RetransList, SeqSums, FiniteSets

CONSTANTS Scenarios,   \* the programs of requests that are explored
          RetryCount,  \* RETRANS_RETRY_CNT
          FirstPsn     \* PSN both sides are set up with

(* Opcodes and their classes. *)

Writes == {"WRITE_FIRST", "WRITE_MIDDLE", "WRITE_LAST", "WRITE_ONLY"}
Sends == {"SEND_FIRST", "SEND_MIDDLE", "SEND_LAST", "SEND_ONLY"}
ReadResponses == {"RESP_FIRST", "RESP_MIDDLE", "RESP_LAST", "RESP_ONLY"}
HasRdmaHeader == {"WRITE_ONLY", "WRITE_FIRST", "READ"}

(* The packets a request stands for: a read takes one PSN per response.    *)
NumPkg(op, len) == IF op = "READ" THEN len ELSE 1

Taken(program) == [i \in DOMAIN program |-> NumPkg(program[i].op, program[i].len)]

(* Requests, one per packet: a packet of a WRITE without an RDMA header     *)
(* continues the packet before it.  The responder keeps the first PSN as   *)
(* the oldest one (resp_old_outstanding): no PSN is used twice.            *)
Request == [op : Writes \cup Sends \cup {"READ"}, laddr : Nat, raddr : Nat, len : Nat \ {0}]
Continues(r, q) == q.op \in {"WRITE_FIRST", "WRITE_MIDDLE"} /\ r.raddr = q.raddr + 1
WellCut(program) ==
    /\ program \in Seq(Request) /\ Total(Taken(program)) < PsnMod
    /\ \A i \in DOMAIN program : program[i].op \in {"WRITE_MIDDLE", "WRITE_LAST"} =>
            i > 1 /\ Continues(program[i], program[i - 1])

ASSUME RoceAssumption ==
    /\ PsnMod \in Nat \ {0, 1} /\ RetryCount \in Nat \ {0}
    /\ FirstPsn \in 0 .. PsnMod - 1
    /\ \A s \in Scenarios : WellCut(s.program) /\ s.window \in Nat /\ s.losses \in Nat

VARIABLES sc,       \* the scenario: [program, window, losses, may]
          sq,       \* requests of the program that were sent
          nextPsn,  \* req_next_psn of the requester's state table
          unack,    \* req_old_unack of the requester's state table
          rt,       \* retransmitter: the list of the queue pair and its FIFOs
          timer,    \* the entry of transport_timer and its two FIFOs
          rx,       \* rx_ibh_fsm of the requester: <<>> in LOAD
          exh,      \* rx_exh_fsm of the requester, msn_table, placed data
          acked,    \* m_axis_rx_ack_meta: what the user was told
          net,      \* packets on the wire, and how many were lost
          resp      \* the responder

vars == <<sc, sq, nextPsn, unack, rt, timer, rx, exh, acked, net, resp>>
tx == <<sq, nextPsn, acked>>

------------------------------------------------------------------------------
(* PSNs. *)

Inc(psn, n) == (psn + n) % PsnMod

(* psn lies in the region of unacknowledged requests epsn .. maxForward.   *)
InFlight(psn, epsn, maxForward) ==
    \/ epsn <= psn /\ psn <= maxForward
    \/ (epsn <= psn \/ psn <= maxForward) /\ maxForward < epsn

(* psn was accepted before: it lies in oldest .. epsn - 1.                 *)
IsDuplicate(psn, epsn, oldest) ==
    \/ oldest < epsn /\ psn < epsn /\ psn >= oldest
    \/ oldest > epsn /\ (psn < epsn \/ psn >= oldest)

------------------------------------------------------------------------------
(* qp_interface and state_table set a queue pair up. *)

StateSetup == nextPsn = FirstPsn /\ unack = FirstPsn
Init ==
    /\ sc \in Scenarios
    /\ sq = 0 /\ StateSetup
    /\ rt = [list |-> <<>>, insert |-> <<>>, upd |-> <<>>, nak |-> <<>>,
             timeout |-> 0, events |-> <<>>, init |-> <<>>, lost |-> FALSE]
    /\ timer = [active |-> FALSE, retries |-> 0, set |-> 0, clear |-> <<>>]
    /\ rx = <<>>
    /\ exh = [fifo |-> <<>>, vaddr |-> 0, mem |-> <<>>]
    /\ acked = <<>>
    /\ net = [req |-> <<>>, rsp |-> <<>>, lost |-> 0]
    /\ resp = [epsn |-> FirstPsn, retry |-> 7, fifo |-> <<>>, msn |-> 0,
               vaddr |-> 0, mem |-> <<>>, exhEvents |-> <<>>,
               ibhEvents |-> <<>>, reads |-> <<>>, readEvents |-> <<>>]

------------------------------------------------------------------------------
(* The requester sends. *)

(* meta_merger, generate_ibh and generate_exh.  WRITEs and READs start the *)
(* timer, SENDs do not.  Only a packet that has no PSN yet takes one and   *)
(* is entered in the retransmitter.                                        *)
StartsTimerWrites(op) == op \in Writes   (* mutant: no timer for a READ *)
StartsTimer(op) == op \in Writes \cup {"READ"}

Packet(e) == [op |-> e.op, psn |-> e.psn, len |-> e.len, raddr |-> e.raddr,
              data |-> e.laddr]

TransmitTimer(op) ==
    timer' = IF StartsTimer(op) THEN [timer EXCEPT !.set = @ + 1] ELSE timer

(* local_req_handler: a request of the user, when no retransmission waits. *)
(* The user keeps at most sc.window requests unanswered.                   *)
LocalRequest ==
    /\ rt.events = <<>>
    /\ sq < Len(sc.program)
    /\ sq - Len(acked) < sc.window
    /\ LET r == sc.program[sq + 1]
           e == [op |-> r.op, psn |-> nextPsn, laddr |-> r.laddr,
                 raddr |-> r.raddr, len |-> r.len]
       IN /\ net' = [net EXCEPT !.req = Append(@, Packet(e))]
          /\ nextPsn' = Inc(nextPsn, NumPkg(r.op, r.len))
          /\ rt' = [rt EXCEPT !.insert = Append(@, e)]
          /\ TransmitTimer(r.op)
    /\ sq' = sq + 1
    /\ UNCHANGED <<sc, unack, rx, exh, acked, resp>>

LocalRetransmit ==
    /\ rt.events # <<>>
    /\ net' = [net EXCEPT !.req = Append(@, Packet(Head(rt.events)))]
    /\ rt' = [rt EXCEPT !.events = Tail(@)]
    /\ TransmitTimer(Head(rt.events).op)
    /\ UNCHANGED <<sc, tx, unack, rx, exh, resp>>

------------------------------------------------------------------------------
(* transport_timer.  A clear goes before a set, a set before the scan.     *)

TimerClear ==
    /\ timer.clear # <<>>
    /\ timer' = [timer EXCEPT !.clear = Tail(@), !.retries = 0,
                              !.active = @ /\ ~Head(timer.clear)]
    /\ UNCHANGED <<sc, tx, unack, rt, rx, exh, net, resp>>

TimerSet ==
    /\ timer.clear = <<>> /\ timer.set > 0
    /\ timer' = [timer EXCEPT !.set = @ - 1, !.active = TRUE]
    /\ UNCHANGED <<sc, tx, unack, rt, rx, exh, net, resp>>

(* Nothing of the queue pair is on its way.  The timeout (1 ms and more) is *)
(* longer than the life of a packet and of its answer.                     *)
Quiet ==
    /\ net.req = <<>> /\ net.rsp = <<>> /\ rx = <<>> /\ exh.fifo = <<>>
    /\ rt.insert = <<>> /\ rt.upd = <<>> /\ rt.nak = <<>> /\ rt.events = <<>>
    /\ rt.timeout = 0 /\ timer.clear = <<>> /\ timer.set = 0
    /\ resp.fifo = <<>> /\ resp.reads = <<>> /\ resp.readEvents = <<>>
    /\ resp.exhEvents = <<>> /\ resp.ibhEvents = <<>>

TimerExpire ==
    /\ timer.active /\ Quiet
    /\ timer' = [timer EXCEPT !.active = FALSE,
                    !.retries = IF @ < RetryCount THEN @ + 1 ELSE @]
    /\ rt' = IF timer.retries < RetryCount
             THEN [rt EXCEPT !.timeout = @ + 1] ELSE rt
    /\ UNCHANGED <<sc, tx, unack, rx, exh, net, resp>>

------------------------------------------------------------------------------
(* retransmitter, as its abstract specification RetransList describes it.  *)
(* An answer goes before a NAK, a NAK before a timeout, both before an     *)
(* insertion.  A NAK of a PSN that is not in the list ends the traversal   *)
(* at the tail, and the state machine waits there for ever.                *)

RetransUpdate ==
    /\ ~rt.lost /\ rt.upd # <<>>
    /\ LET op == Head(rt.upd)
       IN rt' = [rt EXCEPT !.upd = Tail(@),
                   !.list = Answered(@, op),
                   !.init = IF rt.list # <<>> /\ op \in ForwardsAddress
                            THEN Append(@, Head(rt.list).laddr) ELSE @]
    /\ UNCHANGED <<sc, tx, unack, timer, rx, exh, net, resp>>

RetransNak ==
    /\ ~rt.lost /\ rt.upd = <<>> /\ rt.nak # <<>>
    /\ rt' = [rt EXCEPT !.nak = Tail(@),
                !.events = @ \o SuffixFrom(rt.list, Head(rt.nak)),
                !.lost = rt.list # <<>> /\ IndexOf(rt.list, Head(rt.nak)) = 0]
    /\ UNCHANGED <<sc, tx, unack, timer, rx, exh, net, resp>>

(* mutant: a request that is sent again is not kept *)
RetransTimeoutForgets ==
    /\ ~rt.lost /\ rt.upd = <<>> /\ rt.nak = <<>> /\ rt.timeout > 0
    /\ rt' = [rt EXCEPT !.timeout = @ - 1, !.events = @ \o rt.list, !.list = <<>>]
    /\ UNCHANGED <<sc, tx, unack, timer, rx, exh, net, resp>>

RetransTimeout ==
    /\ ~rt.lost /\ rt.upd = <<>> /\ rt.nak = <<>> /\ rt.timeout > 0
    /\ rt' = [rt EXCEPT !.timeout = @ - 1, !.events = @ \o rt.list]
    /\ UNCHANGED <<sc, tx, unack, timer, rx, exh, net, resp>>

RetransInsert ==
    /\ ~rt.lost /\ rt.upd = <<>> /\ rt.nak = <<>> /\ rt.timeout = 0
    /\ rt.insert # <<>>
    /\ rt' = [rt EXCEPT !.insert = Tail(@), !.list = Append(@, Head(rt.insert))]
    /\ UNCHANGED <<sc, tx, unack, timer, rx, exh, net, resp>>

------------------------------------------------------------------------------
(* The requester receives an answer. *)

(* A request is stored before its answer can arrive: storing it takes a    *)
(* few clock cycles, the way to the responder and back hundreds.           *)
StoredBefore(p) == \A i \in DOMAIN rt.insert : rt.insert[i].psn # p.psn

(* rx_ibh_fsm, LOAD: the headers of the answer, and the window of the      *)
(* queue pair as the state table returns it.                               *)
ResponseWindow(p) == [p |-> p, epsn |-> unack, maxForward |-> Inc(nextPsn, -1)]
RxLoad ==
    /\ rx = <<>> /\ net.rsp # <<>> /\ StoredBefore(Head(net.rsp))
    /\ rx' = <<ResponseWindow(Head(net.rsp))>>
    /\ net' = [net EXCEPT !.rsp = Tail(@)]
    /\ UNCHANGED <<sc, tx, unack, rt, timer, exh, resp>>

RxAcceptAny ==   (* mutant: the PSN of an answer is not checked *)
    /\ rx # <<>>
    /\ LET p == rx[1].p
       IN /\ unack' = IF p.nak THEN unack ELSE Inc(p.psn, 1)
          /\ exh' = [exh EXCEPT !.fifo = Append(@, p)]
          /\ rt' = IF p.nak THEN rt ELSE [rt EXCEPT !.upd = Append(@, p.op)]
          /\ acked' = IF p.nak \/ p.op \in KeepsEntry THEN acked ELSE Append(acked, p.psn)
          /\ timer' = [timer EXCEPT !.clear = Append(@, p.psn = rx[1].maxForward)]
    /\ rx' = <<>>
    /\ UNCHANGED <<sc, sq, nextPsn, net, resp>>

(* rx_ibh_fsm, PROCESS: the expected answer, or any ACK. *)
RxAccept ==
    /\ rx # <<>>
    /\ LET p == rx[1].p
           q == rx[1]
       IN /\ p.psn = q.epsn \/ p.op = "ACK"
          /\ unack' = IF ~p.nak /\ (p.op # "ACK" \/ InFlight(p.psn, q.epsn, q.maxForward))
                      THEN Inc(p.psn, 1) ELSE unack
          /\ exh' = [exh EXCEPT !.fifo = Append(@, p)]
          /\ rt' = IF p.nak THEN rt ELSE [rt EXCEPT !.upd = Append(@, p.op)]
          /\ acked' = IF p.nak \/ p.op \in KeepsEntry THEN acked
                      ELSE Append(acked, p.psn)
          /\ timer' = IF p.op = "RESP_MIDDLE" THEN timer
                      ELSE [timer EXCEPT !.clear = Append(@, p.psn = q.maxForward)]
    /\ rx' = <<>>
    /\ UNCHANGED <<sc, sq, nextPsn, net, resp>>

(* rx_ibh_fsm, PROCESS: a read response with another PSN is dropped, as a  *)
(* duplicate or as invalid; for an answer no NAK is sent.                  *)
RxDrop ==
    /\ rx # <<>>
    /\ rx[1].p.psn # rx[1].epsn /\ rx[1].p.op # "ACK"
    /\ rx' = <<>>
    /\ UNCHANGED <<sc, tx, unack, rt, timer, exh, net, resp>>

(* rx_exh_fsm: read data is written to the address the retransmitter       *)
(* forwards for the first packet, or behind the packet before it.          *)
RxExh ==
    /\ exh.fifo # <<>>
    /\ LET p == Head(exh.fifo)
           first == p.op \in ForwardsAddress
           addr == IF first THEN rt.init[1] ELSE exh.vaddr
       IN /\ first => rt.init # <<>>
          /\ exh' = IF p.op \in ReadResponses
                    THEN [exh EXCEPT !.fifo = Tail(@),
                            !.mem = Append(@, <<addr, p.data>>),
                            !.vaddr = IF p.op = "RESP_LAST" THEN @ ELSE addr + 1]
                    ELSE [exh EXCEPT !.fifo = Tail(@)]
          /\ rt' = [rt EXCEPT !.init = IF first THEN Tail(@) ELSE @,
                              !.nak = IF p.nak THEN Append(@, p.psn) ELSE @]
    /\ UNCHANGED <<sc, tx, unack, timer, rx, net, resp>>

------------------------------------------------------------------------------
(* The responder. *)

Accept(p) ==
    /\ p.psn = resp.epsn
    /\ resp' = [resp EXCEPT !.epsn = Inc(p.psn, NumPkg(p.op, p.len)), !.retry = 7,
                            !.fifo = Append(@, p)]

AgainWrites(p) ==   (* mutant: a duplicate write is executed again, too *)
    /\ p.psn # resp.epsn /\ IsDuplicate(p.psn, resp.epsn, FirstPsn)
    /\ resp' = [resp EXCEPT !.fifo = Append(@, p)]

(* A duplicate read is executed again, a duplicate write is acknowledged   *)
(* again, any other duplicate is dropped.                                  *)
Again(p) ==
    /\ p.psn # resp.epsn /\ IsDuplicate(p.psn, resp.epsn, FirstPsn)
    /\ resp' = CASE p.op = "READ" -> [resp EXCEPT !.fifo = Append(@, p)]
                 [] p.op \in Writes ->
                        [resp EXCEPT !.ibhEvents = Append(@, [psn |-> p.psn, nak |-> FALSE])]
                 [] OTHER -> resp

(* Out of order: one NAK, then silence until a request is accepted.        *)
Reject(p) ==
    /\ p.psn # resp.epsn /\ ~IsDuplicate(p.psn, resp.epsn, FirstPsn)
    /\ resp' = IF resp.retry = 7
               THEN [resp EXCEPT !.retry = 6,
                        !.ibhEvents = Append(@, [psn |-> resp.epsn, nak |-> TRUE])]
               ELSE resp

(* rx_ibh_fsm on the request at the head of the wire.                      *)
RespIbh ==
    /\ net.req # <<>>
    /\ Accept(Head(net.req)) \/ Again(Head(net.req)) \/ Reject(Head(net.req))
    /\ net' = [net EXCEPT !.req = Tail(@)]
    /\ UNCHANGED <<sc, tx, unack, rt, timer, rx, exh>>

(* rx_exh_fsm and msn_table: only the packets that carry an RDMA header    *)
(* name an address, the others continue behind the packet before them.  A  *)
(* SEND and a READ reset the address.                                      *)
MsnLookup(p) == IF p.op \in HasRdmaHeader THEN p.raddr ELSE resp.vaddr
RespExh ==
    /\ resp.fifo # <<>>
    /\ LET p == Head(resp.fifo)
           addr == MsnLookup(p)
           ack == [psn |-> p.psn, nak |-> FALSE]
           next == [resp EXCEPT !.fifo = Tail(@), !.msn = @ + 1]
       IN resp' =
            CASE p.op \in Writes ->
                    [next EXCEPT !.mem = Append(@, <<addr, p.data>>), !.vaddr = addr + 1,
                                 !.exhEvents = Append(@, ack)]
              [] p.op \in Sends ->
                    [next EXCEPT !.mem = Append(@, <<0, p.data>>), !.vaddr = 0,
                                 !.exhEvents = Append(@, ack)]
              [] p.op = "READ" ->
                    [next EXCEPT !.vaddr = 0,
                                 !.reads = Append(@, [op |-> "RESP_ONLY", psn |-> p.psn,
                                                      raddr |-> p.raddr, len |-> p.len])]
    /\ UNCHANGED <<sc, tx, unack, rt, timer, rx, exh, net>>

(* handle_read_requests: one response per step, META for the first one and *)
(* GENERATE for the others.                                                *)
HandleRead ==
    /\ resp.reads # <<>>
    /\ LET r == Head(resp.reads)
           first == r.op = "RESP_ONLY"
           more == r.len > 1
           op == IF first THEN IF more THEN "RESP_FIRST" ELSE "RESP_ONLY"
                 ELSE IF more THEN "RESP_MIDDLE" ELSE "RESP_LAST"
           rest == [op |-> "RESP_MIDDLE", psn |-> Inc(r.psn, 1), raddr |-> r.raddr + 1,
                    len |-> r.len - 1]
       IN resp' = [resp EXCEPT
                     !.reads = IF more THEN <<rest>> \o Tail(@) ELSE Tail(@),
                     !.readEvents = Append(@, [op |-> op, psn |-> r.psn, data |-> r.raddr])]
    /\ UNCHANGED <<sc, tx, unack, rt, timer, rx, exh, net>>

(* stream_merger prefers the events of rx_exh_fsm to those of rx_ibh_fsm,  *)
(* meta_merger prefers either to a read response.                          *)
SendAck ==
    /\ resp.exhEvents # <<>> \/ resp.ibhEvents # <<>>
    /\ LET fromExh == resp.exhEvents # <<>>
           ev == IF fromExh THEN Head(resp.exhEvents) ELSE Head(resp.ibhEvents)
       IN /\ net' = [net EXCEPT !.rsp = Append(@, [op |-> "ACK", psn |-> ev.psn,
                                                   nak |-> ev.nak, data |-> 0])]
          /\ resp' = IF fromExh THEN [resp EXCEPT !.exhEvents = Tail(@)]
                     ELSE [resp EXCEPT !.ibhEvents = Tail(@)]
    /\ UNCHANGED <<sc, tx, unack, rt, timer, rx, exh>>

SendReadResponse ==
    /\ resp.exhEvents = <<>> /\ resp.ibhEvents = <<>> /\ resp.readEvents # <<>>
    /\ LET ev == Head(resp.readEvents)
       IN net' = [net EXCEPT !.rsp = Append(@, [op |-> ev.op, psn |-> ev.psn,
                                                nak |-> FALSE, data |-> ev.data])]
    /\ resp' = [resp EXCEPT !.readEvents = Tail(@)]
    /\ UNCHANGED <<sc, tx, unack, rt, timer, rx, exh>>

(* The network drops a packet, as often as the scenario allows.            *)
Lose ==
    /\ net.lost < sc.losses
    /\ \/ /\ "request" \in sc.may /\ net.req # <<>>
          /\ net' = [net EXCEPT !.req = Tail(@), !.lost = @ + 1]
       \/ /\ "answer" \in sc.may /\ net.rsp # <<>>
          /\ net' = [net EXCEPT !.rsp = Tail(@), !.lost = @ + 1]
    /\ UNCHANGED <<sc, tx, unack, rt, timer, rx, exh, resp>>

------------------------------------------------------------------------------
Send == LocalRequest \/ LocalRetransmit
Timer == TimerClear \/ TimerSet \/ TimerExpire
Retransmitter == RetransUpdate \/ RetransNak \/ RetransTimeout \/ RetransInsert
Receive == RxLoad \/ RxAccept \/ RxDrop \/ RxExh
Responder == RespIbh \/ RespExh \/ HandleRead \/ SendAck \/ SendReadResponse

Next == Send \/ Timer \/ Retransmitter \/ Receive \/ Responder \/ Lose

(* Every process of the dataflow region runs for ever, and the scan of the *)
(* timer reaches a queue pair that waits.                                  *)
Fairness ==
    /\ WF_vars(Send) /\ WF_vars(Timer) /\ WF_vars(Retransmitter)
    /\ WF_vars(Receive) /\ WF_vars(Responder)

Spec == Init /\ [][Next]_vars /\ Fairness

------------------------------------------------------------------------------
(* What the program of the scenario means.                                 *)

WrittenBy(r) ==
    IF r.op = "READ" THEN <<>>
    ELSE <<<<IF r.op \in Sends THEN 0 ELSE r.raddr, r.laddr>>>>
ReadBy(r) ==
    IF r.op = "READ" THEN [k \in 1 .. r.len |-> <<r.laddr + k - 1, r.raddr + k - 1>>]
    ELSE <<>>
WrittenData == FlattenSeq([i \in DOMAIN sc.program |-> WrittenBy(sc.program[i])])
ReadData == FlattenSeq([i \in DOMAIN sc.program |-> ReadBy(sc.program[i])])

(* Number of PSNs before request i, and whether the responder took it.     *)
Offset(i) == Sums(Taken(sc.program))[i - 1]
Executed(i) == Offset(i) < Inc(resp.epsn, -FirstPsn)

(* The programs that the theorems of RoceTransportProofs are about.        *)
ReadFree == \A i \in DOMAIN sc.program : sc.program[i].op # "READ"

(* Other shapes of programs.                                               *)
IsRead(i) == sc.program[i].op = "READ"
OnlyReads == \A i \in DOMAIN sc.program : IsRead(i)
ReadsLast == \A i, j \in DOMAIN sc.program : i < j /\ IsRead(i) => IsRead(j)
CutAfterRead ==
    \E i, j \in DOMAIN sc.program :
        i < j /\ IsRead(i) /\ sc.program[j].op \in {"WRITE_MIDDLE", "WRITE_LAST"}

(* Requests reach the responder without gaps.  (After a gap a NAK and a     *)
(* timeout may both send a request again: its second ACK then releases a   *)
(* request that was never received.)                                       *)
Gapless == sc.window = 1 \/ sc.losses = 0 \/ "request" \notin sc.may

------------------------------------------------------------------------------
(* What the responder has written to memory is a prefix of what the        *)
(* requests say: each packet once, in order, at its address, although      *)
(* requests are lost, retransmitted and received again.                    *)
WritesPlaced == IsPrefix(resp.mem, WrittenData)

(* The responder keeps one address per queue pair.  A READ that is received *)
(* again resets it, and a WRITE of several packets that is under way then  *)
(* continues at the wrong one (RoceTransportCut.cfg).                      *)
WritesInOrder == sc.window = 1 \/ sc.losses = 0 \/ ~CutAfterRead => WritesPlaced

(* Read data reaches the requester's memory once, in order, at the         *)
(* addresses of the read it answers: the address comes from the head of    *)
(* the retransmission list, which must be that read.                       *)
ReadDataPlaced == IsPrefix(exh.mem, ReadData)

(* With several requests outstanding the head is another request as soon   *)
(* as an ACK is ahead of the response: meta_merger sends the ACK of a      *)
(* later request first (RoceTransportReads.cfg), and the request before    *)
(* the READ, whose ACK was lost, is still in the list.                     *)
ReadsInTurn ==
    \/ sc.window = 1
    \/ ReadsLast /\ sc.losses = 0
    \/ OnlyReads /\ Gapless
ReadsPlaced == ReadsInTurn => ReadDataPlaced

(* Without gaps, a request the responder has not taken is still in the     *)
(* retransmission list or on its way there: answers release the oldest     *)
(* entry whatever their PSN, yet never one that may have to be sent again. *)
NothingForgotten ==
    Gapless => \A i \in 1 .. sq :
        Executed(i) \/ \E e \in ToSet(rt.list \o rt.insert) : e.psn = Inc(FirstPsn, Offset(i))

(* Without gaps, the user is told of no more completions than requests     *)
(* were executed.                                                          *)
CompletionsEarned ==
    Gapless => Len(acked) <= Cardinality({i \in 1 .. sq : Executed(i)})

(* A NAK names a request that is stored: the retransmitter never walks off *)
(* the end of its list, where it would wait for ever.  Does not hold       *)
(* (RoceTransportNak.cfg): an acknowledgement overtakes the NAK.           *)
NakStored == ~rt.lost

(* As long as a request is unanswered something is on its way, or the      *)
(* timer runs.  Does not hold (RoceTransportTimer.cfg): an answer read     *)
(* while a request is on its way out stops the timer of that request.      *)
TimerCovers == Quiet /\ ~timer.active => unack = nextPsn

(* Every request is executed, answered and released in the end.            *)
Complete ==
    /\ resp.mem = WrittenData /\ exh.mem = ReadData
    /\ unack = nextPsn /\ rt.list = <<>> /\ Len(acked) = Len(sc.program)
AllComplete == <>[]Complete

(* It is so for one request at a time, or no request behind a READ, whose  *)
(* ACK overtakes the responses and releases the READ                       *)
(* (RoceTransportOvertaken.cfg), and where nothing is lost.  Losses, no    *)
(* more than there are retries, are recovered from for one request at a    *)
(* time that is no SEND: a SEND starts no timer, and a repeated one is not *)
(* acknowledged.                                                           *)
Recoverable ==
    /\ sc.window = 1 \/ ReadsLast
    /\ \/ sc.losses = 0
       \/ /\ sc.window = 1 /\ sc.losses <= RetryCount
          /\ \A i \in DOMAIN sc.program : sc.program[i].op \notin Sends
Completes == Recoverable => AllComplete
=============================================================================
