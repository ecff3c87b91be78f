---------------------------- MODULE RocePipeline ----------------------------
(***************************************************************************)
(* The dataflow of ib_transport_protocol: headers and payload take         *)
(* different ways through it, and meet again.                              *)
(*                                                                         *)
(* Receive: rx_process_ibh and rx_process_exh cut a packet into its        *)
(* headers and its words; rx_ibh_fsm decides on the packet; drop_ooo_ibh   *)
(* drops or forwards its words, ipUdpMetaHandler its extended header;      *)
(* rx_exh_fsm issues the memory command; rx_exh_payload and merge_rx_pkgs  *)
(* bring the words to memory.                                              *)
(*                                                                         *)
(* Transmit: local_req_handler and handle_read_requests each issue a       *)
(* memory read and an event; mem_cmd_merger and tx_pkg_arbiter bring the   *)
(* words, meta_merger and generate_exh the header; append_payload and      *)
(* prepend_ibh_header join them.                                           *)
(*                                                                         *)
(* A packet is named by its position in the job; the decision of           *)
(* rx_ibh_fsm on it (module RoceTransport) is part of the job.             *)
(***************************************************************************)
EXTENDS Integers, Sequences, SequencesExt

CONSTANTS Jobs,   \* what arrives: [rx, out, local, remote, acks]
          Depth,  \* slots of each FIFO
          PmtuWords \* words of a full packet

(* wordCounter of tx_pkg_arbiter is 8 bits wide: a full packet must have   *)
(* fewer words than that, so the data path must be wider than 64 bits.     *)
ASSUME PipelineAssumption ==
    /\ Depth \in Nat \ {0}
    /\ PmtuWords \in 1 .. 255

VARIABLES job,     \* the job, chosen at the start
          fifo,    \* the FIFOs between the processes
          fsm,     \* the state of each process
          memCmd,  \* memory write commands: packets
          memData, \* words written to memory: packets
          sent,    \* words sent: [bth, exh, pay, last]
          udpMeta  \* packets announced to the UDP module

vars == <<job, fifo, fsm, memCmd, memData, sent, udpMeta>>
rest == <<job, memCmd, memData, sent, udpMeta>>

RxFifos == {"wire", "ibhMeta", "opCode", "shifted", "exhMeta", "exHeader", "toDrop",
            "drop", "policy", "toExhFsm", "header", "split", "shiftType", "forward",
            "aethWords", "rethWords", "noneWords"}
TxFifos == {"local", "remote", "acks", "appMeta", "readEvents", "localCmd", "remoteCmd",
            "memRead", "pkgInfo", "aethPay", "rethPay", "rawPay", "exhEvents", "txIbhMeta",
            "connRsp", "length", "dstQp", "bth", "info", "exhWords", "toIbh"}
Inputs == {"wire", "local", "remote", "acks"}

Room(f) == f \in Inputs \/ Len(fifo[f]) < Depth
Ready(f) == fifo[f] # <<>>
First(f) == Head(fifo[f])

(* A process that is busy with a packet, or idle.                          *)
Idle(p) == fsm[p] = <<>>
Current(p) == fsm[p][1]
Aeth == {"RESP_ONLY", "RESP_FIRST", "RESP_LAST", "ACK"}
Reth == {"WRITE_ONLY", "WRITE_FIRST", "READ"}
Writes == {"WRITE_ONLY", "WRITE_FIRST", "WRITE_MIDDLE", "WRITE_LAST"}

(* The words of packet i.                                                  *)
WordsOf(i, n) == [k \in 1 .. n |-> [pkt |-> i, last |-> k = n]]
Op(i) == job.rx[i].op
OutOp(i) == job.out[i].op

Init ==
    /\ job \in Jobs
    /\ fifo = [f \in RxFifos \cup TxFifos |->
                 CASE f = "wire" ->
                        FlattenSeq([i \in DOMAIN job.rx |-> WordsOf(i, job.rx[i].words)])
                   [] f = "local" -> job.local
                   [] f = "remote" -> job.remote
                   [] f = "acks" -> job.acks
                   [] OTHER -> <<>>]
    /\ fsm = [p \in {"ibh", "exh", "dropper", "payload", "merge", "arbiter", "append",
                     "prepend"} |-> <<>>]
    /\ memCmd = <<>> /\ memData = <<>> /\ sent = <<>> /\ udpMeta = <<>>

------------------------------------------------------------------------------
(* Receive path. *)

(* rx_process_ibh: the headers go ahead with the first word of a packet.   *)
ProcessIbh ==
    /\ Ready("wire") /\ Room("shifted") /\ Room("ibhMeta") /\ Room("opCode")
    /\ LET w == First("wire")
           meta == IF Idle("ibh") THEN <<w.pkt>> ELSE <<>>
       IN /\ fifo' = [fifo EXCEPT !["wire"] = Tail(@), !["shifted"] = Append(@, w),
                                  !["ibhMeta"] = @ \o meta, !["opCode"] = @ \o meta]
          /\ fsm' = [fsm EXCEPT !["ibh"] = IF w.last THEN <<>> ELSE <<w.pkt>>]
    /\ UNCHANGED rest

(* rx_process_exh, META: the opcode tells which extended header follows.   *)
ProcessExhMeta ==
    /\ Idle("exh") /\ Ready("opCode")
    /\ fifo' = [fifo EXCEPT !["opCode"] = Tail(@)]
    /\ fsm' = [fsm EXCEPT !["exh"] = <<First("opCode"), FALSE>>]
    /\ UNCHANGED rest

(* rx_process_exh, the other states: the header goes ahead with the first  *)
(* word (metaWritten); the words of an ACK and of a read request end here. *)
ProcessExhWord ==
    /\ ~Idle("exh") /\ Ready("shifted")
    /\ Room("toDrop") /\ Room("exhMeta") /\ Room("exHeader")
    /\ LET w == First("shifted")
           i == Current("exh")
           meta == IF fsm["exh"][2] THEN <<>> ELSE <<i>>
       IN /\ fifo' = [fifo EXCEPT !["shifted"] = Tail(@),
                        !["exhMeta"] = @ \o meta, !["exHeader"] = @ \o meta,
                        !["toDrop"] = IF Op(i) \in {"ACK", "READ"} THEN @ ELSE Append(@, w)]
          /\ fsm' = [fsm EXCEPT !["exh"] = IF w.last THEN <<>> ELSE <<i, TRUE>>]
    /\ UNCHANGED rest

(* mutant: the extended header of a duplicate write is kept *)
DecisionKeepsHeader(i) ==
    LET v == job.rx[i].verdict
    IN [drop |-> IF Op(i) \in {"ACK", "READ"} THEN <<>> ELSE <<v # "expected">>,
        isDrop |-> v = "invalid", ackOnly |-> FALSE,
        meta |-> IF v = "expected" \/ Op(i) = "READ" THEN <<i>> ELSE <<>>]
(* What rx_ibh_fsm tells the others about packet i: whether its words are  *)
(* dropped (<<>> when it has none), what becomes of its extended header,   *)
(* and whether rx_exh_fsm hears of it.                                     *)
Decision(i) ==
    LET v == job.rx[i].verdict
        d(drop, isDrop, ackOnly, meta) ==
            [drop |-> drop, isDrop |-> isDrop, ackOnly |-> ackOnly, meta |-> meta]
    IN CASE v = "expected" ->
              d(IF Op(i) \in {"ACK", "READ"} THEN <<>> ELSE <<FALSE>>, FALSE, FALSE, <<i>>)
         [] v = "duplicate" /\ Op(i) = "READ" -> d(<<>>, FALSE, FALSE, <<i>>)
         [] v = "duplicate" /\ Op(i) \in Writes -> d(<<TRUE>>, FALSE, TRUE, <<>>)
         [] OTHER -> d(IF Op(i) = "ACK" THEN <<>> ELSE <<TRUE>>, TRUE, FALSE, <<>>)

IbhFsm ==
    /\ Ready("ibhMeta") /\ Ready("exhMeta")
    /\ Room("drop") /\ Room("policy") /\ Room("toExhFsm")
    /\ LET d == Decision(First("ibhMeta"))
       IN fifo' = [fifo EXCEPT !["ibhMeta"] = Tail(@), !["exhMeta"] = Tail(@),
                     !["drop"] = @ \o d.drop, !["policy"] = Append(@, d),
                     !["toExhFsm"] = @ \o d.meta]
    /\ UNCHANGED <<fsm, rest>>

(* drop_ooo_ibh: META reads a decision, FWD and DROP take one packet.      *)
DropMeta ==
    /\ Idle("dropper") /\ Ready("drop")
    /\ fsm' = [fsm EXCEPT !["dropper"] = <<First("drop")>>]
    /\ fifo' = [fifo EXCEPT !["drop"] = Tail(@)]
    /\ UNCHANGED rest

DropWord ==
    /\ ~Idle("dropper") /\ Ready("toDrop") /\ Room("forward")
    /\ LET w == First("toDrop")
       IN /\ fifo' = [fifo EXCEPT !["toDrop"] = Tail(@),
                        !["forward"] = IF Current("dropper") THEN @ ELSE Append(@, w)]
          /\ fsm' = [fsm EXCEPT !["dropper"] = IF w.last THEN <<>> ELSE @]
    /\ UNCHANGED rest

(* ipUdpMetaHandler: the extended header follows the decision.             *)
MetaHandler ==
    /\ Ready("exHeader") /\ Ready("policy") /\ Room("header")
    /\ LET keep == ~First("policy").isDrop /\ ~First("policy").ackOnly
       IN fifo' = [fifo EXCEPT !["exHeader"] = Tail(@), !["policy"] = Tail(@),
                     !["header"] = IF keep THEN Append(@, First("exHeader")) ELSE @]
    /\ UNCHANGED <<fsm, rest>>

(* rx_exh_fsm: the address comes from the header (a RETH) or from the      *)
(* tables, the command is issued for the packet of the header.             *)
ShiftType(op) == IF op \in Reth THEN "reth" ELSE IF op \in Aeth THEN "aeth" ELSE "none"
ExhFsm ==
    /\ Ready("toExhFsm") /\ Ready("header") /\ Room("split") /\ Room("shiftType")
    /\ LET i == First("toExhFsm")
           data == Op(i) \notin {"ACK", "READ"}
       IN /\ fifo' = [fifo EXCEPT !["toExhFsm"] = Tail(@), !["header"] = Tail(@),
                        !["split"] = IF data THEN Append(@, i) ELSE @,
                        !["shiftType"] = IF data THEN Append(@, ShiftType(Op(i))) ELSE @]
          /\ memCmd' = IF data THEN Append(memCmd, First("header")) ELSE memCmd
    /\ UNCHANGED <<job, fsm, memData, sent, udpMeta>>

(* rx_exh_payload: the words of a packet go to the shifter of its header.  *)
PayloadMeta ==
    /\ Idle("payload") /\ Ready("split")
    /\ fsm' = [fsm EXCEPT !["payload"] = <<First("split")>>]
    /\ fifo' = [fifo EXCEPT !["split"] = Tail(@)]
    /\ UNCHANGED rest

WordFifo(type) == type \o "Words"
PayloadWord ==
    /\ ~Idle("payload") /\ Ready("forward")
    /\ LET w == First("forward")
           out == WordFifo(ShiftType(Op(Current("payload"))))
       IN /\ Room(out)
          /\ fifo' = [fifo EXCEPT !["forward"] = Tail(@), ![out] = Append(@, w)]
          /\ fsm' = [fsm EXCEPT !["payload"] = IF w.last THEN <<>> ELSE @]
    /\ UNCHANGED rest

(* merge_rx_pkgs: one packet from the shifter that is named next.          *)
MergeType ==
    /\ Idle("merge") /\ Ready("shiftType")
    /\ fsm' = [fsm EXCEPT !["merge"] = <<WordFifo(First("shiftType"))>>]
    /\ fifo' = [fifo EXCEPT !["shiftType"] = Tail(@)]
    /\ UNCHANGED rest

MergeWord ==
    /\ ~Idle("merge") /\ Ready(Current("merge"))
    /\ LET w == First(Current("merge"))
       IN /\ memData' = Append(memData, w.pkt)
          /\ fifo' = [fifo EXCEPT ![Current("merge")] = Tail(@)]
          /\ fsm' = [fsm EXCEPT !["merge"] = IF w.last THEN <<>> ELSE @]
    /\ UNCHANGED <<job, memCmd, sent, udpMeta>>

------------------------------------------------------------------------------
(* Transmit path.  Packets are indices of job.out.                         *)

(* local_req_handler: a read request has no payload to fetch.              *)
LocalReq ==
    /\ Ready("local") /\ Room("appMeta") /\ Room("localCmd")
    /\ LET i == First("local")
       IN fifo' = [fifo EXCEPT !["local"] = Tail(@), !["appMeta"] = Append(@, i),
                     !["localCmd"] = IF OutOp(i) = "READ" THEN @ ELSE Append(@, i)]
    /\ UNCHANGED <<fsm, rest>>

(* handle_read_requests, one response of it.                               *)
HandleRead ==
    /\ Ready("remote") /\ Room("remoteCmd") /\ Room("readEvents")
    /\ fifo' = [fifo EXCEPT !["remote"] = Tail(@),
                            !["remoteCmd"] = Append(@, First("remote")),
                            !["readEvents"] = Append(@, First("remote"))]
    /\ UNCHANGED <<fsm, rest>>

(* mem_cmd_merger: remote reads first.  The memory returns the words of    *)
(* the commands in order, and marks the end of a transfer, not of a packet.*)
PkgTypeLastRaw(op) == IF op \in Aeth \ {"RESP_LAST"} THEN "aeth"
                      ELSE IF op \in Reth THEN "reth" ELSE "raw"   (* mutant *)
PkgType(op) ==
    CASE op \in {"RESP_ONLY", "RESP_FIRST", "RESP_LAST"} -> "aeth"
      [] op \in {"WRITE_ONLY", "WRITE_FIRST"} -> "reth"
      [] OTHER -> "raw"
EndsTransfer(op) ==
    op \in {"RESP_ONLY", "RESP_LAST", "WRITE_ONLY", "WRITE_LAST", "SEND_ONLY", "SEND_LAST"}
MemCmdMerger ==
    /\ Ready("remoteCmd") \/ Ready("localCmd")
    /\ Room("memRead") /\ Room("pkgInfo")
    /\ LET src == IF Ready("remoteCmd") THEN "remoteCmd" ELSE "localCmd"
           i == First(src)
           n == job.out[i].words
           words == [k \in 1 .. n |-> [pkt |-> i, last |-> k = n /\ EndsTransfer(OutOp(i))]]
       IN fifo' = [fifo EXCEPT ![src] = Tail(@), !["memRead"] = @ \o words,
                     !["pkgInfo"] = Append(@, PkgType(OutOp(i)))]
    /\ UNCHANGED <<fsm, rest>>

(* tx_pkg_arbiter: a packet ends with the transfer, or when it is full.    *)
ArbiterInfo ==
    /\ Idle("arbiter") /\ Ready("pkgInfo")
    /\ fsm' = [fsm EXCEPT !["arbiter"] = <<First("pkgInfo"), 0>>]
    /\ fifo' = [fifo EXCEPT !["pkgInfo"] = Tail(@)]
    /\ UNCHANGED rest

PayFifo(type) == type \o "Pay"
ArbiterWordToLast ==   (* mutant: only the memory ends a packet *)
    /\ ~Idle("arbiter") /\ Ready("memRead") /\ Room(PayFifo(Current("arbiter")))
    /\ LET w == First("memRead")
       IN /\ fifo' = [fifo EXCEPT !["memRead"] = Tail(@),
                        ![PayFifo(Current("arbiter"))] = Append(@, w)]
          /\ fsm' = [fsm EXCEPT !["arbiter"] = IF w.last THEN <<>> ELSE @]
    /\ UNCHANGED rest
ArbiterWord ==
    /\ ~Idle("arbiter") /\ Ready("memRead") /\ Room(PayFifo(Current("arbiter")))
    /\ LET w == First("memRead")
           count == fsm["arbiter"][2] + 1
           last == w.last \/ count = PmtuWords
       IN /\ fifo' = [fifo EXCEPT !["memRead"] = Tail(@),
                        ![PayFifo(Current("arbiter"))] =
                            Append(@, [pkt |-> w.pkt, last |-> last])]
          /\ fsm' = [fsm EXCEPT !["arbiter"] = IF last THEN <<>> ELSE <<@[1], count>>]
    /\ UNCHANGED rest

(* meta_merger: acknowledgements, then read responses, then requests.      *)
MetaMerger ==
    /\ Room("exhEvents") /\ Room("txIbhMeta") /\ Room("connRsp")
    /\ Ready("acks") \/ Ready("readEvents") \/ Ready("appMeta")
    /\ LET src == IF Ready("acks") THEN "acks"
                  ELSE IF Ready("readEvents") THEN "readEvents" ELSE "appMeta"
           i == First(src)
       IN fifo' = [fifo EXCEPT ![src] = Tail(@), !["exhEvents"] = Append(@, i),
                     !["txIbhMeta"] = Append(@, i), !["connRsp"] = Append(@, i)]
    /\ UNCHANGED <<fsm, rest>>

(* generate_exh: the length, the plan of the packet and its header.        *)
HasHeader(op) == op \in Aeth \cup Reth
HasPayload(op) == op \notin {"ACK", "READ"}
GenerateExh ==
    /\ Ready("exhEvents") /\ Room("info") /\ Room("length") /\ Room("exhWords")
    /\ LET i == First("exhEvents")
           op == OutOp(i)
           info == [header |-> HasHeader(op), payload |-> HasPayload(op),
                    isAeth |-> op \in Aeth \cup {"RESP_MIDDLE"}]
       IN fifo' = [fifo EXCEPT !["exhEvents"] = Tail(@), !["info"] = Append(@, info),
                     !["length"] = Append(@, i),
                     !["exhWords"] = IF HasHeader(op) THEN Append(@, i) ELSE @]
    /\ UNCHANGED <<fsm, rest>>

(* tx_ipUdpMetaMerger: the connection of a packet, as conn_table returns   *)
(* it in the order of the requests, and its length.                        *)
ConnRsp == First("connRsp")
UdpMetaMerger ==
    /\ Ready("connRsp") /\ Ready("length") /\ Room("dstQp")
    /\ fifo' = [fifo EXCEPT !["connRsp"] = Tail(@), !["length"] = Tail(@),
                            !["dstQp"] = Append(@, ConnRsp)]
    /\ udpMeta' = Append(udpMeta, [conn |-> ConnRsp, len |-> First("length")])
    /\ UNCHANGED <<job, fsm, memCmd, memData, sent>>

(* generate_ibh: the base header, for the queue pair of the connection.    *)
GenerateIbh ==
    /\ Ready("txIbhMeta") /\ Ready("dstQp") /\ Room("bth")
    /\ fifo' = [fifo EXCEPT !["txIbhMeta"] = Tail(@), !["dstQp"] = Tail(@),
                            !["bth"] = Append(@, First("txIbhMeta"))]
    /\ UNCHANGED <<fsm, rest>>

(* append_payload: INFO, HEADER, and one word of the payload.              *)
AppendInfo ==
    /\ Idle("append") /\ Ready("info")
    /\ LET info == First("info")
           type == IF ~info.header THEN "raw" ELSE IF info.isAeth THEN "aeth" ELSE "reth"
       IN fsm' = [fsm EXCEPT !["append"] =
                    <<IF info.header THEN "HEADER" ELSE "PAYLOAD", type, info.payload, 0>>]
    /\ fifo' = [fifo EXCEPT !["info"] = Tail(@)]
    /\ UNCHANGED rest

AppendHeader ==
    /\ ~Idle("append") /\ Current("append") = "HEADER"
    /\ Ready("exhWords") /\ Room("toIbh")
    /\ LET h == First("exhWords")
           payload == fsm["append"][3]
       IN /\ fifo' = [fifo EXCEPT !["exhWords"] = Tail(@),
                        !["toIbh"] = IF payload THEN @
                                     ELSE Append(@, [exh |-> h, pay |-> 0, last |-> TRUE])]
          /\ fsm' = [fsm EXCEPT !["append"] =
                        IF payload THEN <<"PAYLOAD", @[2], TRUE, h>> ELSE <<>>]
    /\ UNCHANGED rest

AppendWord ==
    /\ ~Idle("append") /\ Current("append") = "PAYLOAD"
    /\ Ready(PayFifo(fsm["append"][2])) /\ Room("toIbh")
    /\ LET src == PayFifo(fsm["append"][2])
           w == First(src)
       IN /\ fifo' = [fifo EXCEPT ![src] = Tail(@),
                        !["toIbh"] = Append(@, [exh |-> fsm["append"][4], pay |-> w.pkt,
                                                last |-> w.last])]
          /\ fsm' = [fsm EXCEPT !["append"] = IF w.last THEN <<>> ELSE [@ EXCEPT ![4] = 0]]
    /\ UNCHANGED rest

(* prepend_ibh_header: GET_HEADER, then the words of one packet.           *)
PrependHeader ==
    /\ Idle("prepend") /\ Ready("bth")
    /\ fsm' = [fsm EXCEPT !["prepend"] = <<First("bth")>>]
    /\ fifo' = [fifo EXCEPT !["bth"] = Tail(@)]
    /\ UNCHANGED rest

PrependWord ==
    /\ ~Idle("prepend") /\ Ready("toIbh")
    /\ LET w == First("toIbh")
       IN /\ sent' = Append(sent, [bth |-> Current("prepend"), exh |-> w.exh, pay |-> w.pay,
                                   last |-> w.last])
          /\ fsm' = [fsm EXCEPT !["prepend"] = IF w.last THEN <<>> ELSE @]
    /\ fifo' = [fifo EXCEPT !["toIbh"] = Tail(@)]
    /\ UNCHANGED <<job, memCmd, memData, udpMeta>>

------------------------------------------------------------------------------
RxPipeline ==
    \/ ProcessIbh \/ ProcessExhMeta \/ ProcessExhWord \/ IbhFsm \/ DropMeta \/ DropWord
    \/ MetaHandler \/ ExhFsm \/ PayloadMeta \/ PayloadWord \/ MergeType \/ MergeWord
TxPipeline ==
    \/ LocalReq \/ HandleRead \/ MemCmdMerger \/ ArbiterInfo \/ ArbiterWord \/ MetaMerger
    \/ GenerateExh \/ UdpMetaMerger \/ GenerateIbh
    \/ AppendInfo \/ AppendHeader \/ AppendWord \/ PrependHeader \/ PrependWord

Next == RxPipeline \/ TxPipeline

(* The processes of the dataflow region run for ever.                      *)
Spec == Init /\ [][Next]_vars /\ WF_vars(RxPipeline) /\ WF_vars(TxPipeline)

------------------------------------------------------------------------------
(* The packets with payload that rx_ibh_fsm expects, in order.             *)
Accepted ==
    SelectSeq([i \in DOMAIN job.rx |-> i],
              LAMBDA i : job.rx[i].verdict = "expected" /\ Op(i) \notin {"ACK", "READ"})

(* The memory sees one command per accepted packet, and behind it exactly  *)
(* the words of that packet: the words went through drop_ooo_ibh,          *)
(* rx_exh_payload and one of three shifters, the command through           *)
(* ipUdpMetaHandler and rx_exh_fsm.                                        *)
RxTogether ==
    /\ IsPrefix(memCmd, Accepted)
    /\ IsPrefix(memData, FlattenSeq([k \in DOMAIN Accepted |->
                                       [w \in 1 .. job.rx[Accepted[k]].words |-> Accepted[k]]]))

(* An invalid READ gets a decision for words it does not have: the next    *)
(* packet takes it (RocePipelineRead.cfg).                                 *)
ReadsValid == \A i \in DOMAIN job.rx : Op(i) = "READ" => job.rx[i].verdict # "invalid"
RxInStep == ReadsValid => RxTogether

(* The packets sent so far, by their base header.                          *)
Headers ==
    LET starts == SelectSeq([k \in DOMAIN sent |-> k], LAMBDA k : k = 1 \/ sent[k - 1].last)
    IN [k \in DOMAIN starts |-> sent[starts[k]].bth]

(* What packet i should look like on the wire.                             *)
Wire(i) ==
    LET n == IF HasPayload(OutOp(i)) THEN job.out[i].words ELSE 1
    IN [k \in 1 .. n |-> [bth |-> i, exh |-> IF k = 1 /\ HasHeader(OutOp(i)) THEN i ELSE 0,
                          pay |-> IF HasPayload(OutOp(i)) THEN i ELSE 0, last |-> k = n]]

(* Base header, extended header, payload and the announcement to the UDP   *)
(* module of a packet meet again, although requests, read responses and    *)
(* acknowledgements are merged in one order for the headers and in another *)
(* for the memory.                                                         *)
TxTogether ==
    /\ IsPrefix(sent, FlattenSeq([k \in DOMAIN Headers |-> Wire(Headers[k])]))
    /\ \A k \in DOMAIN udpMeta : udpMeta[k].conn = udpMeta[k].len
    /\ \A k \in DOMAIN Headers : k \in DOMAIN udpMeta /\ udpMeta[k].len = Headers[k]

(* The payloads that the memory is asked for: by the user's requests, and  *)
(* by the other side's READs.                                              *)
Payloads(queue) == {i \in ToSet(queue) : HasPayload(OutOp(i))}
Locals == Payloads(job.local)
Remotes == Payloads(job.remote)
OfType(type) == {i \in Locals \cup Remotes : PkgType(OutOp(i)) = type}

(* RESP_MIDDLE shares tx_rawPayFifo with the user's SENDs and later WRITE   *)
(* packets: one takes the words of the other (RocePipelineRaw.cfg).        *)
RawUnshared == OfType("raw") \cap Locals = {} \/ OfType("raw") \cap Remotes = {}
TxInStep == RawUnshared => TxTogether

(* Every packet gets through: no process waits for a word or a header that *)
(* is stuck behind another one.                                            *)
Through ==
    /\ memCmd = Accepted
    /\ Len(memData) = FoldLeft(LAMBDA n, i : n + job.rx[i].words, 0, Accepted)
    /\ Len(Headers) = Len(job.out) /\ \A f \in DOMAIN fifo : fifo[f] = <<>>
AllThrough == <>[]Through

(* Where both the user and the other side ask for words, and one kind of   *)
(* payload does not fit into its FIFO, tx_pkg_arbiter waits for room in it *)
(* while append_payload waits for the words behind it                      *)
(* (RocePipelineLong.cfg).                                                 *)
PayloadFits(type) ==
    FoldLeft(LAMBDA n, i : n + job.out[i].words, 0, SetToSeq(OfType(type))) <= Depth
Flows == Locals = {} \/ Remotes = {} \/ \A type \in {"aeth", "reth", "raw"} : PayloadFits(type)

(* Packets of any length get through as long as only one side asks for     *)
(* words, and those of both sides as long as they fit into the FIFOs.      *)
Drains == ReadsValid /\ Flows => AllThrough
=============================================================================
