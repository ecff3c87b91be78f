----------------------------- MODULE TcpPackets -----------------------------
(***************************************************************************)
(* How tx_engine puts IP packets together and rx_engine takes them apart.  *)
(*                                                                         *)
(* Transmit: metaLoader announces a packet on five FIFOs; the payload      *)
(* comes from memory (read_data_stitching) or from the application         *)
(* (read_data_arbiter); pseudoHeaderConstructionNew puts the TCP header    *)
(* before it; the checksum of the whole packet is computed before its      *)
(* first words may go on (insert_checksum); generate_ipv4 adds the header. *)
(*                                                                         *)
(* Receive: toe_process_ipv4 and drop_optional_ip_header cut the IP header *)
(* off, prependPseudoHeader puts the pseudo header there instead,          *)
(* processPseudoHeader waits for the checksum and takes the TCP header,    *)
(* drop_optional_header_fields the options; merge_header_meta joins the    *)
(* window scale of a SYN with its metadata.                                *)
(*                                                                         *)
(* A unit is 32 bits: <<part, packet, position>>. A packet is named by its *)
(* position in the job. Sequence numbers and windows are in TxPath, what   *)
(* becomes of received metadata in RxPath and SessionLookup.               *)
(***************************************************************************)
EXTENDS WordShift, SequencesExt

CONSTANTS Jobs,       \* [width, tx, rx]: units per word and the packets
          Depth,      \* slots of a FIFO
          BufferWords \* slots of the FIFOs that hold a packet for its checksum

ASSUME PacketsAssumption == Depth \in Nat \ {0} /\ BufferWords \in Nat \ {0}

VARIABLES job,   \* the job, chosen at the start
          fifo,  \* the FIFOs between the processes
          fsm,   \* the state of each process
          armed, \* packets that the retransmission timer was set for
          noted  \* packets whose sequence numbers tx_sar_table was told of

vars == <<job, fifo, fsm, armed, noted>>
tables == <<armed, noted>>

Inputs == {"events", "appData", "memData", "wire"}
Outputs == {"ipTxData", "payload", "metas"}
TxFifos == {"ipMeta", "tcpMeta", "isLookUp", "revLookup", "shortCut", "isDDRbypass",
            "memAccess", "readCmd", "merge", "stitched", "pkg0", "shift2pseudo", "pkg1",
            "pkg2", "pkg3", "pkg4", "pkg5", "pkg6", "subSums", "checksum", "ipTuple",
            "tcpTuple"}
RxFifos == {"dropLength", "rxIpMeta", "buf0", "buf4", "buf5", "pseudo", "buf1", "buf2",
            "rxSums", "valid", "headerMeta", "portReq", "tuple", "ofMeta", "buf3a",
            "buf3b", "dataOffset", "optFields", "winScale", "metaData", "drop", "buf3"}
Whole == {"pkg2", "buf2"}

Room(f) ==
    f \in Inputs \cup Outputs \/ Len(fifo[f]) < IF f \in Whole THEN BufferWords ELSE Depth

(* One cycle of process p: it reads the FIFOs ins, writes outs and goes to *)
(* state st. It waits for what it reads, and for room where it writes.     *)
Cycle(p, ins, outs, st) ==
    /\ \A f \in DOMAIN outs : outs[f] = <<>> \/ Room(f)
    /\ fifo' = [f \in DOMAIN fifo |->
                  (IF f \in ins THEN Tail(fifo[f]) ELSE fifo[f])
                    \o (IF f \in DOMAIN outs THEN outs[f] ELSE <<>>)]
    /\ fsm' = [fsm EXCEPT ![p] = st]
    /\ UNCHANGED job

Ready(fs) == \A f \in fs : fifo[f] # <<>>
First(f) == Head(fifo[f])
W == job.width
PacketOf(w) == w.u[1][2]
If(b, s) == IF b THEN s ELSE <<>>

------------------------------------------------------------------------------
(* The parts of a packet, in units. *)
IpSize == 5
PseudoSize == 3
FullSize == 8
OptionSize == 10

Part(part, i, n) == [k \in 1 .. n |-> <<part, i, k>>]

(* tcpFullPseudoHeader of the packet with metadata i and tuple t: the      *)
(* pseudo header, then the TCP header.                                     *)
FullHeader(i, t) ==
    [k \in 1 .. FullSize |-> IF k <= PseudoSize
                             THEN <<"pseudo", IF k < 3 THEN t ELSE i, k>>
                             ELSE <<"tcp", IF k = 4 THEN t ELSE i, k - PseudoSize>>]

(* ipv4Header: length from the metadata, addresses from the tuple.         *)
IpHeader(i, t) == [k \in 1 .. IpSize |-> <<"ip", IF k < 4 THEN i ELSE t, k>>]

(* packetHeader::consumeWord: what is left of a header goes into a word.   *)
Consume(header, units) == header \o From(units, Len(header))

Syn(i) == job.tx[i].type \in {"SYN", "SYN_ACK"}
HasBody(i) == job.tx[i].len # 0 /\ ~Syn(i)

(* The options of a SYN (MSS, and the window scale if it is offered), or   *)
(* the payload.                                                            *)
Body(i) == Part(IF Syn(i) THEN "opt" ELSE "data", i, job.tx[i].len)

State(st, i, header) == [s |-> st, pkt |-> i, h |-> header]
Idle == State("META", 0, <<>>)
DropIdle == [s |-> "META", n |-> 0, sh |-> Fresh]
FullIdle == [first |-> TRUE, ok |-> FALSE, n |-> 0, written |-> FALSE]
OptIdle == [s |-> 0, d |-> 0, prev |-> <<>>, hdr |-> Zeros(OptionSize), idx |-> 0,
            ready |-> FALSE, parse |-> FALSE, written |-> FALSE]

(* The words of a received packet, its IP options included.                *)
Arriving(i) == LET p == job.rx[i] IN
    Part("ip", i, p.hl) \o Part("tcp", i, 5) \o Part("opt", i, Len(p.opts))
      \o Part("data", i, p.len)

Init ==
    /\ job \in Jobs
    /\ fifo = [f \in Inputs \cup Outputs \cup TxFifos \cup RxFifos |->
                CASE f = "events" -> [i \in DOMAIN job.tx |-> i]
                  [] f = "appData" ->
                       FlattenSeq([i \in DOMAIN job.tx |->
                                     If(job.tx[i].type = "TX", Words(Body(i), W))])
                  [] f = "wire" ->
                       FlattenSeq([i \in DOMAIN job.rx |-> Words(Arriving(i), W)])
                  [] OTHER -> <<>>]
    /\ fsm = [metaLoader |-> Idle, splitter |-> Idle, breakdown |-> Idle,
              memory |-> Idle, arbiter |-> Idle, pseudoHdr |-> Idle,
              stitch |-> [s |-> "IDLE", merge |-> FALSE, sh |-> Fresh],
              lshiftTx |-> Fresh, rshiftTx |-> Fresh, lshiftIp |-> Fresh,
              sumTx |-> <<>>, sumRx |-> <<>>, finalize |-> Idle, check |-> Idle,
              remove |-> TRUE, insert |-> [s |-> "LEAD", n |-> 0], ipv4 |-> Idle,
              process |-> [n |-> 0, written |-> FALSE], dropIp |-> DropIdle,
              lshiftRx |-> Fresh, rshiftRx |-> Fresh, construct |-> Idle,
              prepend |-> [s |-> "HEADER", prev |-> <<>>], full |-> FullIdle,
              options |-> OptIdle, parser |-> [d |-> 0, fields |-> <<>>],
              merger |-> Idle, handler |-> Idle, dropper |-> FALSE]
    /\ armed = {} /\ noted = {}

------------------------------------------------------------------------------
(* Transmit. *)

(* FIN is the last of the types that are sent again unless acknowledged.   *)
Timed == {"TX", "RT", "SYN", "SYN_ACK", "FIN"}

(* A RST for a segment of no session brings its tuple along.               *)
HasSessionID(i) == job.tx[i].type # "RST_NO_SESSION"

(* metaLoader: one packet. Every packet has metadata for both headers and  *)
(* a tuple; one with data says where the data is. tx_sar_table hears of    *)
(* new sequence numbers, not of those of a retransmission.                 *)
metaLoader ==
    /\ Ready({"events"})
    /\ LET i == First("events")
           e == job.tx[i]
       IN /\ Cycle("metaLoader", {"events"},
                  "ipMeta" :> <<i>> @@ "tcpMeta" :> <<i>> @@ "isLookUp" :> <<HasSessionID(i)>>
                    @@ "revLookup" :> If(HasSessionID(i), <<i>>)
                    @@ "shortCut" :> If(~HasSessionID(i), <<i>>)
                    @@ "isDDRbypass" :> If(HasBody(i), <<e.type = "TX">>)
                    @@ "memAccess" :> If(e.type = "RT", <<i>>), Idle)
          /\ armed' = IF e.type \in Timed THEN armed \cup {i} ELSE armed
          /\ noted' = IF e.type \in Timed \ {"RT"} /\ ~e.again THEN noted \cup {i} ELSE noted

(* tupleSplitter: the tuple comes from session_lookup or with the event.   *)
tupleSplitter ==
    /\ \/ /\ fsm["splitter"].s = "META" /\ Ready({"isLookUp"})
          /\ Cycle("splitter", {"isLookUp"}, <<>>,
                   State(IF First("isLookUp") THEN "revLookup" ELSE "shortCut", 0, <<>>))
       \/ /\ fsm["splitter"].s # "META" /\ Ready({fsm["splitter"].s})
          /\ LET i == First(fsm["splitter"].s)
             IN Cycle("splitter", {fsm["splitter"].s},
                      "ipTuple" :> <<i>> @@ "tcpTuple" :> <<i>>, Idle)
    /\ UNCHANGED tables

(* txEngMemAccessBreakdown: data that wraps around the ring is read in two *)
(* parts.                                                                  *)
memAccessBreakdown ==
    /\ \/ /\ fsm["breakdown"].s = "META" /\ Ready({"memAccess"})
          /\ LET i == First("memAccess")
                 first == job.tx[i].first
             IN Cycle("breakdown", {"memAccess"},
                      "merge" :> <<first # 0>>
                        @@ "readCmd" :> <<IF first = 0 THEN <<i, 0, job.tx[i].len>>
                                          ELSE <<i, 0, first>>>>,
                      IF first = 0 THEN Idle ELSE State("SECOND", i, <<>>))
       \/ /\ fsm["breakdown"].s = "SECOND"
          /\ LET i == fsm["breakdown"].pkt
             IN Cycle("breakdown", {},
                      "readCmd" :> <<<<i, job.tx[i].first, job.tx[i].len>>>>, Idle)
    /\ UNCHANGED tables

(* The memory answers a command (units from .. upto of packet i).          *)
Memory ==
    /\ Ready({"readCmd"})
    /\ LET c == First("readCmd")
       IN Cycle("memory", {"readCmd"},
                "memData" :> Words(SubSeq(Body(c[1]), c[2] + 1, c[3]), W), Idle)
    /\ UNCHANGED tables

(* read_data_stitching: behind a full word the second part is attached,    *)
(* behind a partial one it is shifted.                                     *)
Stitch(s, merge, sh) == [s |-> s, merge |-> merge, sh |-> sh]
StitchIdle == Stitch("IDLE", FALSE, Fresh)

StitchFirst(ins, merge, w) ==
    CASE ~w.last -> Cycle("stitch", ins, "stitched" :> <<w>>, Stitch("FIRST", merge, Fresh))
      [] w.last /\ ~merge -> Cycle("stitch", ins, "stitched" :> <<w>>, StitchIdle)
      [] w.last /\ merge /\ Len(w.u) = W ->
           Cycle("stitch", ins, "stitched" :> <<Word(w.u, FALSE)>>,
                 Stitch("ATTACH", merge, Fresh))
      [] OTHER -> Cycle("stitch", ins, <<>>, Stitch("STITCH", merge, Within(w.u, FALSE)))

read_data_stitching ==
    /\ LET st == fsm["stitch"] IN
       \/ st.s = "IDLE" /\ Ready({"merge", "memData"})
          /\ StitchFirst({"merge", "memData"}, First("merge"), First("memData"))
       \/ st.s = "FIRST" /\ Ready({"memData"})
          /\ StitchFirst({"memData"}, st.merge, First("memData"))
       \/ /\ st.s = "ATTACH" /\ Ready({"memData"})
          /\ Cycle("stitch", {"memData"}, "stitched" :> <<First("memData")>>,
                   IF First("memData").last THEN StitchIdle ELSE st)
       \/ /\ st.s = "STITCH" /\ ~st.sh.rest /\ Ready({"memData"})
          /\ LET w == First("memData")
                 k == W - Len(st.sh.carry)
                 next == Carried(w, k)
             IN Cycle("stitch", {"memData"}, "stitched" :> <<Joined(st.sh.carry, w, k)>>,
                      IF next = Fresh THEN StitchIdle ELSE Stitch("STITCH", TRUE, next))
       \/ /\ st.s = "STITCH" /\ st.sh.rest
          /\ Cycle("stitch", {}, "stitched" :> <<Word(st.sh.carry, TRUE)>>, StitchIdle)
    /\ UNCHANGED tables

(* read_data_arbiter: one packet from the application or from memory.      *)
read_data_arbiter ==
    /\ LET st == fsm["arbiter"] IN
       \/ /\ st.s = "META" /\ Ready({"isDDRbypass"})
          /\ Cycle("arbiter", {"isDDRbypass"}, <<>>,
                   State(IF First("isDDRbypass") THEN "appData" ELSE "stitched", 0, <<>>))
       \/ /\ st.s # "META" /\ Ready({st.s})
          /\ Cycle("arbiter", {st.s}, "pkg0" :> <<First(st.s)>>,
                   IF First(st.s).last THEN Idle ELSE st)
    /\ UNCHANGED tables

(* The two shifters as processes between two FIFOs.                        *)
LShift(p, in, offset, out) ==
    /\ \/ /\ fsm[p].rest
          /\ Cycle(p, {}, out :> <<Word(fsm[p].carry, TRUE)>>, Fresh)
       \/ /\ ~fsm[p].rest /\ Ready({in})
          /\ LET r == lshiftWordByOctet(fsm[p], offset, First(in), W)
             IN Cycle(p, {in}, out :> r.out, r.st)
    /\ UNCHANGED tables

RShift(p, in, offset, out) ==
    /\ \/ /\ fsm[p].rest
          /\ Cycle(p, {}, out :> <<Word(fsm[p].carry, TRUE)>>, Fresh)
       \/ /\ ~fsm[p].rest /\ Ready({in})
          /\ LET r == rshiftWordByOctet(fsm[p], offset, First(in))
             IN Cycle(p, {in}, out :> r.out, r.st)
    /\ UNCHANGED tables

(* pseudoHeaderConstructionNew: the header alone fills words, or shares    *)
(* the first one with the data where a word is wider than it.              *)
HeaderState(i) == IF W > FullSize /\ HasBody(i) THEN "PARTIAL" ELSE "HEADER"

(* mutant: a SYN is taken to have a body, because its length is not 0 *)
AfterHeaderLength(i) ==
    CASE job.tx[i].len # 0 -> "BODY"
      [] OTHER -> "META"
(* What follows the words of the header.                                   *)
AfterHeader(i) ==
    CASE HasBody(i) -> "BODY"
      [] Syn(i) /\ W <= FullSize -> "OPTION"
      [] OTHER -> "META"

PseudoMeta ==
    /\ fsm["pseudoHdr"].s = "META" /\ Ready({"tcpMeta", "tcpTuple"})
    /\ LET i == First("tcpMeta")
       IN Cycle("pseudoHdr", {"tcpMeta", "tcpTuple"}, <<>>,
                State(HeaderState(i), i, FullHeader(i, First("tcpTuple"))))
    /\ UNCHANGED tables

PseudoHeader ==
    /\ fsm["pseudoHdr"].s = "HEADER"
    /\ LET st == fsm["pseudoHdr"]
           left == From(st.h, W)
           next == IF Len(left) < W THEN AfterHeader(st.pkt) ELSE "HEADER"
           word == Upto(st.h, W) \o If(Syn(st.pkt) /\ W > FullSize, Body(st.pkt))
       IN Cycle("pseudoHdr", {}, "pkg1" :> <<Word(word, next = "META")>>,
                IF next = "META" THEN Idle ELSE State(next, st.pkt, left))
    /\ UNCHANGED tables

PseudoOption ==
    /\ fsm["pseudoHdr"].s = "OPTION"
    /\ Cycle("pseudoHdr", {}, "pkg1" :> <<Word(Body(fsm["pseudoHdr"].pkt), TRUE)>>, Idle)
    /\ UNCHANGED tables

PseudoBody ==
    /\ fsm["pseudoHdr"].s \in {"PARTIAL", "BODY"} /\ Ready({"shift2pseudo"})
    /\ LET st == fsm["pseudoHdr"]
           w == First("shift2pseudo")
           u == IF st.s = "PARTIAL" THEN Consume(st.h, w.u) ELSE w.u
       IN Cycle("pseudoHdr", {"shift2pseudo"}, "pkg1" :> <<Word(u, w.last)>>,
                IF w.last THEN Idle ELSE State("BODY", st.pkt, <<>>))
    /\ UNCHANGED tables

(* two_complement_subchecksums: the sum of a packet follows its last word. *)
Sum(p, in, out, sums) ==
    /\ Ready({in})
    /\ LET w == First(in)
           acc == fsm[p] \o w.u
       IN Cycle(p, {in}, out :> <<w>> @@ sums :> If(w.last, <<acc>>),
                IF w.last THEN <<>> ELSE acc)
    /\ UNCHANGED tables

(* finalize_ipv4_checksum: right if just the units of one packet and its   *)
(* pseudo header were summed.                                              *)
finalize_checksum ==
    /\ Ready({"subSums"})
    /\ LET s == First("subSums")
           i == s[1][2]
           n == IF s = FullHeader(i, i) \o Body(i) THEN Len(s) ELSE 0
       IN Cycle("finalize", {"subSums"}, "checksum" :> <<<<"sum", i, n>>>>, Idle)
    /\ UNCHANGED tables

(* mutant: the flag is not set again behind a packet *)
FirstWordStays(w) == FALSE
(* firstWord of remove_pseudo_header after word w.                         *)
FirstWord(w) == w.last

(* remove_pseudo_header: one word, if the pseudo header is longer.         *)
remove_pseudo_header ==
    /\ Ready({"pkg2"})
    /\ LET w == First("pkg2")
       IN Cycle("remove", {"pkg2"}, "pkg3" :> If(~fsm["remove"] \/ W > 2, <<w>>),
                FirstWord(w))
    /\ UNCHANGED tables

(* insert_checksum: the fifth unit of the packet takes it.                 *)
insert_checksum ==
    /\ LET st == fsm["insert"]
           start == [s |-> "LEAD", n |-> 0]
           lead == IF W > 4 THEN 0 ELSE 4 \div W
           next(w, s) == IF w.last /\ s.s # "LEAD" THEN start ELSE s
       IN \/ /\ st.s = "LEAD" /\ st.n < lead /\ Ready({"pkg4"})
             /\ Cycle("insert", {"pkg4"}, "pkg5" :> <<First("pkg4")>>,
                      [st EXCEPT !.n = @ + 1])
          \/ /\ st.s = "LEAD" /\ st.n = lead /\ Ready({"pkg4", "checksum"})
             /\ LET w == First("pkg4")
                IN Cycle("insert", {"pkg4", "checksum"},
                         "pkg5" :> <<[w EXCEPT !.u[5 - lead * W] = First("checksum")]>>,
                         next(w, [s |-> "BODY", n |-> 0]))
          \/ /\ st.s = "BODY" /\ Ready({"pkg4"})
             /\ Cycle("insert", {"pkg4"}, "pkg5" :> <<First("pkg4")>>,
                      next(First("pkg4"), st))
    /\ UNCHANGED tables

(* generate_ipv4: full words of the header, then the rest of it with the   *)
(* first word of the packet.                                               *)
generate_ipv4 ==
    /\ LET st == fsm["ipv4"] IN
       \/ /\ st.s = "META" /\ Ready({"ipMeta", "ipTuple"})
          /\ Cycle("ipv4", {"ipMeta", "ipTuple"}, <<>>,
                   State(IF IpSize >= W THEN "HEADER" ELSE "BODY", First("ipMeta"),
                         IpHeader(First("ipMeta"), First("ipTuple"))))
       \/ /\ st.s = "HEADER"
          /\ LET left == From(st.h, W)
             IN Cycle("ipv4", {}, "ipTxData" :> <<Word(Upto(st.h, W), FALSE)>>,
                      State(IF Len(left) < W THEN "BODY" ELSE "HEADER", st.pkt, left))
       \/ /\ st.s = "BODY" /\ Ready({"pkg6"})
          /\ LET w == First("pkg6")
             IN Cycle("ipv4", {"pkg6"}, "ipTxData" :> <<Word(Consume(st.h, w.u), w.last)>>,
                      IF w.last THEN Idle ELSE State("BODY", st.pkt, <<>>))
    /\ UNCHANGED tables

Transmit ==
    \/ metaLoader \/ tupleSplitter \/ memAccessBreakdown \/ Memory
    \/ read_data_stitching \/ read_data_arbiter
    \/ LShift("lshiftTx", "pkg0", FullSize % W, "shift2pseudo")
    \/ PseudoMeta \/ PseudoHeader \/ PseudoOption \/ PseudoBody
    \/ Sum("sumTx", "pkg1", "pkg2", "subSums") \/ finalize_checksum
    \/ remove_pseudo_header
    \/ RShift("rshiftTx", "pkg3", PseudoSize % W, "pkg4")
    \/ insert_checksum
    \/ LShift("lshiftIp", "pkg5", IpSize % W, "pkg6")
    \/ generate_ipv4

------------------------------------------------------------------------------
(* Receive. *)
Tcp(i) == From(Arriving(i), job.rx[i].hl)
Flows(i) == job.rx[i].len # 0 \/ job.rx[i].opts # <<>>
Scaled(i) == job.rx[i].syn /\ \E k \in DOMAIN job.rx[i].opts : job.rx[i].opts[k] = "WS"

(* toe_process_ipv4: words before the one that ends the 5-unit header are  *)
(* dropped; with that one go the metadata and the units still to drop.     *)
process_ipv4 ==
    /\ Ready({"wire"})
    /\ LET st == fsm["process"]
           w == First("wire")
           i == PacketOf(w)
           ready == st.written \/ st.n + W >= IpSize
           meta == ready /\ ~st.written
       IN Cycle("process", {"wire"},
                "buf0" :> If(ready, <<w>>) @@ "rxIpMeta" :> If(meta, <<i>>)
                  @@ "dropLength" :> If(meta, <<job.rx[i].hl - st.n>>),
                IF w.last THEN [n |-> 0, written |-> FALSE]
                ELSE [n |-> (st.n + W) % 16, written |-> ready])
    /\ UNCHANGED tables

(* drop_optional_ip_header: a rest of one unit (or, in wide words, the     *)
(* five of a header without options) is shifted away; narrow words drop    *)
(* whole words of options before.                                          *)
DropMeta ==
    /\ fsm["dropIp"].s = "META" /\ Ready({"dropLength", "buf0"})
    /\ LET n == First("dropLength")
           w == First("buf0")
           shift == [s |-> "SHIFT", n |-> n, sh |-> Within(From(w.u, n), w.last /\ W > 4)]
       IN CASE W <= 4 /\ n > 1 ->
                 Cycle("dropIp", {"dropLength"}, <<>>, [DropIdle EXCEPT !.s = "DROP", !.n = n])
            [] W <= 4 /\ n <= 1 -> Cycle("dropIp", {"dropLength", "buf0"}, <<>>, shift)
            [] W > 4 /\ n = IpSize -> Cycle("dropIp", {"dropLength", "buf0"}, <<>>, shift)
            [] OTHER -> Cycle("dropIp", {"dropLength"}, <<>>, DropIdle)
    /\ UNCHANGED tables

DropWord ==
    /\ fsm["dropIp"].s # "META"
    /\ LET st == fsm["dropIp"] IN
       \/ /\ st.s = "DROP" /\ Ready({"buf0"})
          /\ Cycle("dropIp", {"buf0"}, <<>>,
                   CASE st.n = 3 -> [s |-> "SHIFT", n |-> 1,
                                     sh |-> Within(From(First("buf0").u, 1), FALSE)]
                     [] st.n = 2 -> [st EXCEPT !.s = "BODY", !.n = 0]
                     [] OTHER -> [st EXCEPT !.n = @ - 2])
       \/ /\ st.s = "BODY" /\ Ready({"buf0"})
          /\ Cycle("dropIp", {"buf0"}, "buf4" :> <<First("buf0")>>,
                   IF First("buf0").last THEN DropIdle ELSE st)
       \/ /\ st.s = "SHIFT" /\ ~st.sh.rest /\ Ready({"buf0"})
          /\ LET next == Carried(First("buf0"), st.n)
             IN Cycle("dropIp", {"buf0"},
                      "buf4" :> <<Joined(st.sh.carry, First("buf0"), st.n)>>,
                      IF next = Fresh THEN DropIdle ELSE [st EXCEPT !.sh = next])
       \/ /\ st.s = "SHIFT" /\ st.sh.rest
          /\ Cycle("dropIp", {}, "buf4" :> <<Word(st.sh.carry, TRUE)>>, DropIdle)
    /\ UNCHANGED tables

(* constructPseudoHeader, META and HEADER.                                 *)
constructPseudoHeader ==
    /\ LET st == fsm["construct"] IN
       \/ /\ st.s = "META" /\ Ready({"rxIpMeta"})
          /\ Cycle("construct", {"rxIpMeta"}, <<>>,
                   State("HEADER", First("rxIpMeta"),
                         Part("pseudo", First("rxIpMeta"), PseudoSize)))
       \/ /\ st.s = "HEADER"
          /\ LET left == From(st.h, W)
             IN Cycle("construct", {}, "pseudo" :> <<Word(Upto(st.h, W), left = <<>>)>>,
                      IF left = <<>> THEN Idle ELSE State("HEADER", st.pkt, left))
    /\ UNCHANGED tables

(* prependPseudoHeader: the last word of the pseudo header goes over the   *)
(* room before the first word of the packet.                               *)
prependPseudoHeader ==
    /\ LET st == fsm["prepend"] IN
       \/ /\ st.s = "HEADER" /\ Ready({"pseudo"})
          /\ LET w == First("pseudo")
             IN Cycle("prepend", {"pseudo"}, "buf1" :> If(~w.last, <<w>>),
                      IF w.last THEN [s |-> "PAYLOAD", prev |-> w.u] ELSE st)
       \/ /\ st.s = "PAYLOAD" /\ Ready({"buf5"})
          /\ LET w == First("buf5")
             IN Cycle("prepend", {"buf5"}, "buf1" :> <<Word(Consume(st.prev, w.u), w.last)>>,
                      [s |-> IF w.last THEN "HEADER" ELSE "PAYLOAD", prev |-> <<>>])
    /\ UNCHANGED tables

(* toe_check_ipv4_checksum.                                                *)
check_checksum ==
    /\ Ready({"rxSums"})
    /\ LET s == First("rxSums")
           i == s[1][2]
       IN Cycle("check", {"rxSums"},
                "valid" :> <<job.rx[i].ok /\ s = Part("pseudo", i, PseudoSize) \o Tcp(i)>>, Idle)
    /\ UNCHANGED tables

(* mutant: words go on whether or not the packet is valid *)
ForwardsInvalid(st, ok, ready, i) ==
    IF W <= FullSize THEN st.written ELSE ready /\ Flows(i)
(* Whether processPseudoHeader sends its word on: behind the header, or    *)
(* with it where it is in the same word and anything follows it.           *)
Forwards(st, ok, ready, i) ==
    ok /\ IF W <= FullSize THEN st.written ELSE ready /\ Flows(i)

(* processPseudoHeader: the checksum is awaited before the first word.     *)
processPseudoHeader ==
    /\ Ready({"buf2"}) /\ (fsm["full"].first => Ready({"valid"}))
    /\ LET st == fsm["full"]
           w == First("buf2")
           i == PacketOf(w)
           ok == IF st.first THEN First("valid") ELSE st.ok
           ready == st.n + W >= FullSize
           meta == ready /\ ~st.written /\ ok
       IN Cycle("full", {"buf2"} \cup (IF st.first THEN {"valid"} ELSE {}),
                "buf3a" :> If(Forwards(st, ok, ready, i), <<w>>)
                  @@ "headerMeta" :> If(meta, <<i>>) @@ "portReq" :> If(meta, <<i>>)
                  @@ "tuple" :> If(meta, <<i>>) @@ "ofMeta" :> If(meta /\ Flows(i), <<i>>),
                IF w.last THEN FullIdle
                ELSE [first |-> FALSE, ok |-> ok, n |-> IF ready THEN FullSize ELSE st.n + W,
                      written |-> ready])
    /\ UNCHANGED tables

(* tcpOptionalHeader::parseWord: what is behind the last valid unit of w   *)
(* is zero; what the words do not reach keeps the options of before.       *)
ParseOptions(st, w) ==
    LET at == st.idx * W
        u == w.u \o Zeros(W - Len(w.u))
    IN IF st.ready THEN st
       ELSE [st EXCEPT !.hdr = [k \in 1 .. OptionSize |->
                                  IF k \in at + 1 .. at + W THEN u[k - at] ELSE @[k]],
                       !.idx = @ + 1, !.ready = at + W >= OptionSize]

(* mutant: the options of any packet are sent to be parsed *)
ParsesAny(i) == job.rx[i].opts # <<>>
(* The options of a SYN are parsed.                                        *)
Parses(i) == job.rx[i].opts # <<>> /\ job.rx[i].syn

(* drop_optional_header_fields: state 0 takes the first word, state 1      *)
(* skips or shifts the others, state 2 sends what is left.                 *)
OptionsFirst ==
    /\ fsm["options"].s = 0 /\ Ready({"ofMeta", "buf3b"})
    /\ LET i == First("ofMeta")
           d == Len(job.rx[i].opts)
           w == First("buf3b")
           st == ParseOptions([fsm["options"] EXCEPT !.idx = 0, !.ready = FALSE], w)
           parse == Parses(i)
           left == d # 0 /\ d < W /\ Len(w.u) > d
       IN Cycle("options", {"ofMeta", "buf3b"},
                "buf3" :> If(d = 0, <<w>>) @@ "dataOffset" :> If(parse, <<d>>)
                  @@ "optFields" :> If(parse /\ (st.ready \/ w.last), <<st.hdr>>),
                [st EXCEPT !.d = d, !.prev = w.u, !.parse = parse, !.written = FALSE,
                           !.s = IF ~w.last THEN 1 ELSE IF left THEN 2 ELSE 0])
    /\ UNCHANGED tables

(* Units of the last word w that the shift by d has not sent.              *)
OptionsLeft(d, w) == d # 0 /\ Len(w.u) > d

OptionsNext ==
    /\ fsm["options"].s = 1 /\ Ready({"buf3b"})
    /\ LET w == First("buf3b")
           st == ParseOptions(fsm["options"], w)
           write == (st.ready \/ w.last) /\ st.parse /\ ~st.written
           d == IF st.d >= W THEN st.d - W ELSE st.d
       IN Cycle("options", {"buf3b"},
                "optFields" :> If(write, <<st.hdr>>)
                  @@ "buf3" :> CASE st.d >= W -> <<>>
                                 [] st.d = 0 -> <<w>>
                                 [] OTHER -> <<Joined(From(st.prev, st.d), w, st.d)>>,
                [st EXCEPT !.d = d, !.prev = w.u, !.written = st.written \/ write,
                           !.s = IF ~w.last THEN 1 ELSE IF OptionsLeft(d, w) THEN 2 ELSE 0])
    /\ UNCHANGED tables

OptionsRest ==
    /\ fsm["options"].s = 2
    /\ Cycle("options", {}, "buf3" :> <<Word(From(fsm["options"].prev, fsm["options"].d), TRUE)>>,
             [fsm["options"] EXCEPT !.s = 0])
    /\ UNCHANGED tables

(* parse_optional_header_fields: dataOffset counts units, optionLength     *)
(* bytes, and it has four bits. Options are padded to units with NOPs; a   *)
(* unit of data in their place may read as any option.                     *)
ParseIdle ==
    /\ fsm["parser"].fields = <<>> /\ Ready({"dataOffset", "optFields"})
    /\ Cycle("parser", {"dataOffset", "optFields"}, <<>>,
             [d |-> First("dataOffset"), fields |-> First("optFields")])
    /\ UNCHANGED tables

Option(unit) == CASE unit = Zero -> "END"
                  [] unit[1] = "opt" -> job.rx[unit[2]].opts[unit[3]]
                  [] OTHER -> "DATA"
OptionUnits(o) == IF o = "TS" THEN 3 ELSE 1

ParseOption ==
    /\ fsm["parser"].fields # <<>>
    /\ LET st == fsm["parser"]
           o == Option(st.fields[1])
           n == OptionUnits(o)
           done(scale) == Cycle("parser", {}, "winScale" :> <<scale>>, [d |-> 0, fields |-> <<>>])
       IN CASE o = "END" -> done(0)
            [] o = "WS" -> done(st.fields[1][2])
            [] o = "DATA" -> \E scale \in {0, st.fields[1][2]} : done(scale)
            [] o \in {"MSS", "SACK", "TS"} /\ st.d = 4 * n -> done(0)
            [] OTHER -> Cycle("parser", {}, <<>>,
                              [d |-> (st.d - 4 * n) % 16, fields |-> From(st.fields, n)])
    /\ UNCHANGED tables

(* merge_header_meta: the metadata of a SYN with options waits for its     *)
(* window scale.                                                           *)
merge_header_meta ==
    /\ LET st == fsm["merger"] IN
       \/ /\ st.s = "META" /\ Ready({"headerMeta"})
          /\ LET i == First("headerMeta")
                 waits == job.rx[i].syn /\ job.rx[i].opts # <<>>
             IN Cycle("merger", {"headerMeta"}, "metaData" :> If(~waits, <<<<i, 0>>>>),
                      IF waits THEN State("SCALE", i, <<>>) ELSE Idle)
       \/ /\ st.s = "SCALE" /\ Ready({"winScale"})
          /\ Cycle("merger", {"winScale"}, "metaData" :> <<<<st.pkt, First("winScale")>>>>, Idle)
    /\ UNCHANGED tables

(* rxMetadataHandler takes metadata, tuple and port in step, and tells     *)
(* rxPackageDropper of a packet with payload (that it keeps).              *)
MetadataHandler ==
    /\ Ready({"metaData", "tuple", "portReq"})
    /\ LET m == First("metaData")
       IN Cycle("handler", {"metaData", "tuple", "portReq"},
                "metas" :> <<<<m[1], m[2], First("tuple"), First("portReq")>>>>
                  @@ "drop" :> If(job.rx[m[1]].len # 0, <<m[1]>>), Idle)
    /\ UNCHANGED tables

PackageDropper ==
    /\ \/ /\ ~fsm["dropper"] /\ Ready({"drop"})
          /\ Cycle("dropper", {"drop"}, <<>>, TRUE)
       \/ /\ fsm["dropper"] /\ Ready({"buf3"})
          /\ Cycle("dropper", {"buf3"}, "payload" :> <<First("buf3")>>, ~First("buf3").last)
    /\ UNCHANGED tables

Receive ==
    \/ process_ipv4 \/ DropMeta \/ DropWord
    \/ LShift("lshiftRx", "buf4", PseudoSize % W, "buf5")
    \/ constructPseudoHeader \/ prependPseudoHeader
    \/ Sum("sumRx", "buf1", "buf2", "rxSums") \/ check_checksum
    \/ processPseudoHeader
    \/ RShift("rshiftRx", "buf3a", FullSize % W, "buf3b")
    \/ OptionsFirst \/ OptionsNext \/ OptionsRest
    \/ ParseIdle \/ ParseOption \/ merge_header_meta
    \/ MetadataHandler \/ PackageDropper

------------------------------------------------------------------------------
Next == Transmit \/ Receive

(* Every process of the dataflow region runs in every cycle.               *)
Spec == Init /\ [][Next]_vars /\ WF_vars(Next)

------------------------------------------------------------------------------
(* The packets that the job asks for, and what it should bring.            *)
Packet(i) == IpHeader(i, i) \o Part("tcp", i, 4)
               \o <<<<"sum", i, FullSize + job.tx[i].len>>>> \o Body(i)
SentAll == FlattenSeq([i \in DOMAIN job.tx |-> Words(Packet(i), W)])
Valid == SelectSeq([i \in DOMAIN job.rx |-> i], LAMBDA i : job.rx[i].ok)
PayloadAll ==
    FlattenSeq([k \in DOMAIN Valid |->
                  Words(Part("data", Valid[k], job.rx[Valid[k]].len), W)])
MetasAll == [k \in DOMAIN Valid |->
               LET i == Valid[k] IN <<i, IF Scaled(i) THEN i ELSE 0, i, i>>]

(* tx_engine sends, word for word, the packets that it was told to: the    *)
(* headers of metadata and tuple of the same packet, a checksum over just  *)
(* that packet and its pseudo header, its own options or data, whatever    *)
(* the order in which the FIFOs fill. What takes sequence numbers leaves   *)
(* with the timer set, and new numbers are in tx_sar_table by then.        *)
TxPackets ==
    /\ IsPrefix(fifo["ipTxData"], SentAll)
    /\ \A n \in DOMAIN fifo["ipTxData"] :
         LET i == PacketOf(fifo["ipTxData"][n])
             new == job.tx[i].type # "RT" /\ ~job.tx[i].again
         IN job.tx[i].len # 0 \/ job.tx[i].type = "FIN" =>
              i \in armed /\ (new => i \in noted)

(* rx_engine delivers the payload of the packets with a right checksum,    *)
(* and nothing of the others, and metadata with the tuple and port of the  *)
(* same packet, in order.                                                  *)
RxSegments ==
    /\ IsPrefix(fifo["payload"], PayloadAll)
    /\ \A n \in DOMAIN fifo["metas"] :
         /\ n <= Len(MetasAll)
         /\ \A k \in {1, 3, 4} : fifo["metas"][n][k] = MetasAll[n][k]

(* The window scale in the metadata of a SYN is the one of its own option, *)
(* and 0 if it has none: tx_engine.cpp answers with the option "only [...] *)
(* if received with SYN as in RFC 7323 1.3".                               *)
ScaleOffered ==
    \A n \in DOMAIN fifo["metas"] :
        LET i == fifo["metas"][n][1]
        IN fifo["metas"][n][2] = IF Scaled(i) THEN i ELSE 0

(* Every packet gets through: no process waits for ever for a FIFO that    *)
(* another leaves empty, or full.                                          *)
Drains ==
    <>(/\ fifo["ipTxData"] = SentAll
       /\ fifo["payload"] = PayloadAll
       /\ fifo["metas"] = MetasAll)
=============================================================================
