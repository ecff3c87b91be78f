------------------------------- MODULE IpEdge -------------------------------
(***************************************************************************)
(* The edge of the stack: ip_handler sorts the frames that arrive,         *)
(* arp_server_subnet answers ARP and keeps the table of neighbours,        *)
(* icmp_server answers pings and writes error messages, mac_ip_encode puts *)
(* an Ethernet header before every packet that leaves.                     *)
(*                                                                         *)
(* ip_handler and mac_ip_encode only build at 512 bits (their checksum     *)
(* functions exist for no other width), icmp_server works in 64-bit words. *)
(* The width converters around it and the interconnect before              *)
(* mac_ip_encode are cores of the vendor.                                  *)
(*                                                                         *)
(* A unit is 16 bits: <<part, packet, position>>. An IP address is         *)
(* <<network, host>>: the subnet mask tells the two apart, and the ARP     *)
(* table is indexed by the host. The frames that arrive and the packets    *)
(* that leave are fixed by a job.                                          *)
(***************************************************************************)
EXTENDS WordShift, SequencesExt

CONSTANTS Jobs,       \* [frames, packets, errors, asks]: what arrives from
                      \* the wire, the stacks, and as lookups of the host
          Me,         \* myIpAddress
          Gateway,    \* regDefaultGateway
          Broadcast,  \* 255.255.255.255
          Depth,      \* slots of a FIFO
          BufferWords \* slots of the FIFOs that hold a message for its checksum

ASSUME EdgeAssumption == Depth \in Nat \ {0} /\ BufferWords \in Nat \ {0}

VARIABLES job,      \* the job, chosen at the start
          fifo,     \* the FIFOs between the processes
          fsm,      \* the state of each process
          arpTable  \* MAC addresses by host, NoMac where invalid

vars == <<job, fifo, fsm, arpTable>>

Inputs == {"raw", "stack", "udpIn", "ttlIn", "hostReq"}
Ports == {"TCP", "UDP", "ROCE", "ICMPv6", "IPv6UDP"}
Outputs == Ports \cup {"frames", "arpOut", "hostRsp"}
HandlerFifos == {"etherType", "ethData", "ipv4Shift", "ipv6Shift", "ipData", "ipv6Data",
                 "ipDataMeta", "ipDataCheck", "ipDataDrop", "ipDataCut", "udpData",
                 "subSums", "validChecksum", "validIpAddress", "ipv4Valid",
                 "ipv4Protocol", "arpIn", "icmpWide"}
ArpFifos == {"arpReplyMeta", "arpRequestMeta", "arpTableInsert", "macReq", "macRsp"}
IcmpFifos == {"icmpIn", "packageBuffer1", "valid", "unreachData", "unreachHeader", "echoes",
              "errors", "echoSums", "errorSums", "icmpOut", "replies"}
MacFifos == {"dataIn", "buffer0", "buffer1", "buffer2", "buffer3", "buffer4", "macSums",
             "checksum", "header"}
Whole == {"packageBuffer1", "unreachData"}

Room(f) ==
    f \in Inputs \cup Outputs \/ Len(fifo[f]) < IF f \in Whole THEN BufferWords ELSE Depth

(* One cycle of process p: it reads the FIFOs ins, writes outs and goes to *)
(* state st. It waits for what it reads, and for room where it writes.     *)
Cycle(p, ins, outs, st) ==
    /\ \A f \in DOMAIN outs : outs[f] = <<>> \/ Room(f)
    /\ fifo' = [f \in DOMAIN fifo |->
                  (IF f \in ins THEN Tail(fifo[f]) ELSE fifo[f])
                    \o (IF f \in DOMAIN outs THEN outs[f] ELSE <<>>)]
    /\ fsm' = [fsm EXCEPT ![p] = st]
    /\ UNCHANGED job

Ready(fs) == \A f \in fs : fifo[f] # <<>>
First(f) == Head(fifo[f])
PacketOf(w) == w.u[1][2]
If(b, s) == IF b THEN s ELSE <<>>

------------------------------------------------------------------------------
(* Frames and packets. Numbers name them: first the frames of the job,     *)
(* then its packets, then those that an error message is about.            *)
Wide == 32
Narrow == 4
EthSize == 7
ArpSize == 21
MinFrame == 30

Everything == job.frames \o job.packets \o job.errors
Numbers(before, s) == [k \in DOMAIN s |-> Len(before) + k]
Frames == Numbers(<<>>, job.frames)
Packets == Numbers(job.frames, job.packets)
Errors == Numbers(job.frames \o job.packets, job.errors)
Info(i) == Everything[i]

Part(part, i, n) == [k \in 1 .. n |-> <<part, i, k>>]
Put(units, k, unit) == Upto(units, k - 1) \o <<unit>> \o From(units, k)
Ip(i) == Part("ip", i, Info(i).len)

(* A frame on the wire: short ones are padded to 60 bytes.                 *)
Arriving(i) ==
    LET units == IF Info(i).type = "ARP" THEN Part("arp", i, ArpSize)
                 ELSE Part("eth", i, EthSize) \o Ip(i)
    IN units \o Zeros(IF Len(units) < MinFrame THEN MinFrame - Len(units) ELSE 0)

(* The fields of an IPv4 header: header length, total length, addresses.   *)
HeaderUnits(units) == 2 * Info(units[1][2]).hl
TotalLength(units) == Info(units[2][2]).len
Address(unit) == CASE unit[3] = 7 -> Info(unit[2]).src
                   [] unit[3] = 9 -> Info(unit[2]).dst
DstAddr(units) == Address(units[9])

(* In a network every address has its MAC address.                         *)
NoMac == <<>>
Mac(ip) == <<"mac", ip>>

Init ==
    /\ job \in Jobs
    /\ fifo = [f \in Inputs \cup Outputs \cup HandlerFifos \cup ArpFifos \cup IcmpFifos
                       \cup MacFifos |->
                CASE f = "raw" ->
                       FlattenSeq([k \in DOMAIN Frames |-> Words(Arriving(Frames[k]), Wide)])
                  [] f = "stack" ->
                       FlattenSeq([k \in DOMAIN Packets |-> Words(Ip(Packets[k]), Wide)])
                  [] f \in {"udpIn", "ttlIn"} ->
                       FlattenSeq([k \in DOMAIN Errors |->
                                     If(Info(Errors[k]).type = f, Words(Ip(Errors[k]), Narrow))])
                  [] f = "hostReq" -> job.asks
                  [] OTHER -> <<>>]
    /\ fsm = [detect |-> TRUE, route |-> "META", shift4 |-> Fresh, shift6 |-> Fresh,
              extract |-> TRUE, sums |-> TRUE, check |-> TRUE, invalid |-> "GET_VALID",
              cut |-> TRUE, protocol |-> "META", protocol6 |-> "META", duplicate |-> TRUE,
              processArp |-> [requests |-> 0, replies |-> 0], generateArp |-> <<>>,
              table |-> TRUE,
              narrow |-> [u |-> <<>>, last |-> TRUE], widen |-> <<>>, merge |-> "META",
              icmp |-> [n |-> 0, prev |-> Word(<<>>, FALSE), sum |-> <<>>, s |-> "PKG"],
              unreach |-> [s |-> "IDLE", from |-> "udpIn", n |-> 0, sum |-> <<>>],
              addIp |-> [s |-> "IDLE", src |-> <<>>, rest |-> <<>>],
              dropper |-> "META", insert |-> [n |-> 0, from |-> "echoes"],
              extractMac |-> TRUE, macSum |-> TRUE, finalize |-> TRUE,
              insertSum |-> TRUE, handle |-> "ARP", shiftMac |-> Fresh, ethernet |-> TRUE]
    /\ arpTable = [h \in {Everything[i].dst[2] : i \in DOMAIN Everything}
                           \cup {Everything[i].src[2] : i \in DOMAIN Everything}
                           \cup {job.asks[k][2] : k \in DOMAIN job.asks}
                           \cup {Gateway[2]} |-> NoMac]

------------------------------------------------------------------------------
(* ip_handler. *)

(* detect_eth_protocol: the type of a frame goes ahead of its words.       *)
detect_eth_protocol ==
    /\ Ready({"raw"})
    /\ LET w == First("raw")
       IN Cycle("detect", {"raw"},
                "etherType" :> If(fsm["detect"], <<Info(PacketOf(w)).type>>)
                  @@ "ethData" :> <<w>>, w.last)
    /\ UNCHANGED arpTable

(* route_by_eth_protocol: frames of other types are dropped.               *)
EtherRoute == "ARP" :> "arpIn" @@ "IPv4" :> "ipv4Shift" @@ "IPv6" :> "ipv6Shift"

Routed(route, key, w) == IF key \in DOMAIN route THEN route[key] :> <<w>> ELSE <<>>

route_by_eth_protocol ==
    /\ LET st == fsm["route"]
           ins == IF st = "META" THEN {"etherType", "ethData"} ELSE {"ethData"}
       IN /\ Ready(ins)
          /\ LET type == IF st = "META" THEN First("etherType") ELSE st
                 w == First("ethData")
             IN Cycle("route", ins, Routed(EtherRoute, type, w),
                      IF w.last THEN "META" ELSE type)
    /\ UNCHANGED arpTable

(* The shifters as processes between two FIFOs.                            *)
RShift(p, in, out) ==
    /\ \/ /\ fsm[p].rest
          /\ Cycle(p, {}, out :> <<Word(fsm[p].carry, TRUE)>>, Fresh)
       \/ /\ ~fsm[p].rest /\ Ready({in})
          /\ LET r == rshiftWordByOctet(fsm[p], EthSize, First(in))
             IN Cycle(p, {in}, out :> r.out, r.st)
    /\ UNCHANGED arpTable

LShift(p, in, out) ==
    /\ \/ /\ fsm[p].rest
          /\ Cycle(p, {}, out :> <<Word(fsm[p].carry, TRUE)>>, Fresh)
       \/ /\ ~fsm[p].rest /\ Ready({in})
          /\ LET r == lshiftWordByOctet(fsm[p], EthSize, First(in), Wide)
             IN Cycle(p, {in}, out :> r.out, r.st)
    /\ UNCHANGED arpTable

(* extract_ip_meta: is the packet for us, and what does it carry.          *)
extract_ip_meta ==
    /\ Ready({"ipData"})
    /\ LET w == First("ipData")
           meta == fsm["extract"]
       IN Cycle("extract", {"ipData"},
                "ipDataMeta" :> <<w>>
                  @@ "validIpAddress" :> If(meta, <<DstAddr(w.u) \in {Me, Broadcast}>>)
                  @@ "ipv4Protocol" :> If(meta, <<Info(PacketOf(w)).proto>>), w.last)
    /\ UNCHANGED arpTable

(* compute_ipv4_checksum: the header is in the first word. A sum is the    *)
(* sequence of the units that it adds up; skipChecksum leaves out the      *)
(* field for the sum itself.                                               *)
compute_ipv4_checksum(p, in, out, sums, skipChecksum) ==
    /\ Ready({in})
    /\ LET w == First(in)
           header == Upto(w.u, HeaderUnits(w.u))
           sum == IF skipChecksum THEN RemoveAt(header, 6) ELSE header
       IN Cycle(p, {in}, out :> <<w>> @@ sums :> If(fsm[p], <<sum>>), w.last)
    /\ UNCHANGED arpTable

check_ipv4_checksum ==
    /\ Ready({"subSums"})
    /\ LET sum == First("subSums")
           i == sum[1][2]
       IN Cycle("check", {"subSums"},
                "validChecksum" :> <<sum = Part("ip", i, 2 * Info(i).hl) /\ Info(i).ok>>, TRUE)
    /\ UNCHANGED arpTable

(* ip_invalid_dropper: the words of an invalid packet are dropped, and     *)
(* detect_ipv4_protocol is told.                                           *)
ip_invalid_dropper ==
    /\ LET st == fsm["invalid"] IN
       \/ /\ st = "GET_VALID" /\ Ready({"validChecksum", "validIpAddress"})
          /\ LET ok == First("validChecksum") /\ First("validIpAddress")
             IN Cycle("invalid", {"validChecksum", "validIpAddress"}, "ipv4Valid" :> <<ok>>,
                      IF ok THEN "FWD" ELSE "DROP")
       \/ /\ st # "GET_VALID" /\ Ready({"ipDataCheck"})
          /\ LET w == First("ipDataCheck")
             IN Cycle("invalid", {"ipDataCheck"}, "ipDataDrop" :> If(st = "FWD", <<w>>),
                      IF w.last THEN "GET_VALID" ELSE st)
    /\ UNCHANGED arpTable

(* cut_length: padding is cut from packets of one word.                    *)
Cut(w, first) == IF first /\ w.last THEN Word(Upto(w.u, TotalLength(w.u)), TRUE) ELSE w

cut_length ==
    /\ Ready({"ipDataDrop"})
    /\ LET w == First("ipDataDrop")
       IN Cycle("cut", {"ipDataDrop"}, "ipDataCut" :> <<Cut(w, fsm["cut"])>>, w.last)
    /\ UNCHANGED arpTable

(* detect_ipv4_protocol: packets of other protocols are dropped. An        *)
(* invalid packet left only its protocol.                                  *)
IpRoute == "ICMP" :> "icmpWide" @@ "UDP" :> "udpData" @@ "TCP" :> "TCP"

(* mutant: the protocol of an invalid packet stays for the next one *)
AfterMetaWaits(protocol, valid) == protocol
AfterMeta(protocol, valid) == IF valid THEN protocol ELSE "META"

detect_ipv4_protocol ==
    /\ LET st == fsm["protocol"] IN
       \/ /\ st = "META" /\ Ready({"ipv4Protocol", "ipv4Valid"})
          /\ Cycle("protocol", {"ipv4Protocol", "ipv4Valid"}, <<>>,
                   AfterMeta(First("ipv4Protocol"), First("ipv4Valid")))
       \/ /\ st # "META" /\ Ready({"ipDataCut"})
          /\ LET w == First("ipDataCut")
             IN Cycle("protocol", {"ipDataCut"}, Routed(IpRoute, st, w),
                      IF w.last THEN "META" ELSE st)
    /\ UNCHANGED arpTable

Ipv6Route == "ICMPv6" :> "ICMPv6" @@ "UDP" :> "IPv6UDP"

detect_ipv6_protocol ==
    /\ Ready({"ipv6Data"})
    /\ LET w == First("ipv6Data")
           next == IF fsm["protocol6"] = "META" THEN Info(PacketOf(w)).proto
                   ELSE fsm["protocol6"]
       IN Cycle("protocol6", {"ipv6Data"}, Routed(Ipv6Route, next, w),
                IF w.last THEN "META" ELSE next)
    /\ UNCHANGED arpTable

(* duplicate_stream: UDP and RoCE both get what comes over UDP.            *)
duplicate_stream ==
    /\ Ready({"udpData"})
    /\ Cycle("duplicate", {"udpData"},
             "UDP" :> <<First("udpData")>> @@ "ROCE" :> <<First("udpData")>>, TRUE)
    /\ UNCHANGED arpTable

ip_handler ==
    \/ detect_eth_protocol \/ route_by_eth_protocol
    \/ RShift("shift4", "ipv4Shift", "ipData") \/ RShift("shift6", "ipv6Shift", "ipv6Data")
    \/ extract_ip_meta
    \/ compute_ipv4_checksum("sums", "ipDataMeta", "ipDataCheck", "subSums", FALSE)
    \/ check_ipv4_checksum \/ ip_invalid_dropper \/ cut_length
    \/ detect_ipv4_protocol \/ detect_ipv6_protocol \/ duplicate_stream

------------------------------------------------------------------------------
(* arp_server_subnet. *)

(* process_arp_pkg: requests for us are answered, replies to us are kept.  *)
process_arp_pkg ==
    /\ Ready({"arpIn"})
    /\ LET w == First("arpIn")
           f == Info(PacketOf(w))
           ours(op) == w.last /\ f.dst = Me /\ f.proto = op
           st == fsm["processArp"]
       IN Cycle("processArp", {"arpIn"},
                "arpReplyMeta" :> If(ours("REQUEST"), <<f.src>>)
                  @@ "arpTableInsert" :> If(ours("REPLY"), <<f.src>>),
                [requests |-> st.requests + (IF ours("REQUEST") THEN 1 ELSE 0),
                 replies |-> st.replies + (IF ours("REPLY") THEN 1 ELSE 0)])
    /\ UNCHANGED arpTable

(* generate_arp_pkg: replies before requests. A packet is a word.          *)
generate_arp_pkg ==
    /\ \/ /\ fsm["generateArp"] = <<>> /\ Ready({"arpReplyMeta"})
          /\ Cycle("generateArp", {"arpReplyMeta"}, <<>>, <<"REPLY", First("arpReplyMeta")>>)
       \/ /\ fsm["generateArp"] = <<>> /\ ~Ready({"arpReplyMeta"}) /\ Ready({"arpRequestMeta"})
          /\ Cycle("generateArp", {"arpRequestMeta"}, <<>>,
                   <<"REQUEST", First("arpRequestMeta")>>)
       \/ /\ fsm["generateArp"] # <<>>
          /\ Cycle("generateArp", {}, "arpOut" :> <<fsm["generateArp"]>>, <<>>)
    /\ UNCHANGED arpTable

(* arp_table: an insertion first, then lookups of mac_ip_encode, then of   *)
(* the host. A lookup that misses asks the network.                        *)
ArpInsert ==
    /\ Ready({"arpTableInsert"})
    /\ LET ip == First("arpTableInsert")
       IN /\ arpTable' = [arpTable EXCEPT ![ip[2]] = Mac(ip)]
          /\ Cycle("table", {"arpTableInsert"}, <<>>, TRUE)

(* mutant: the miss is reported, but nobody is asked *)
ArpLookupSilent(req, rsp) ==
    /\ Cycle("table", {req}, rsp :> <<arpTable[First(req)[2]]>>, TRUE)
    /\ UNCHANGED arpTable
ArpLookup(req, rsp) ==
    /\ LET ip == First(req)
           mac == arpTable[ip[2]]
       IN Cycle("table", {req}, rsp :> <<mac>> @@ "arpRequestMeta" :> If(mac = NoMac, <<ip>>),
                TRUE)
    /\ UNCHANGED arpTable

arp_table ==
    \/ ArpInsert
    \/ /\ ~Ready({"arpTableInsert"}) /\ Ready({"macReq"})
       /\ ArpLookup("macReq", "macRsp")
    \/ /\ ~Ready({"arpTableInsert"}) /\ ~Ready({"macReq"}) /\ Ready({"hostReq"})
       /\ ArpLookup("hostReq", "hostRsp")

arp_server_subnet == process_arp_pkg \/ generate_arp_pkg \/ arp_table

------------------------------------------------------------------------------
(* icmp_server. *)

(* The converters between the widths.                                      *)
NarrowIcmp ==
    /\ LET st == fsm["narrow"]
           ins == If(st.u = <<>>, <<"icmpWide">>)
           cut(w) == Cycle("narrow", Range(ins),
                           "icmpIn" :> <<Word(Upto(w.u, Narrow), w.last /\ Len(w.u) <= Narrow)>>,
                           [u |-> From(w.u, Narrow), last |-> w.last])
       IN Ready(Range(ins)) /\ cut(IF ins = <<>> THEN st ELSE First("icmpWide"))
    /\ UNCHANGED arpTable

WidenIcmp ==
    /\ Ready({"icmpOut"})
    /\ LET w == First("icmpOut")
           units == fsm["widen"] \o w.u
           full == w.last \/ Len(units) = Wide
       IN Cycle("widen", {"icmpOut"}, "replies" :> If(full, <<Word(units, w.last)>>),
                If(~full, units))
    /\ UNCHANGED arpTable

(* check_icmp_checksum: turns a request into its reply. The addresses      *)
(* change places (a word is sent when the next one is there), the type     *)
(* changes, and the message is summed up from the third word on. After the *)
(* last word the verdict is given, and for a request the new checksum.     *)
Swapped(prev, w) == Word(SubSeq(prev.u, 1, 2) \o SubSeq(w.u, 1, 2), FALSE)
Reply(prev, w) ==
    [w EXCEPT !.u = SubSeq(prev.u, 3, 4) \o <<<<"reply", @[3][2], 11>>>> \o From(@, 3)]

IcmpWord ==
    /\ fsm["icmp"].s = "PKG" /\ Ready({"icmpIn"})
    /\ LET st == fsm["icmp"]
           w == First("icmpIn")
       IN Cycle("icmp", {"icmpIn"},
                "packageBuffer1" :> CASE st.n = 0 -> <<>>
                                      [] st.n = 2 -> <<Swapped(st.prev, w)>>
                                      [] OTHER -> <<st.prev>>,
                [n |-> IF w.last THEN 0 ELSE IF st.n < 3 THEN st.n + 1 ELSE 3,
                 prev |-> IF st.n = 2 THEN Reply(st.prev, w) ELSE w,
                 sum |-> CASE st.n < 2 -> <<>>
                           [] st.n = 2 -> SubSeq(w.u, 3, 4)
                           [] OTHER -> st.sum \o w.u,
                 s |-> IF w.last THEN "LAST" ELSE "PKG"])
    /\ UNCHANGED arpTable

IcmpLast ==
    /\ fsm["icmp"].s = "LAST"
    /\ Cycle("icmp", {}, "packageBuffer1" :> <<fsm["icmp"].prev>>,
             [fsm["icmp"] EXCEPT !.s = "CS"])
    /\ UNCHANGED arpTable

EchoSums(i, valid) == If(valid, <<<<"icmpSum", i, 12>>>>)

IcmpVerdict ==
    /\ fsm["icmp"].s = "CS"
    /\ LET i == PacketOf(fsm["icmp"].prev)
           valid == fsm["icmp"].sum = From(Ip(i), 10) /\ Info(i).icmpOk /\ Info(i).echo
       IN Cycle("icmp", {}, "valid" :> <<valid>> @@ "echoSums" :> EchoSums(i, valid),
                [fsm["icmp"] EXCEPT !.s = "PKG"])
    /\ UNCHANGED arpTable

(* dropper: the whole message waits in packageBuffer1 for its verdict.     *)
dropper ==
    /\ LET st == fsm["dropper"]
           ins == IF st = "META" THEN {"packageBuffer1", "valid"} ELSE {"packageBuffer1"}
       IN /\ Ready(ins)
          /\ LET w == First("packageBuffer1")
                 to == IF st # "META" THEN st ELSE IF First("valid") THEN "FWD" ELSE "DROP"
             IN Cycle("dropper", ins, "echoes" :> If(to = "FWD", <<w>>),
                      IF w.last THEN "META" ELSE to)
    /\ UNCHANGED arpTable

(* udpPortUnreachable: an ICMP header (destination unreachable, or TTL     *)
(* exceeded), then the packet that it is about; the three words with its   *)
(* IP header go to udpAddIpHeader as well. The checksum comes last.        *)
udpPortUnreachable ==
    /\ LET st == fsm["unreach"] IN
       \/ /\ st.s = "IDLE" /\ (Ready({"udpIn"}) \/ Ready({"ttlIn"}))
          /\ LET from == IF Ready({"udpIn"}) THEN "udpIn" ELSE "ttlIn"
                 header == Part("error", PacketOf(First(from)), 4)
             IN Cycle("unreach", {}, "unreachData" :> <<Word(header, FALSE)>>,
                      [s |-> "IP", from |-> from, n |-> 0, sum |-> header])
       \/ /\ st.s = "IP" /\ Ready({st.from})
          /\ LET w == First(st.from)
             IN Cycle("unreach", {st.from}, "unreachData" :> <<w>> @@ "unreachHeader" :> <<w.u>>,
                      [st EXCEPT !.sum = @ \o w.u, !.n = IF @ = 2 THEN @ ELSE @ + 1,
                                 !.s = IF st.n = 2 THEN "STREAM" ELSE @])
       \/ /\ st.s = "STREAM" /\ Ready({st.from})
          /\ LET w == First(st.from)
             IN Cycle("unreach", {st.from}, "unreachData" :> <<w>>,
                      [st EXCEPT !.sum = @ \o w.u, !.s = IF w.last THEN "CS" ELSE @])
       \/ /\ st.s = "CS"
          /\ Cycle("unreach", {}, "errorSums" :> <<<<"errorSum", st.sum>>>>,
                   [st EXCEPT !.s = "IDLE"])
    /\ UNCHANGED arpTable

(* udpAddIpHeader: the IP header of the error message is made from the one *)
(* of the packet, which goes back to where it came from. The source is a   *)
(* constant.                                                               *)
Longer(h) == <<h[1], <<"longer", h[2][2], 2>>, h[3], h[4]>>
ToIcmp(h) == <<<<"icmp", h[1][2], 5>>, h[2], <<"source", 0, 7>>, <<"source", 0, 8>>>>
AddIp(s, src, rest) == [s |-> s, src |-> src, rest |-> rest]

udpAddIpHeader ==
    /\ LET st == fsm["addIp"] IN
       \/ /\ st.s = "IDLE" /\ Ready({"unreachHeader"})
          /\ Cycle("addIp", {"unreachHeader"},
                   "errors" :> <<Word(Longer(First("unreachHeader")), FALSE)>>,
                   AddIp("IP", <<>>, <<>>))
       \/ /\ st.s = "IP" /\ Ready({"unreachHeader"})
          /\ Cycle("addIp", {"unreachHeader"},
                   "errors" :> <<Word(ToIcmp(First("unreachHeader")), FALSE)>>,
                   AddIp("MERGE", SubSeq(First("unreachHeader"), 3, 4), <<>>))
       \/ /\ st.s = "MERGE" /\ Ready({"unreachHeader", "unreachData"})
          /\ LET w == First("unreachData")
             IN Cycle("addIp", {"unreachHeader", "unreachData"},
                      "errors" :> <<Word(st.src \o SubSeq(w.u, 1, 2), FALSE)>>,
                      AddIp("STREAM", <<>>, From(w.u, 2)))
       \/ /\ st.s = "STREAM" /\ Ready({"unreachData"})
          /\ LET w == First("unreachData")
                 next == CASE w.last /\ Len(w.u) <= 2 -> "IDLE"
                           [] w.last /\ Len(w.u) > 2 -> "RESIDUE"
                           [] OTHER -> "STREAM"
             IN Cycle("addIp", {"unreachData"},
                      "errors" :> <<Word(st.rest \o Upto(w.u, 2), next = "IDLE")>>,
                      AddIp(next, <<>>, If(next # "IDLE", From(w.u, 2))))
       \/ /\ st.s = "RESIDUE"
          /\ Cycle("addIp", {}, "errors" :> <<Word(st.rest, TRUE)>>, AddIp("IDLE", <<>>, <<>>))
    /\ UNCHANGED arpTable

(* insertChecksum: a whole message from one of the two streams, echoes     *)
(* first; its third word waits for the checksum.                           *)
SumsOf == "echoes" :> "echoSums" @@ "errors" :> "errorSums"

insertChecksum ==
    /\ LET st == fsm["insert"] IN
       \/ /\ st.n = 0 /\ (Ready({"echoes"}) \/ Ready({"errors"}))
          /\ LET from == IF Ready({"echoes"}) THEN "echoes" ELSE "errors"
             IN Cycle("insert", {from}, "icmpOut" :> <<First(from)>>, [n |-> 1, from |-> from])
       \/ /\ st.n = 2 /\ Ready({st.from, SumsOf[st.from]})
          /\ Cycle("insert", {st.from, SumsOf[st.from]},
                   "icmpOut" :> <<[First(st.from) EXCEPT !.u = Put(@, 4, First(SumsOf[st.from]))]>>,
                   [st EXCEPT !.n = 3])
       \/ /\ st.n \in {1, 3} /\ Ready({st.from})
          /\ LET w == First(st.from)
             IN Cycle("insert", {st.from}, "icmpOut" :> <<w>>,
                      [st EXCEPT !.n = IF w.last THEN 0 ELSE IF @ = 1 THEN 2 ELSE @])
    /\ UNCHANGED arpTable

icmp_server ==
    \/ NarrowIcmp \/ IcmpWord \/ IcmpLast \/ IcmpVerdict \/ dropper
    \/ udpPortUnreachable \/ udpAddIpHeader \/ insertChecksum \/ WidenIcmp

------------------------------------------------------------------------------
(* mac_ip_encode. *)

(* The interconnect before it takes whole packets from either side.        *)
Interconnect ==
    /\ \E from \in {"replies", "stack"} :
         /\ fsm["merge"] \in {"META", from} /\ Ready({from})
         /\ Cycle("merge", {from}, "dataIn" :> <<First(from)>>,
                  IF First(from).last THEN "META" ELSE from)
    /\ UNCHANGED arpTable

(* Destinations outside of the subnet are reached through the gateway.     *)
NextHop(dst) == IF dst[1] = Gateway[1] THEN dst ELSE Gateway

extract_ip_address ==
    /\ Ready({"dataIn"})
    /\ LET w == First("dataIn")
       IN Cycle("extractMac", {"dataIn"},
                "buffer0" :> <<w>> @@ "macReq" :> If(fsm["extractMac"], <<NextHop(DstAddr(w.u))>>),
                w.last)
    /\ UNCHANGED arpTable

finalize_ipv4_checksum ==
    /\ Ready({"macSums"})
    /\ Cycle("finalize", {"macSums"}, "checksum" :> <<<<"sum", First("macSums")>>>>, TRUE)
    /\ UNCHANGED arpTable

insert_ip_checksum ==
    /\ LET first == fsm["insertSum"]
           ins == IF first THEN {"buffer1", "checksum"} ELSE {"buffer1"}
       IN /\ Ready(ins)
          /\ LET w == First("buffer1")
             IN Cycle("insertSum", ins,
                      "buffer2" :> <<IF first THEN [w EXCEPT !.u = Put(@, 6, First("checksum"))] ELSE w>>,
                      w.last)
    /\ UNCHANGED arpTable

(* mutant: only the first word of a packet is dropped *)
AfterReplyFirst(hit, w) == IF w.last \/ ~hit THEN "ARP" ELSE "FWD"
(* handle_arp_reply: a packet whose next hop is unknown is dropped.        *)
AfterReply(hit, w) == CASE w.last -> "ARP"
                        [] ~w.last /\ hit -> "FWD"
                        [] OTHER -> "DROP"

handle_arp_reply ==
    /\ LET st == fsm["handle"] IN
       \/ /\ st = "ARP" /\ Ready({"macRsp", "buffer2"})
          /\ LET mac == First("macRsp")
                 hit == mac # NoMac
                 w == First("buffer2")
             IN Cycle("handle", {"macRsp", "buffer2"},
                      "header" :> If(hit, <<mac>>) @@ "buffer3" :> If(hit, <<w>>),
                      AfterReply(hit, w))
       \/ /\ st # "ARP" /\ Ready({"buffer2"})
          /\ LET w == First("buffer2")
             IN Cycle("handle", {"buffer2"}, "buffer3" :> If(st = "FWD", <<w>>),
                      IF w.last THEN "ARP" ELSE st)
    /\ UNCHANGED arpTable

EthHeader(mac) == Part("eth", mac, EthSize)

insert_ethernet_header ==
    /\ LET first == fsm["ethernet"]
           ins == IF first THEN {"header", "buffer4"} ELSE {"buffer4"}
       IN /\ Ready(ins)
          /\ LET w == First("buffer4")
                 units == IF first THEN EthHeader(First("header")) \o From(w.u, EthSize) ELSE w.u
             IN Cycle("ethernet", ins, "frames" :> <<Word(units, w.last)>>, w.last)
    /\ UNCHANGED arpTable

mac_ip_encode ==
    \/ Interconnect \/ extract_ip_address
    \/ compute_ipv4_checksum("macSum", "buffer0", "buffer1", "macSums", TRUE)
    \/ finalize_ipv4_checksum \/ insert_ip_checksum \/ handle_arp_reply
    \/ LShift("shiftMac", "buffer3", "buffer4") \/ insert_ethernet_header

------------------------------------------------------------------------------
Next == ip_handler \/ arp_server_subnet \/ icmp_server \/ mac_ip_encode

(* Every process of the dataflow regions runs in every cycle.              *)
Spec == Init /\ [][Next]_vars /\ WF_vars(Next)

------------------------------------------------------------------------------
(* What a frame is to its receivers, and what must leave because of it.    *)
Valid(i) == Info(i).type = "IPv4" /\ Info(i).ok /\ Info(i).dst \in {Me, Broadcast}
Takes(i) ==
    CASE Valid(i) /\ Info(i).proto = "TCP" -> {"TCP"}
      [] Valid(i) /\ Info(i).proto = "UDP" -> {"UDP", "ROCE"}
      [] Info(i).type = "IPv6" /\ Info(i).proto = "ICMPv6" -> {"ICMPv6"}
      [] Info(i).type = "IPv6" /\ Info(i).proto = "UDP" -> {"IPv6UDP"}
      [] OTHER -> {}
Expected(port) ==
    LET is == SelectSeq(Frames, LAMBDA i : port \in Takes(i))
    IN FlattenSeq([k \in DOMAIN is |-> Words(Ip(is[k]), Wide)])

Pings ==
    {i \in Range(Frames) : Valid(i) /\ Info(i).proto = "ICMP" /\ Info(i).icmpOk /\ Info(i).echo}
Outgoing == Pings \cup Range(Packets) \cup Range(Errors)
EchoReply(i) ==
    [k \in 1 .. Info(i).len |->
       CASE k \in 7 .. 8 -> <<"ip", i, k + 2>>
         [] k \in 9 .. 10 -> <<"ip", i, k - 2>>
         [] k = 11 -> <<"reply", i, 11>>
         [] k = 12 -> <<"icmpSum", i, 12>>
         [] OTHER -> <<"ip", i, k>>]
ErrorMessage(i) ==
    LET header == Part("error", i, 4)
    IN Longer(Upto(Ip(i), 4)) \o ToIcmp(SubSeq(Ip(i), 5, 8)) \o SubSeq(Ip(i), 7, 8)
         \o Put(header, 2, <<"errorSum", header \o Ip(i)>>) \o Ip(i)
Leaving(p) == CASE p \in Pings -> EchoReply(p)
                [] p \in Range(Packets) -> Ip(p)
                [] OTHER -> ErrorMessage(p)
HopOf(p) == LET dst == IF p \in Range(Packets) THEN Info(p).dst ELSE Info(p).src
            IN IF dst[1] = Gateway[1] THEN dst ELSE Gateway
FrameOf(p) ==
    LET units == Leaving(p)
        sum == <<"sum", RemoveAt(Upto(units, 2 * Info(p).hl), 6)>>
    IN Words(EthHeader(Mac(HopOf(p))) \o Put(units, 6, sum), Wide)

Starts == {n \in DOMAIN fifo["frames"] : n = 1 \/ fifo["frames"][n - 1].last}
SentBy(n) == fifo["frames"][n].u[EthSize + 1][2]
Source(p) == IF p \in Pings THEN "ping" ELSE Info(p).type

(* Every receiver gets, word for word and in order, the packets that are   *)
(* for it, without Ethernet header and padding: none that is damaged or    *)
(* for another host, none after a dropped one that the FIFOs of protocols  *)
(* and verdicts are out of step with. UDP and RoCE see the same packets.   *)
RxRouted == \A port \in Ports : IsPrefix(fifo[port], Expected(port))

(* Every frame that leaves is a whole packet with its own checksums, sent  *)
(* to the MAC address of its own next hop, whatever was dropped before it  *)
(* and whenever the ARP table learned the address; echo replies carry the  *)
(* request's data back to its sender. The packets of a source keep their   *)
(* order. A lookup of the host gives the address asked for, or a miss.     *)
TxFramed ==
    /\ \A n \in Starts :
         /\ SentBy(n) \in Outgoing
         /\ \A k \in DOMAIN FrameOf(SentBy(n)) :
              n + k - 1 \in DOMAIN fifo["frames"]
                => fifo["frames"][n + k - 1] = FrameOf(SentBy(n))[k]
    /\ \A m, n \in Starts :
         m < n /\ Source(SentBy(m)) = Source(SentBy(n)) => SentBy(m) < SentBy(n)
    /\ \A k \in DOMAIN fifo["hostRsp"] : fifo["hostRsp"][k] \in {NoMac, Mac(job.asks[k])}

(* Everything comes to an end: what arrives is delivered, ARP requests for *)
(* us and lookups of the host are answered, and what should leave leaves,  *)
(* or the network has been asked for its next hop.                         *)
Asked(ip) == \E k \in DOMAIN fifo["arpOut"] : fifo["arpOut"][k] = <<"REQUEST", ip>>
Served ==
    <>(/\ \A port \in Ports : fifo[port] = Expected(port)
       /\ \A p \in Outgoing : Asked(HopOf(p)) \/ \E n \in Starts : SentBy(n) = p
       /\ \A i \in Range(Frames) :
            Info(i).type = "ARP" /\ Info(i).proto = "REQUEST" /\ Info(i).dst = Me
              => \E k \in DOMAIN fifo["arpOut"] : fifo["arpOut"][k] = <<"REPLY", Info(i).src>>
       /\ Len(fifo["hostRsp"]) = Len(job.asks)
       /\ \A k \in DOMAIN fifo["hostRsp"] : fifo["hostRsp"][k] = NoMac => Asked(job.asks[k]))
=============================================================================
