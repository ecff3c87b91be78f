# TLA+ verification of the FPGA network stack

The repository holds a network stack in Vitis/Vivado HLS: a TCP offload engine
(`src/hls/toe`), a RoCEv2 engine (`src/hls/ib_transport_protocol`, `src/hls/rocev2`),
UDP, IP, ARP, ICMP, DHCP and example applications.  This project models its TCP engine,
its RoCE transport and the edge towards the wire (IP sorting, ARP, ICMP, Ethernet
headers) in TLA+, checks the models with TLC and proves the most important results with
TLAPS.

An HLS core is a set of C++ functions that the `DATAFLOW` pragma turns into concurrent
hardware processes.  Each is called again every clock cycle, looks at its input FIFOs
(`empty()`), and does at most one thing.  Processes share no state: they talk through
FIFOs of fixed depth, and a write to a full FIFO stalls the writer.  In the models one
call of a process that does something is one action, a FIFO is a sequence with a depth,
and the order in which the processes take their steps is left open.  That is the
concurrency the C++ test benches, which call the functions one after the other, do not
exercise.

## 1. Inventory

### The TCP offload engine (`src/hls/toe`)

| part | state | operations | talks to |
|---|---|---|---|
| `state_table` | state of every session; one lock per client; three one-entry wait registers | read-and-lock, write-and-unlock for rx_engine and tx_app_if; plain read; release by a timer | all clients; session lookup (releases) |
| `rx_engine` | per segment: the FSM's LOAD/TRANSITION state and what it has read; queues of payloads, decisions, notifications | check the tuple, look the session up, decide per flags and state, place payload in the ring, drop or keep it, notify | state table, rx/tx sar tables, timers, event engine, memory, application |
| `rx_sar_table` | `recvd`, `appd`, `head`, `offset`, `gap` per session | read/write by rxTcpFSM, `appd` update by the application, advertised window | rx_engine, rx_app_stream_if, tx_engine |
| `rx_app_stream_if`, memory readers of `toe.cpp` | request under way | read what was notified: read command, pointer update, join two memory accesses | rx_sar_table, memory, application |
| `tx_app_stream_if` | write under way | test state, room in the ring and window; refuse or accept; copy to the ring | state table, tx_app_table, tx_engine, event engine |
| `tx_app_interface` (`tx_app_table`) | `ackd`, `mempt`, `min_window` per session | copy of the pointers for the application side | tx_sar_table, tx_app_stream_if |
| `tx_sar_table` | `ackd`, `not_ackd`, windows, `count`, `fastRetransmitted`, FIN flags | read/write by rxTcpFSM and metaLoader; pushes `ackd` to tx_app_table | rx_engine, tx_engine |
| `tx_engine` | metaLoader's event and segment number | build a segment per event (TX, RT, ACK, SYN, FIN, RST) | event queue, both sar tables, timers, memory |
| `event_engine`, `ack_delay` | 8-bit counters; per-session delay counters, scan position | merge events, hold one ACK per session back | rx_engine, timers, application, tx_engine |
| `retransmit_timer`, `probe_timer`, `close_timer` | per-session time, retries, type; scan position | set, clear, time out | rx/tx engine, event engine, state table, application |
| `tx_app_if`, `rx_app_if` | open/close under way | open, close, listen, status | port table, session lookup, state table |
| `session_lookup_controller`, `hash_table` | tuple -> ID, ID -> tuple, free IDs | look up, insert, delete | rx_engine, tx_app_if, state table, port table |
| `port_table` | listening and used ports | listen, check, offer a free port, release | rx_engine, rx_app_if, tx_app_if, session lookup |

What is hard here: reads and writes of one table entry by different processes with
FIFOs in between (stale copies); decisions and payloads that are paired by their
position in two FIFOs; rings and sequence numbers that wrap; timers that scan a table
while they are set and cleared; retransmissions that read memory the application is
writing; FIFOs that fill up; release and reuse of session IDs.

### The RoCEv2 engine (`src/hls/ib_transport_protocol`)

| part | state | operations | talks to |
|---|---|---|---|
| `rx_ibh_fsm`, `rx_exh_fsm` | packet under way, what was read for it | check the PSN (expected, duplicate, invalid), acknowledge, place data, issue memory commands, clear the timer | state, MSN tables, retransmitter, timer |
| `local_req_handler`, `handle_read_requests`, `meta_merger`, `generate_*` | request under way, the read that is being cut | give packets their PSN, store them for retransmission, start the timer | state table, retransmitter, memory |
| `drop_ooo_ibh`, `ipUdpMetaHandler`, `rx_exh_payload`, `merge_rx_pkgs`, `mem_cmd_merger`, `tx_pkg_arbiter`, `append_payload`, `prepend_ibh_header` | which packet the words belong to | bring headers, decisions and words of a packet together | FIFOs between them |
| `state_table`, `msn_table`, `conn_table` | PSN windows, MSN and address, peer per queue pair | reads and writes | both FSMs |
| `retransmitter` | linked lists in one table, pointer table with a lock, free list | insert, release the oldest, walk from a NAK's PSN or from the head | both sides, timer |
| `transport_timer` | time, retries per queue pair, scan position | set, clear, time out | rx_ibh_fsm, generate_ibh, retransmitter |

The hard behaviours: headers, decisions and words of one packet that travel on FIFOs of
different length; list manipulation over several cycles in a table that all queue pairs
share; PSNs modulo 2^24; lost requests, lost answers, and a time-out against a late
answer.

### The edge (`ip_handler`, `arp_server_subnet`, `icmp_server`, `mac_ip_encode`)

`ip_handler` sorts frames by type, checks address and header checksum, cuts padding and
sorts packets by protocol.  `arp_server_subnet` keeps MAC addresses by the last octet,
answers requests and asks when a lookup misses.  `icmp_server` turns echo requests into
replies and packets into error messages.  `mac_ip_encode` looks up the next hop of each
packet, inserts the header checksum and the Ethernet header, and drops packets whose next
hop is unknown.  Per-packet results (type, protocol, verdicts, MAC address, checksum)
travel on FIFOs of their own and are matched with packets by position.

### Not modelled parts

DHCP client (DISCOVER/REQUEST with time-outs), UDP, the stand-alone IP core, CRC, example
applications, board wiring.  `PROJECT.json` lists every part with its status; its
`hazards` list says, line by line, what is hard to test in this code.

### What makes each component correct

- **state table**: each client's read-modify-write is atomic; no request is lost or
  starves; a session is released exactly when it is closed.
- **receive path**: the application gets the peer's bytes once and in order, and all of
  them; every payload gets exactly one decision; the pointers describe the ring.
- **transmit path**: the peer gets the application's bytes at their place in the stream;
  nothing unacknowledged is overwritten; nothing is sent outside the window; while data is
  unacknowledged something will retransmit it.
- **event path**: event_engine never blocks; no acknowledgement that is due is lost, and
  it is sent in the end.
- **session lookup, port table**: an ID belongs to at most one tuple, IDs and ports are
  conserved.  **Connection**: SYN and FIN are exchanged in order, a session ends on both
  sides.  **Timers**: every set timer fires or is cleared.
- **packet pipelines** (TOE, RoCE, edge): what travels on separate FIFOs belongs to the same
  packet when it meets again; what is dropped is dropped as a whole; everything drains.
- **RoCE transport**: writes are executed once and in order, read data lands at the
  addresses of its read, completions are earned, everything completes.
- **retransmitter**: the linked lists behave as one queue per queue pair; indices are
  conserved; it never stops.
- **ARP, ICMP**: a frame carries the MAC address of its own next hop; a ping for us is
  answered or its sender is asked for.

## 2. What is modelled

| module | models | correspondence |
|---|---|---|
| `SessionStates` | abstract specification of the session states | one indivisible step per segment, open, close, timer release; the set of successor states per state is read off every branch of `rxTcpFSM` |
| `StateTable` | `state_table.cpp` and its clients | `TableTx` ... `TableCloseWait` are the branches of its `if`/`else if` chain, with the priority of the chain in the guards; `RxLoad`/`RxTransition`, `TxOpen`/`TxCloseRequest`/`TxCloseConn`, `StreamRequest`/`StreamResponse`, `TimerRelease` are the clients; EXTENDS `SessionStates`, whose variables `state` and `release` it implements |
| `RxPath` | receive path of one session, both builds (`RX_DDR_BYPASS` 0 and 1; `start.bypass`) | `Receive` = rxMetadataHandler; `FsmLoad`, `FsmAck`, `FsmFin`, `FsmDefault` = rxTcpFSM; `Placement` holds the branches of the ring-buffer build, `PlacementBypass` those of the default one; `Dropper`, `MemWrite`, `NotifyWritten`/`NotifyClosed`, `AppRead`, `MemRead`, `FifoRead` = the later stages |
| `TxPath` | transmit path of one established session, `TCP_NODELAY` build (the default) | `AppRequest`/`AppRefuse`/`AppAccept` = tasi_metaLoader and tasi_pkg_pusher; `TakeAckPush` = tx_app_table; `Ml*` = metaLoader's TX and RT cases with `Breakdown` and `ReadRing` for the memory access; `RxLoad`/`RxAck` = the acknowledgement handling of rxTcpFSM; `ClearRead`, `ClearLate`, `TimerSet`, `Timeout` = retransmit_timer |
| `EventPath` | event_engine, ack_delay and metaLoader's intake | `Take*` are the branches of event_engine, each with the three token reads that follow in the same call; `DelayAck`, `Forward`, `Scan` those of ack_delay |
| `SessionLookup` | session_lookup_controller, hash_table, port_table, and what rx_engine, tx_app_if, rx_app_if and the state table do to get and give up a session | `RequestTx` ... `Inserted` = lookupReplyHandler; `SendInsert`/`SendDelete` = updateRequestSender; `RecycleId`/`NewId` = sessionIdManager; `UpdateReply`; `RevInsert`/`RevRelease` = reverseLookupTableInterface; `HashLookup`/`HashUpdate` = hash_table_core; `Listen`, `CheckListening`, `ReleasePort`, `CheckUsed`, `OfferPort` = port_table; `AppOpen`/`OpenAnswer` = tx_app_if; `Arrive`, `Meta*`, `FsmSegment` = rx_engine |
| `TcpPackets` | the packet pipelines of tx_engine and rx_engine, 64 to 512 bits | one action per process and state (`metaLoader` ... `generate_ipv4`; `process_ipv4` ... `PackageDropper`); `Cycle` is one call of a process: it reads, writes and changes its state, and waits where a FIFO is empty or full |
| `WordShift` | the word shifters of `axi_utils.hpp` | `lshiftWordByOctet`, `rshiftWordByOctet` as functions of the word read and the carry; used by `TcpPackets` and `IpEdge` |
| `RetransList` | operations on a list of unanswered requests | what an answer releases, what a NAK or a time-out sends again |
| `RoceTransport` | requester and responder of one queue pair, and the network | `LocalRequest`, `LocalRetransmit` = local_req_handler to generate_ibh; `RxLoad`/`RxAccept`/`RxDrop` = rx_ibh_fsm; `RxExh` = rx_exh_fsm; `RespIbh`, `RespExh`, `HandleRead`, `SendAck`, `SendReadResponse` = the same processes and handle_read_requests at the responder; `Timer*` = transport_timer; `Retrans*` = the retransmitter as a list |
| `RocePipeline` | the dataflow of both directions of ib_transport_protocol | one action per process and state; the decision of rx_ibh_fsm on a packet is given by the job |
| `RetransQueue` | abstract specification of the retransmitter | a sequence per queue pair, one indivisible operation at a time |
| `Retransmitter` | `retransmitter.hpp` | one action per state of the state machine, plus pointer table, entry table and free list as processes; `Implements == Queue!AbsSpec` maps the lists that the FIFOs will leave to the sequences of `RetransQueue` |
| `IpEdge` | ip_handler, arp_server_subnet, icmp_server and mac_ip_encode, composed | one action per process (and state); the two ARP lookups, echo replies and errors close the loops between the cores |
| `StateTableProofs`, `EventPathProofs`, `SessionLookupProofs`, `RxPathProofs`, `TxPathProofs`, `RetransmitterProofs`, `RoceTransportProofs` | TLAPS proofs of the invariants, and of the refinements of `SessionStates` (`StateTableProofs`) and `RetransQueue` (`RetransmitterProofs`) | |
| `BasicLemmas` | facts about remainders, least numbers, sequences and sums that the proofs share | |
| `SeqSums` | sums over sequences, used by `RxPath` and `RoceTransport` | |
| `MC*` | segments, builds, events, ports, programs, packets and frames for TLC | |

Data is abstracted to what the properties distinguish.  Byte number p of a stream is the
number p, so the contents of a ring show which byte lies where.  Sequence numbers keep
their wrap (`% SeqSpace`), ring pointers theirs (`% BufSize`), 16-bit lengths theirs
(`% Short`), event_engine's 8-bit counters theirs (`Wrap`).  A port is a pair of bytes, so
that its two byte orders differ.  The hash table is a partial function from tuples to IDs;
an insert that finds no slot in its last round loses the entry it moved last, whichever
that is (`AfterInsert`).

In the packet modules a packet is a sequence of units, each `<<part, packet, position>>`
(32 bits in `TcpPackets`, 16 in `IpEdge`), and a word is a sequence of units with a `last`
flag, so that a unit out of place or of another packet shows.  A checksum is the sequence
of units it was computed over.  In `RoceTransport` a payload is the address it was read
from and a read is cut into packets; PSNs are modulo `PsnMod`.

External parts, modelled from the use the code makes of them:

- *the memory*: write commands are carried out in order and a status is returned after
  the write; a read issued before a write to the same cells is served first (the peer must
  first have been told of the window that the read frees);
- *the peer*: in `RxPath` it respects the advertised window, sends any of its segments at
  any time and any number of times; in `TxPath` it takes bytes in order, acknowledges what
  it has and does not shrink its window;
- *the network of RoCE*: two FIFOs that lose packets, as many as the scenario says;
- *the vendor's cores* in `IpEdge`: converters between 512 and 64 bits and an interconnect
  that merges whole packets;
- *the network*: in `TxPath` a set of messages, each delivered any number of times, in any
  order or never.

## 3. The runs

| run | result | what it asks |
|---|---|---|
| `state_table` | pass | `TypeOK`, `LockSafe`, refinement `Atomic`, liveness `RxServed`, `TxServed` |
| `rx_path` | pass | `TypeOK`, `StreamDelivered`, `PointerOrder`, `Decided`, liveness `WholeStream`, both builds |
| `tx_path` | pass | `TypeOK`, `PeerStream`, `PointerOrder` |
| `tx_path_window` | pass | `InWindow` with windows that change |
| `event_path` | pass | `TypeOK`, `GateMeansIdle`, `AckKept`, liveness `AckSent` |
| `session_lookup` | pass | `TypeOK`, `IdsConserved`, `TableOwned` |
| `tx_path_wrapped` | violation | `PeerStream` for a session other than 0 |
| `tcp_packets` | pass | `TxPackets`, `RxSegments`, `ScaleOffered`, liveness `Drains` |
| `roce_transport` | pass | `WritesInOrder`, `ReadsPlaced`, `NothingForgotten`, `CompletionsEarned`, liveness `Completes` |
| `roce_pipeline` | pass | `RxInStep`, `TxInStep`, liveness `Drains` |
| `retransmitter` | pass | refinement `Implements`, `IndicesConserved`, `LockFree`, liveness `ReadyAgain` |
| `ip_edge` | pass | `RxRouted`, `TxFramed`, liveness `Served` |

What they show beyond the single component:

- `tcp_packets`: whatever the order of the processes, every packet leaves with header,
  checksum, options and payload of the same packet, and its timer set; invalid segments
  leave no trace; the window scale reported is the one of the same SYN.
- `roce_transport`: with lost answers, or with lost requests and one request at a time,
  no request is forgotten and no completion unearned, whatever READs and ACKs overtake each
  other.  With lost requests and more than one outstanding, data is still written once and
  in order, but completions and liveness fail (section 4).  Three properties name what they
  need:
  - `WritesInOrder`: one request at a time, no losses, or no WRITE of several packets behind
    a READ.  A READ that is received again resets the address the WRITE continues at;
  - `ReadsPlaced`: one request at a time; or READs behind all other requests and no losses;
    or only READs, of which answers may be lost.  The address of read data is that of the
    oldest request, and with another mix this is not the READ: the ACK of a later request
    overtakes the responses, or the ACK of an earlier one was lost;
  - `Completes` (`Recoverable`): without losses, one request at a time or no other request
    behind a READ; with losses (no more than `RetryCount`), one request at a time that is no
    SEND.
  Each condition is refuted where it does not hold by a configuration of section 4.
- `roce_pipeline`: the three ways of a received packet and the two of a sent one stay in
  step for any two expected, duplicate or invalid packets before a third, and for any
  message of the user beside any read response, but for an invalid READ (`ReadsValid`) and
  for RESP_MIDDLE beside the user's SENDs and later WRITE packets (`RawUnshared`).
  Packets longer than the FIFOs get through as long as one side only asks the memory for
  words (`Flows`); with both sides only packets that fit do.
- `retransmitter`: lists that are walked without their lock, and a table with fewer entries
  than requests, still behave as queues.
- `ip_edge`: the four cores together never mix up packets, and do not wait for each other
  in a circle, with all FIFOs of depth 1.

Bounds, and why they are enough to mean something:

- `StateTable.cfg`: one session, FIFO depth 2 (the code's).  All contention for a lock is
  between requests for the same session.  That other sessions do not disturb it, and that
  the depth does not matter, is proved (section 5).
- `RxPath.cfg`: a stream of 5 bytes in four segments (the last with FIN and two bytes) and
  a reset, a ring of 5 bytes, depth 2, sequence space 10.  The ring wraps within the
  stream, fills up to the one byte that stays unused, and every branch of `Placement`
  but the one of `RxPathJoined.cfg` is taken, including a gap that is
  filled in two steps and one that grows behind `head`; the default build starts two
  numbers before the wrap of the sequence space.  `Depth` 2 lets every FIFO fill up.
- `TxPath.cfg`: a stream of 6 bytes in writes of 3 over a ring of 4 and a sequence space
  of 8 that starts at 7: two writes pass the end of the ring, retransmissions take two
  segments (MSS 2), two acknowledgements and one segment are in the network at a time, one
  retry before the abort.  `TxPathWindow.cfg` trades stream length for windows of 1 and 2
  that the peer changes.  `CHECK_DEADLOCK FALSE`: the bounded stream ends.
- `EventPath.cfg`: two sessions (session 0 retransmits and shares its ID with resets that
  have no session; session 1 only receives and answers), delay 2, depth 1, counters
  modulo 3, the smallest range in which the counters are unambiguous (2*Depth < Wrap;
  the code has 2^8 and depth 64 between the processes).
- `SessionLookup.cfg`: one ID for three kinds of user: SYNs to a listening port, answers to
  active opens, and active opens.  With a single ID the free list is empty most of the time
  and every release is followed by a reuse, so that late lookups, repeated releases and
  deletes in flight always meet the next owner.  FIFO depth 1 and one peer keep it at 2.3
  million states; two IDs do not finish in the time of a run.
- `TcpPackets.cfg`: FIFO depth 1 (the smallest; the code has 2 to 64), buffers for the
  checksum of 7 words, the longest packet.  The jobs hold packets of every kind, of lengths
  at and around the word boundary at each width, with split memory reads, options, and
  invalid packets before valid ones.  The memory words of a job come in any order of
  progress.  Jobs avoid the shapes that section 4 lists as defects.
- `RoceTransport.cfg`: all programs of two requests out of WRITE, SEND, READ of one and of
  two packets, with windows 1 and 2, no or one loss of a request, an answer or either; all
  programs of three WRITEs and READs with windows 2 and 3 without losses; messages of several
  packets, alone, before and behind a READ, with up to two losses.  154 scenarios, PSNs that
  wrap after the first one, three retries.  Three requests are the least in which a request
  is overtaken and a third meets the result.
- `RocePipeline.cfg`: any two packets of seven kinds and three verdicts before a WRITE; every
  message of the user (none, READ, SEND, WRITE of one packet or more, short or full) beside
  every read response of up to three packets, at most four packets together; two short
  requests beside a response and an ACK.  FIFO depth 2, full packets of 3 words, so
  that packets longer than a FIFO are there.  The one `Depth` stands for the depths of 2 to
  512 in the code (`ib_transport_protocol.cpp:2562-2652`, 2951-2955): what matters for
  `Drains` is whether a packet fits into the FIFOs of its kind of payload, which hold 4 to 10
  words in the code against packets of up to 64.
- `Retransmitter.cfg`: two queue pairs, a table of three entries, scripts of up to four
  insertions with answers, a NAK and time-outs that arrive at any time.
- `IpEdge.cfg`: eleven jobs of one to five frames and packets, wrong IP and ICMP checksums, FIFO depth 1, lengths at and
  around the 512-bit word with and without Ethernet header, addresses inside and outside of
  the subnet with known and unknown MAC address.
- `CHECK_DEADLOCK FALSE` in these five: a job, a program or a script ends.

`StreamLen`, `SegCap`, `AckCap`, `RetryLimit` and the finite jobs, programs and scripts are
the only bounds that the code does not have in some form.

### Assumptions of the models

- `Quiet` (RoceTransport): the transport timer (1 ms and more) runs out only when no packet
  or answer of the queue pair is on its way.
- `StoredBefore` (RoceTransport): a request is in the retransmitter before its answer
  arrives; the former takes a few cycles, the latter a round trip.
- `PipelineAssumption`: a full packet has fewer than 256 words, `wordCounter`'s range.
- `PacketsAssumption`, `EdgeAssumption`: FIFOs have at least one slot; `Drains` and `Served`
  further rely on `BufferWords` being at least the longest packet, as the code's comments
  ask ("critical, has to keep complete packet for checksum computation").
- A block RAM returns what was written in the cycle before (no read-after-write hazard).
- `TxPath.AppAccept` puts the bytes into the ring when the write is accepted; the code queues
  the command and the words in FIFOs towards the memory (`tx_app_stream_if.cpp`).  The read
  of a segment is issued behind them to the same memory, which carries out commands in order.
- `RxPath.MemRead` joins the two parts of a read that passes the end of the ring as they
  are; the realignment of their words (`toe.cpp:155-312`) is not modelled.

### Fairness

A dataflow process is called in every cycle, so each stage gets weak fairness: if it can
act for ever it does.  Strong fairness stands for three things:

- branches of a process that are reached only in cycles in which the branches above them
  have no input (`TableRx`, `TableTxWait`, `TableRxWait`; the scan of ack_delay): the
  process is called in each of those cycles, so a branch whose turn comes infinitely often
  is taken.  `RxServed`, `TxServed` and `AckSent` state the idle cycles they need as their
  hypothesis, because the code does not guarantee them: under load without a pause the
  parked request does starve;
- a peer that retransmits what is not acknowledged over a network that does not lose it
  for ever (`Receive` in `RxPath`, for segments and FIN, not for resets).

The packet modules, the RoCE modules and the retransmitter use weak fairness only, of
`Next` or of one disjunction per core or side: less than the code gives, since each
process runs in every cycle, and enough because their FIFOs only fill up to their depth.

The clients of the state table are not assumed to send new requests, the peer is not
assumed to send resets or foreign segments, and `TxPath` states no liveness.

## 4. Findings

**Second part of a retransmission read** (run `tx_path_wrapped`; `tx_engine.cpp:1494`).  The
second access of a read that passes the end of the ring goes to address 0 without the
session ID.  The write side keeps the ID.

Other defects met while modelling.  Those with a configuration are shown by TLC on a
small instance (`tlc -config X.cfg M`); these configurations are kept beside the runs.

| configuration, module | property | what happens |
|---|---|---|
| `RxPathJoined`, `MCRxPath` | `Decided` | `rx_engine.cpp:1195`: with a gap open, a segment at `recvd` that reaches past `offset` gets no decision, although line 1229 says "drop the packet in all other cases"; its payload takes the decision of the next one |
| `TxPathTimer`, `TxPath` | `Armed` | `rx_engine.cpp:1038`: between rxTcpFSM's read of `nextByte` and its stop, metaLoader may send more data and set the timer; the stop ends the timer of that data |
| `EventPathResets`, `MCEventPath` | `AckKeptAll` | `ack_delay.cpp:60`: resets without a session carry ID 0, and the acknowledgement held back for session 0 is dropped; line 59 assumes "no SYN/RST" |
| `SessionLookupPorts`, `MCSessionLookup` | `PortsMarked` | `session_lookup_controller.cpp:279`: ports are released in network byte order, the port table works in host order; closing a passive session frees the mirrored port of an active one |
| `SessionLookupReuse`, `MCSessionLookup` | `FreeIdsFree` | `session_lookup_controller.cpp:212`: an ID is free before the hash table has deleted its tuple; a SYN of the old tuple opens a session whose ID is free |
| `TcpPacketsStale`, `MCTcpPackets` | `ScaleOffered` | `packet.hpp:161`: `clear()` leaves the old bits, and `parse_optional_header_fields` (`rx_engine.cpp:666`) compares a length in words with one in bytes: a SYN without a window scale behind one with it is taken for one with it, against "only send in SYN-ACK if received with SYN" (`tx_engine.cpp:1156`) |
| `RoceTransportTimer`, `MCRoceTransport` | `TimerCovers` | `ib_transport_protocol.cpp:433`: the answer to a request stops the timer although the next request has left since the state table was read; `transport_timer.hpp:86` says "Timer is stopped when there are no more outstanding requests" |
| `RoceTransportNak`, `MCRoceTransport` | `NakStored` | `retransmitter.hpp:465-503`: an acknowledgement served before a NAK releases the request the NAK names; the walk reaches the tail and `RETRANS_1` waits for ever |
| `RoceTransportReads`, `MCRoceTransport` | `ReadDataPlaced` | READ, WRITE, READ with two outstanding, nothing lost: `meta_merger` sends the WRITE's ACK (line 1559) before the read responses (1571), it releases the READ's entry (423), and the second READ's data is placed at an address of another request |
| `RoceTransportOvertaken`, `MCRoceTransport` | `AllComplete` | the same program: the first READ is released by the ACK, its responses are dropped as having an old PSN, and it never completes |
| `RoceTransportCut`, `MCRoceTransport` | `WritesPlaced` | READ, WRITE_FIRST, WRITE_LAST with three outstanding and a lost answer: the READ, whose answer was lost, is sent again between the two packets; the responder executes it and resets the one address of the queue pair in `msn_table` (line 782), and WRITE_LAST is written to address 0 |
| `RocePipelineRead`, `MCRocePipeline` | `RxTogether` | `ib_transport_protocol.cpp:506`: an invalid READ gets a drop decision for words that it does not have; the next packet takes it |
| `RocePipelineRaw`, `MCRocePipeline` | `TxTogether` | a SEND beside a read response of three packets: `mem_cmd_merger` fetches the SEND first (line 1357), `meta_merger` sends the response first (1571), and RESP_MIDDLE takes the SEND's words from `tx_rawPayFifo` |
| `RocePipelineLong`, `MCRocePipeline` | `AllThrough` | a WRITE beside a read response longer than its FIFO: `tx_pkg_arbiter` fills the FIFO of the one while `append_payload` waits for the other's words behind it, and both wait for ever |

Read off the code and kept out of the bounds:

- ring-buffer build: `rx_engine.cpp:1150` compares sequence numbers as plain integers;
  `toe.cpp:135` splits reads at 64 KB although `WINDOW_SCALE` makes the ring 256 KB;
- TOE packets: the checksum buffers hold 256 words, less than an MSS of 4096 bytes at 64
  bits (`tx_engine.cpp:1659`, `rx_engine.cpp:1965`); `drop_optional_ip_header` works for an
  even number of option words at 64 bits and for none at 256 and 512 (`ipv4.hpp:88-112`);
  `drop_optional_header_fields` loses a word of payload when the options are a multiple of
  the data width (`rx_engine.cpp:588`) and writes the options of a SYN with payload twice at
  512 bits (lines 552 and 582), so that the next SYN gets them (no job has such a SYN); an
  option of length 0 is parsed for ever;
- RoCE: a write of length 0 leaves `rx_exh_fsm` waiting for data (`ib_transport_protocol.cpp:715`);
  duplicate SENDs are not acknowledged again and SENDs do not start the timer (lines 464,
  1820), so a lost SEND or its answer is not recovered; after the last retry the timer stops
  silently;
- edge: the ARP table is indexed by the last octet without comparing addresses
  (`arp_server_subnet.cpp:187`); an echo request longer than 64 words stops the receive side
  (`icmp_server.cpp:430`); error messages carry the constant source `1.1.1.1`; a stalled RoCE
  port stalls UDP (`duplicate_stream`); `cut_length` at 512 bits cuts packets of one word only.

## 5. Proofs

All theorems hold for every value of the constants that satisfies the named assumptions
(`DepthAssumption`, `NoneAssumption`, `ConstAssumption`, `SizeAssumption`,
`RetransAssumption`, `RoceAssumption`), and TLC evaluates those.  Each invariant was first checked with TLC
on the bounds of the component's run, then proved inductive.

| theorem | states | hypotheses |
|---|---|---|
| `StateTableProofs!TypeCorrect`, `LockCorrect`, `TableIsAtomic` | `TypeOK`, `LockSafe`, refinement `Atomic` | |
| `EventPathProofs!TypeCorrect`, `GateCorrect`, `AckNeverLost` | `TypeOK`, `GateMeansIdle`, `AckKept` | `2 * Depth < Wrap` |
| `SessionLookupProofs!TypeCorrect`, `IdsCorrect`, `TableCorrect` | `TypeOK`, `IdsConserved`, `TableOwned` | |
| `RxPathProofs!TypeCorrect`, `StreamCorrect`, `PointersCorrect`, `DecidedCorrect` | `TypeOK`, `StreamDelivered`, `PointerOrder`, `Decided` | `SteadyPeer` |
| `TxPathProofs!TypeCorrect`, `PointersCorrect`, `WindowKept` | `TypeOK`, `PointerOrder`, `InWindow` | the ring divides the sequence space; the stream is shorter than the sequence space |
| `TxPathProofs!StreamCorrect` | `PeerStream` | `SessionId = 0` |
| `RetransmitterProofs!LockCorrect`, `IndicesCorrect` | `LockFree`, `IndicesConserved` | operations are typed (`RetransAssumption`) |
| `RetransmitterProofs!Refines` | refinement `Implements` | the same |
| `RoceTransportProofs!WritesCorrect` | `WritesInOrder` | `ReadFree` |
| `RoceTransportProofs!CompletionsCorrect`, `NothingLost` | `CompletionsEarned`, `NothingForgotten` | `ReadFree`; both properties assume `Gapless` |

**`StateTableProofs`** — `TypeCorrect`, `LockCorrect` (`Spec => []LockSafe`) and
`TableIsAtomic` (`Spec => Atomic`, refinement of `SessionStates`) for any set of sessions
and any FIFO depth.  `LockSafe` alone is not inductive: that the answer a client holds is
current depends on where its request was before.  The invariant `IInv` adds, for each
client, the list of places its single request can be: `RxInv` (idle; asking, with the
read queued or parked; deciding, with the lock held and an answer that equals the current
state; writing, with a queued write that is a legal successor of the current state,
perhaps followed by the next read) and `TxInv` (the same, with writes of active opens
queued before it).  The step lemmas come in two halves: an action of one client keeps its
own part (`RxLoadInv`, `TableRxInv`, `TableTxInv`, ...), and what the table does for the
other cannot disturb it, because it never serves a session the first has locked
(`RxFrame`, `TxFrame`, `ServeRxRespectsTx`, `ServeTxRespectsRx`).  For the refinement each
write that is served is a step of the abstract specification since the invariant says the
written state is a successor of the current one; everything else stutters.

**`EventPathProofs`** — `TypeCorrect`, `GateCorrect` (`Spec => []GateMeansIdle`) and
`AckNeverLost` (`Spec => []AckKept`) for any number of sessions, any events, any depth
with `2 * Depth < Wrap`.  `GateInv` states that the distance of two counters, modulo
their range, is the number of events in the FIFO plus the number of tokens not yet read
(`Behind`); the bound on the depth makes the distance 0 unambiguous.  `KnownInv` states
that all events in FIFOs of a quiet session send a segment, from which each action keeps
the place of a due acknowledgement (`KeptStep`).

**`SessionLookupProofs`** — for any number of session IDs, ports, peers and segments, and
any FIFO depth.  `IdsConserved` alone is not inductive; `Ledger` says where each ID that has
been handed out is (free list, insert on its way, reverse table, delete on its way, free
again) and that these places are disjoint, and counts them, so that the free list cannot
overflow and `regSessionCount` stays in range (`IdsBounded`, by cardinalities).  `Types`
contains that rxMetadataHandler waits for one answer at a time (`LookupInv`).  `TableInv`
says for each entry of the hash table, and for each insert in flight, who owns the ID it
names; an insert that displaces entries may drop any of them, and the invariant does not
depend on which.

**`RxPathProofs`** — for both builds, any ring size, sequence number space, FIFO depth,
stream and set of segments that satisfies `SteadyPeer`, arriving in any order and any number
of times, with or without a session that is found.  `SteadyPeer` says what the code needs
and does not test: every segment is a part of one stream and the FIN its end; segments whose
flags rxTcpFSM ignores have no payload (its default case decides nothing about one); and in
the build with the ring buffer no sequence number passes 2^32 (they are compared as plain
integers, line 1150), no part of the stream is cut in two ways (a segment that closes a gap
and reaches beyond it gets no decision, `RxPathJoined.cfg`) and the buffer has 2^16 bytes.
The default build is proved across the wrap and for arbitrary overlaps.  `MCRxPath` assumes
`FixedIsSteady`, so TLC evaluates `SteadyPeer` on the segments of the run.

None of the four properties is inductive.  `Inv` adds what connects the FIFOs, for some list
`C` of accepted payloads that have not been taken to the memory or to the application, and
places `R`, `H`, `O` of the stream at which `recvd`, `head` and `offset` are:

- `Matched(C)`: by position, the payloads before the dropper are those rxTcpFSM has decided
  about, the one it holds and those it has not loaded, and the decisions select `C`
  (`Selects`, with the sums of the decisions as positions).  `Decided` follows from it;
- `Windows`, `Pointers`: segments on their way end within the window, which never shrinks,
  and the entry that rxTcpFSM has read differs from the stored one only in `appd`;
- `FifoBuild`: `C` is one piece of the stream from what was delivered to `recvd`, and each
  payload has its notification or its read, of its length;
- `RingBuild`: the write commands are those of `C`; for each number k of delayed
  notifications, every byte before `NotifiedAt(k)` is in the ring or is written by the
  first `WrittenAt(k) - statuses` payloads of `C` (`Contents`), and payloads written later
  lie behind it (`Unnotified`), so that no write destroys a byte that was announced; the
  same for the bytes between `offset` and `head` (`GapContents`).  That two bytes of the
  window never share a cell is `PointerOrder`.

One lemma per action (`ReceiveKeeps` ... `FifoReadKeeps`) proves that the parts hold
afterwards, for the list and the places it names.

**`TxPathProofs`** — for any ring size, sequence number space, stream, writes, windows,
losses, repetitions and reordering.  The invariant translates all pointers to places in the
stream: `Pos` for sequence numbers and `Behind` for ring addresses, which undoes the wrap
relative to what has been written.  `Order` is the order of the pointers; `Copies` says
that each copy of `ackd` on its way from rxTcpFSM over `ackPush` and tx_app_table to
tasi_metaLoader is older than the one it was made from and that its window ends within the
one the peer has advertised: the room that tasi_metaLoader computes from its copy is never
more than there is.  `Payloads` says that the payloads between the application and
metaLoader continue what has been sent, in the order of the events.  From these `RingHolds`
(the ring holds every unacknowledged byte) and `InNet` follow step by step.  `StreamCorrect`
adds `Received`.  Its hypothesis `SessionId = 0` is what the code needs: the second access
of a read that wraps goes to address 0, so the property fails for every other session (run
`tx_path_wrapped`).

**`RetransmitterProofs`** — for any number of queue pairs, table size, FIFO depth and
operations.  `Inv` has five parts.  `Types`.  `Control`: which FIFOs hold what in each state
of process_retransmissions (one pointer request or answer at a time, the lock held from the
answer to the write-back, one entry read at a time and after all writes).  `Lists`: the
sequence of indices of a queue pair (`Chain`, what the FIFOs will leave) is a linked list
of valid entries from head to tail, and the last entry is marked as tail except between
INSERT_0 and INSERT_1.  `Ledger(Places)`: each index is in exactly one place.  `InList`: an
entry that is being read is in the list that is being walked, the first one for an answer.
`Walk` and `AllApplied` are defined by recursive functions in a LET; the lemmas
`AllAppliedIs` and `WalkIs` first show that such a function exists and is unique, by a least
counterexample (`LeastNumber`), and the steps then only use the list facts (`IsList`).

**`RetransmitterProofs!Refines`** — every step of the retransmitter is a step of `RetransQueue` or
leaves its variables unchanged.  The abstract operation happens when the state machine takes
it in MAIN; after that the mapping shows its result before the tables have it, and the
lemmas `...Abs` show that each later step brings the tables nearer without changing the
mapped lists.  A retransmission sends one abstract entry per step of RETRANS_1/RETRANS_2.
Two facts are added to `Inv`: `Sought` (a walk that looks for a PSN has not passed it, hence
the entry found is the first one with that PSN) and `RoomForOne` (while an index is free
fewer than `TableSize` requests are stored, by an injection of the stored requests into the
used indices).

The refinement mapping finds the entry of a walk by its index (`Position`), not by its PSN:
PSNs may repeat in a list for arbitrary operations, and the theorem covers those.  Local and
remote addresses and lengths are integers without a width: nothing is decided on them.

**`RoceTransportProofs`** — for any program of WRITEs and SENDs, one request per packet with
the packets of a cut WRITE behind each other (`WellCut`), any number of PSNs, first PSN,
retry count and window, and any losses.  `WellCut` also says that a program takes fewer PSNs
than there are: `resp_old_outstanding` is set once and never advanced
(`state_table.hpp:191`), so after 2^24 packets the responder cannot tell a new request from a
duplicate.  TLC evaluates `RoceAssumption`, with `WellCut`, on the scenarios of the run.
`ReadFree` excludes programs with READs: read responses and ACKs leave by different queues
and overtake each other, and a duplicate READ resets the `vaddr` of msn_table, so the
invariant below is not theirs.  The run checks programs with READs: `NothingForgotten` and
`CompletionsEarned` hold for all of them, `WritesInOrder` and `ReadsPlaced` where their
hypotheses do.  `ReadFree` implies the hypothesis of `WritesInOrder`.

`WritesCorrect` rests on `Plain`.  `Types` types all queues and says that every packet, entry
and event carries the PSN of a request of the program; `Served` says that the responder has
taken the first `Done` requests (read off `epsn`), that its FIFO holds the last of them, that
the memory holds what the others write, and that `vaddr` is where the next packet of a cut
WRITE goes.  Since a request is taken only if its PSN is `epsn`, and no two requests of a
program have the same PSN (`PsnInjective`), no loss or repetition disturbs it.

`CompletionsCorrect` and `NothingLost` need to know where each request is, because
rx_ibh_fsm releases the oldest entry of the list for every answer, whatever its PSN.
`Flow` adds:

- `Listed`: the list and the inserts on their way hold the requests after those released, in
  order;
- `Counted`: each request is on its way at most once, as a retransmission event, a packet or
  an answer (`Cardinality(Flight) = Load`), and each answer to come or to be applied has an
  entry of its own in the list.  While a time-out waits in its FIFO, nothing that is stored
  is on its way (`Quiet`);
- `Earned`: only requests that were taken are answered, and nothing is refused;
- `Waiting`, when no request can be lost: what the responder has not taken is on the wire, in
  order, so that it finds no gap;
- `Single`, with a window of one: only the last request is on its way.

The last two are the two ways in which `Gapless` keeps the responder from sending a NAK.
`Gapless` is a part of the two properties because the code needs it: after a gap a NAK and a
time-out may both send a request again, and its second ACK releases a request that was never
received.

Only model-checked, and why:

- all liveness (`RxServed`, `TxServed`, `WholeStream`, `AckSent`, `Drains`, `Completes`,
  `ReadyAgain`, `Served`): fairness and ENABLED are out of the prover's reach;
- `RoceTransport` for programs with READs (`ReadsPlaced`, and the other three invariants,
  on the programs of the run): see `ReadFree` above;
- `TcpPackets`, `RocePipeline`, `IpEdge`: what leaves is compared with what a recursive
  definition computes from the job, which needs induction over data.

## 6. What is not modelled, and the plan

Not modelled by choice: the values of checksums and the CRC (bit matrices; the models keep
what a checksum covers), UDP and the stand-alone IP core (the same kind of pipeline as
`TcpPackets`, without its options), example applications, HDL wiring, and test benches.
`flow_control.hpp` is not instantiated, `multi_queue.hpp` only in builds without
`RETRANS_EN`, `arp_server.cpp` is not instantiated by the stack.

Planned, most important first:

1. `Connection`: the SYN and FIN cases of rxTcpFSM and metaLoader, tx_sar_table's FIN
   flags, txAppStatusHandler, composed with the state table's abstract specification; two
   engines as peers.
2. `Timers`: the scans of retransmit, probe, close and transport timer with concurrent set
   and clear.
3. `DhcpClient`; the realignment of `tasi_pkg_pusher` and `rxAppMemDataRead`.

Runs stay few: one passing run per component that carries all its properties, violating
runs only where code and comment disagree.

## 7. How to run

    tlc -workers 2 -config StateTable.cfg StateTable
    tlc -workers 2 -config RxPath.cfg MCRxPath
    tlc -workers 2 -config TxPath.cfg TxPath
    tlc -workers 2 -config EventPath.cfg MCEventPath
    tlc -workers 2 -config SessionLookup.cfg MCSessionLookup
    tlc -workers 2 -config TcpPackets.cfg MCTcpPackets
    tlc -workers 2 -config RoceTransport.cfg MCRoceTransport
    tlc -workers 2 -config RocePipeline.cfg MCRocePipeline
    tlc -workers 2 -config Retransmitter.cfg MCRetransmitter
    tlc -workers 2 -config IpEdge.cfg MCIpEdge
    tlapm StateTableProofs.tla
    tlapm EventPathProofs.tla
    tlapm SessionLookupProofs.tla
    tlapm RxPathProofs.tla
    tlapm TxPathProofs.tla
    tlapm BasicLemmas.tla
    tlapm RetransmitterProofs.tla
    tlapm RoceTransportProofs.tla

The passing runs take about a minute each.  Definitions preceded by a comment
"mutant: ..." are not part of a specification; each is a plausible bug which, put in the
place of the definition after it, violates the property named in `PROJECT.json`.
