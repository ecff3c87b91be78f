------------------------------ MODULE MCRxPath ------------------------------
(* Instances of the receive path for TLC. *)
EXTENDS RxPath

Seg(f, p, n) == [flags |-> f, pos |-> p, len |-> n]
Ring(isn) == [bypass |-> FALSE, isn |-> isn]
Fifo(isn) == [bypass |-> TRUE, isn |-> isn]

(* Both builds, the default one across the wrap of the sequence numbers. *)
BothBuilds == {Ring(2), Fifo(8)}

(* A peer that cuts its stream into segments once and for all. *)
FixedSegments == {Seg("ACK", 0, 1), Seg("ACK", 1, 1), Seg("ACK", 2, 1),
                  Seg("FIN", 3, 2), Seg("RST", 2, 0)}

RingOnly == {Ring(1)}

(* A peer that joins two segments when it retransmits them. *)
JoinedSegments == {Seg("ACK", 0, 1), Seg("ACK", 1, 1), Seg("ACK", 0, 2), Seg("FIN", 2, 0)}

(* The first is one of the peers that the theorems are about. *)
ASSUME FixedIsSteady == Segments = FixedSegments => SteadyPeer
=============================================================================
