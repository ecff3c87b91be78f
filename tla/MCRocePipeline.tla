--------------------------- MODULE MCRocePipeline ---------------------------
(* All mixes of a few packets that arrive, or that are to be sent.         *)
EXTENDS RocePipeline

Rx(op, words, verdict) == [op |-> op, words |-> words, verdict |-> verdict]
Arrive(rx) == [rx |-> rx, out |-> <<>>, local |-> <<>>, remote |-> <<>>, acks |-> <<>>]

(* Any two packets, and a WRITE behind them.  An ACK is always expected.   *)
Words == [WRITE_ONLY |-> 3, WRITE_MIDDLE |-> 1, SEND_ONLY |-> 1, RESP_ONLY |-> 1,
          RESP_MIDDLE |-> 3, READ |-> 1]
Arrivals == {Rx("ACK", 1, "expected")} \cup
            {Rx(op, Words[op], v) : op \in DOMAIN Words, v \in {"expected", "duplicate", "invalid"}}
Arriving ==
    {Arrive(<<a, b, Rx("WRITE_ONLY", 2, "expected")>>) : a, b \in Arrivals}

(* A message is one packet, or full packets and a last one.                *)
Out(op, words) == [op |-> op, words |-> words]
Full(op) == Out(op, PmtuWords)
Writes1 == {<<Out("WRITE_ONLY", 1)>>, <<Full("WRITE_ONLY")>>,
            <<Full("WRITE_FIRST"), Full("WRITE_MIDDLE"), Out("WRITE_LAST", 1)>>}
Sends1 == {<<Out("SEND_ONLY", 1)>>, <<Full("SEND_FIRST"), Out("SEND_LAST", 1)>>}
Reads1 == {<<Out("READ", 1)>>}
Responses1 == {<<Out("RESP_ONLY", 1)>>, <<Full("RESP_ONLY")>>,
               <<Full("RESP_FIRST"), Full("RESP_MIDDLE"), Out("RESP_LAST", 1)>>}
Acks1 == {<<Out("ACK", 1)>>}

Depart(local, remote, acks) ==
    LET upTo(a, n) == [k \in 1 .. n |-> a + k]
    IN [rx |-> <<>>, out |-> local \o remote \o acks, local |-> upTo(0, Len(local)),
        remote |-> upTo(Len(local), Len(remote)),
        acks |-> upTo(Len(local) + Len(remote), Len(acks))]

(* A message of the user beside responses, and two short ones beside a     *)
(* response and an acknowledgement.                                        *)
Requests == Writes1 \cup Sends1 \cup Reads1
Short == {m \in Requests : Len(m) = 1 /\ m[1].words = 1}
Pairs == {n \in (Requests \cup {<<>>}) \X (Responses1 \cup {<<>>}) : Len(n[1]) + Len(n[2]) <= 4}
Departing ==
    {Depart(n[1], n[2], <<>>) : n \in Pairs} \cup
    {Depart(l \o m, <<Out("RESP_ONLY", 1)>>, a) : l, m \in Short, a \in Acks1}

MixedJobs == Arriving \cup Departing

(* The jobs of the defects.                                                *)
InvalidRead == {Arrive(<<Rx("READ", 1, "invalid"), Rx("WRITE_ONLY", 1, "expected"),
                         Rx("WRITE_ONLY", 2, "expected")>>)}
SharedRaw == {Depart(<<Full("SEND_ONLY")>>,
                     <<Full("RESP_FIRST"), Full("RESP_MIDDLE"), Out("RESP_LAST", 1)>>, <<>>)}
LongResponse == {Depart(<<Out("WRITE_ONLY", 1)>>, <<Full("RESP_ONLY")>>, <<>>)}
=============================================================================
