---------------------------- MODULE MCTcpPackets ----------------------------
(* Mixes of a few packets, at data widths of 64, 128, 256 and 512 bits.    *)
EXTENDS TcpPackets

Out(type, len, first) == [type |-> type, len |-> len, first |-> first, again |-> FALSE]
Again(type, len) == [Out(type, len, 0) EXCEPT !.again = TRUE]
Send(width, tx) == [width |-> width, tx |-> tx, rx |-> <<>>]

Data(hl, opts, len, ok) == [hl |-> hl, syn |-> FALSE, opts |-> opts, len |-> len, ok |-> ok]
SynWith(opts) == [hl |-> 5, syn |-> TRUE, opts |-> opts, len |-> 0, ok |-> TRUE]
Receives(width, rx) == [width |-> width, tx |-> <<>>, rx |-> rx]

Timestamp == <<"TS", "TSval", "TSecr">>
Linux == <<"MSS", "SACK", "WS">>

Sending ==
    {Send(2, <<Out("SYN", 2, 0), Out("TX", 3, 0)>>),
     Send(2, <<Out("RT", 4, 1), Out("RST_NO_SESSION", 0, 0)>>),
     Send(4, <<Again("SYN_ACK", 1), Out("RT", 7, 4)>>),
     Send(8, <<Out("TX", 9, 0), Out("FIN", 0, 0), Out("RT", 12, 10)>>),
     Send(16, <<Out("RT", 20, 16), Out("ACK", 0, 0), Out("TX", 8, 0), Out("SYN", 2, 0)>>),
     Send(16, <<Out("RT", 21, 3), Out("RT", 18, 0), Out("RST", 0, 0)>>)}

Receiving ==
    {Receives(2, <<Data(6, <<>>, 2, TRUE), SynWith(Linux)>>),
     Receives(2, <<Data(5, Timestamp, 2, TRUE), Data(8, <<>>, 0, TRUE)>>),
     Receives(4, <<SynWith(<<"MSS">>), Data(5, <<>>, 5, FALSE), Data(5, Timestamp, 2, TRUE)>>),
     Receives(8, <<Data(5, Timestamp, 5, TRUE), Data(5, Timestamp, 0, TRUE),
                   SynWith(Linux \o Timestamp)>>),
     Receives(16, <<SynWith(<<"MSS", "SACK">> \o Timestamp \o <<"WS">>), Data(5, <<>>, 9, TRUE),
                    Data(5, Timestamp, 20, TRUE), Data(5, <<>>, 0, TRUE)>>)}

SmallJobs == Sending \cup Receiving

(* A SYN without a window scale behind one with it, in 64-bit words.       *)
StaleJobs ==
    {Receives(2, <<SynWith(Linux), SynWith(<<"MSS", "SACK">>)>>)}
=============================================================================
