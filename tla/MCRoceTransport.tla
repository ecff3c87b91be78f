-------------------------- MODULE MCRoceTransport --------------------------
(* Programs of a few requests, with the faults of the network they meet.   *)
EXTENDS RoceTransport

R(op, laddr, raddr, len) == [op |-> op, laddr |-> laddr, raddr |-> raddr, len |-> len]

S(program, window, losses, may) ==
    [program |-> program, window |-> window, losses |-> losses, may |-> may]
Faults == SUBSET {"request", "answer"} \ {{}}

(* Programs of requests of one packet, and of reads: request i has         *)
(* addresses of its own.                                                   *)
Kinds == {"WRITE_ONLY", "SEND_ONLY", "READ", "LONG_READ"}
Program(kinds) ==
    [i \in DOMAIN kinds |->
        CASE kinds[i] = "READ" -> R("READ", 30 + 2 * i, 50 + 2 * i, 1)
          [] kinds[i] = "LONG_READ" -> R("READ", 30 + 2 * i, 50 + 2 * i, 2)
          [] OTHER -> R(kinds[i], 10 + i, IF kinds[i] = "SEND_ONLY" THEN 0 ELSE 20 + 2 * i, 1)]

(* Every program of two requests, with no or one loss of any kind.         *)
TwoRequests ==
    {S(Program(k), w, 0, {}) : k \in [1 .. 2 -> Kinds], w \in 1 .. 2} \cup
    {S(Program(k), w, 1, may) : k \in [1 .. 2 -> Kinds], w \in 1 .. 2, may \in Faults}

(* Every program of three writes and reads on a network without losses.    *)
ThreeRequests ==
    {S(Program(k), w, 0, {}) : k \in [1 .. 3 -> {"WRITE_ONLY", "READ"}], w \in 2 .. 3}

(* Messages of several packets.                                            *)
WriteMessage == <<R("WRITE_FIRST", 11, 21, 1), R("WRITE_LAST", 12, 22, 1)>>
LongWrite == <<R("WRITE_FIRST", 11, 21, 1), R("WRITE_MIDDLE", 12, 22, 1),
               R("WRITE_LAST", 13, 23, 1)>>
SendMessage == <<R("SEND_FIRST", 11, 0, 1), R("SEND_LAST", 12, 0, 1)>>
ReadMessage == <<R("READ", 31, 41, 2)>>
Messages ==
    {S(LongWrite, 3, 2, {"answer"}), S(LongWrite, 1, 2, {"request", "answer"}),
     S(WriteMessage, 2, 2, {"request", "answer"}),
     S(WriteMessage \o <<R("WRITE_ONLY", 14, 31, 1)>>, 2, 1, {"request"}),
     S(WriteMessage \o ReadMessage, 3, 1, {"answer"}),
     S(WriteMessage \o ReadMessage, 2, 1, {"request"}),
     S(ReadMessage \o WriteMessage, 3, 0, {}),
     S(ReadMessage \o WriteMessage, 1, 1, {"request", "answer"}),
     S(ReadMessage \o <<R("READ", 34, 44, 1)>>, 2, 2, {"answer"}),
     S(SendMessage, 2, 0, {})}

Tolerated == TwoRequests \cup ThreeRequests \cup Messages

(* The scenarios of the defects.  Two writes, one of which is lost.        *)
LostWrite == {S(WriteMessage, 2, 1, {"request"})}

(* A READ in a stream of requests, without losses and with a lost answer.  *)
MixedRequests == {S(Program(<<"READ", "WRITE_ONLY", "READ">>), 2, 0, {})}
ReadAndMessage == {S(Program(<<"READ">>) \o WriteMessage, 3, 1, {"answer"})}
=============================================================================
