-------------------------- MODULE MCRetransmitter --------------------------
(* Two queue pairs whose requests share the table.                         *)
EXTENDS Retransmitter

E(op, psn, addr, len) == [op |-> op, psn |-> psn, laddr |-> addr, raddr |-> addr, len |-> len]
Ins(q, e) == [qpn |-> q, entry |-> e]
Upd(q, op) == [qpn |-> q, op |-> op]
Rq(q, psn) == [qpn |-> q, psn |-> psn]

Script(insert, upd, nak, timeout) ==
    [k \in {"upd", "nak", "timeout", "insert"} |->
        CASE k = "insert" -> insert [] k = "upd" -> upd [] k = "nak" -> nak
          [] k = "timeout" -> timeout]

W(psn) == E("WRITE_ONLY", psn, 10 + psn, 1)
SharedTable ==
    {Script(<<Ins(1, W(7)), Ins(2, W(0)), Ins(1, E("READ", 2, 20, 3)), Ins(1, W(5))>>,
            <<Upd(1, "ACK"), Upd(1, "RESP_FIRST"), Upd(1, "RESP_ONLY")>>,
            <<Rq(1, 2)>>, <<Rq(1, 0)>>),
     Script(<<Ins(1, W(7)), Ins(2, W(0)), Ins(2, W(1))>>,
            <<Upd(2, "ACK"), Upd(1, "ACK")>>, <<Rq(2, 1)>>, <<Rq(1, 0), Rq(2, 0)>>)}
=============================================================================
