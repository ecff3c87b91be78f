---------------------------- MODULE RetransList ----------------------------
(***************************************************************************)
(* What the retransmitter promises for one queue pair: the requests that   *)
(* wait for an answer, oldest first.  An answer is credited to the oldest  *)
(* request whatever its PSN.  A read that is answered by several packets   *)
(* keeps its entry, moved on by one packet, until the last one.            *)
(***************************************************************************)
EXTENDS Integers, Sequences, SequencesExt

CONSTANT PsnMod   \* number of packet sequence numbers, 2^24 in the code

(* mutant: the first packet of a read releases it *)
KeepsEntryMiddle == {"RESP_MIDDLE"}

(* Answers that leave the request in the list.                             *)
KeepsEntry == {"RESP_FIRST", "RESP_MIDDLE"}

(* Answers for which the local address is forwarded to rx_exh_fsm.         *)
ForwardsAddress == {"RESP_FIRST", "RESP_ONLY"}

(* The rest of a read after one of its packets.                            *)
Advanced(e) == [e EXCEPT !.laddr = @ + 1, !.raddr = @ + 1, !.len = @ - 1, 
                             !.psn = (@ + 1) % PsnMod]

Answered(list, op) ==
    IF list = <<>> THEN list
    ELSE IF op \in KeepsEntry THEN <<Advanced(Head(list))>> \o Tail(list)
    ELSE Tail(list)

(* Where the first request with this PSN is stored, 0 for none.            *)
IndexOf(list, psn) == SelectInSeq(list, LAMBDA e : e.psn = psn)

(* The requests from psn on, in order; none when psn is not stored.        *)
SuffixFrom(list, psn) ==
    LET i == IndexOf(list, psn)
    IN IF i = 0 THEN <<>> ELSE SubSeq(list, i, Len(list))
=============================================================================
