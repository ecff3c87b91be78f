------------------------------ MODULE WordShift ------------------------------
(***************************************************************************)
(* The word shifters of axi_utils.hpp.                                     *)
(*                                                                         *)
(* A packet crosses the data path in words of W units (a unit is a number  *)
(* of bits that every header is a multiple of). The keep bits of a word    *)
(* are a prefix, so a word is the sequence of its valid units and last. A  *)
(* shifter is a function of the word that it reads and of what it carries  *)
(* from the words before.                                                  *)
(***************************************************************************)
EXTENDS Integers, Sequences

Word(units, last) == [u |-> units, last |-> last]

Upto(s, k) == SubSeq(s, 1, IF k < Len(s) THEN k ELSE Len(s))
From(s, k) == SubSeq(s, k + 1, Len(s))

(* The words of a packet: all but the last are full.                       *)
Words(units, W) ==
    LET n == (Len(units) + W - 1) \div W
    IN [i \in 1 .. n |-> Word(Upto(From(units, (i - 1) * W), W), i = n)]

(* Zeros under set keep bits: room for a header.                           *)
Zero == <<"zero", 0, 0>>
Zeros(k) == [i \in 1 .. k |-> Zero]

(* A shifter between packets, within one (carry: units still to be sent),  *)
(* or with only the carry left to send (rest).                             *)
Fresh == [carry |-> <<>>, first |-> TRUE, rest |-> FALSE]
Within(carry, rest) == [carry |-> carry, first |-> FALSE, rest |-> rest]

(* The word sent when w is read and k of its units fit behind the carry.   *)
Joined(carry, w, k) == Word(carry \o Upto(w.u, k), Len(w.u) <= k)
Carried(w, k) ==
    IF w.last /\ Len(w.u) <= k THEN Fresh ELSE Within(From(w.u, k), w.last)

(* lshiftWordByOctet and its copies: offset units of room before a packet. *)
lshiftWordByOctet(st, offset, w, W) ==
    LET k == W - offset
        carry == IF st.first THEN Zeros(offset) ELSE st.carry
    IN IF offset = 0 THEN [out |-> <<w>>, st |-> Fresh]
       ELSE [out |-> <<Joined(carry, w, k)>>, st |-> Carried(w, k)]

(* rshiftWordByOctet and its copies: the first offset units are cut off.   *)
(* A packet of one word always leaves a rest.                              *)
rshiftWordByOctet(st, offset, w) ==
    IF offset = 0 THEN [out |-> <<w>>, st |-> Fresh]
    ELSE IF st.first THEN [out |-> <<>>, st |-> Within(From(w.u, offset), w.last)]
    ELSE [out |-> <<Joined(st.carry, w, offset)>>, st |-> Carried(w, offset)]
==============================================================================
