------------------------------ MODULE SeqSums ------------------------------
(* Sums of sequences of numbers: bytes of segments, sequence numbers of    *)
(* requests.                                                               *)
EXTENDS Integers, Sequences

(* The sum of the first i entries of a sequence of numbers, and of all.    *)
Sums(s) == LET sum[i \in 0 .. Len(s)] == IF i = 0 THEN 0 ELSE sum[i - 1] + s[i] IN sum
Total(s) == Sums(s)[Len(s)]
=============================================================================
