---------------------------- MODULE MCEventPath -----------------------------
(* Session 0 retransmits and shares its ID with the resets that belong to  *)
(* no session; session 1 only receives, and answers.                       *)
EXTENDS EventPath

Ev(t, s) == [type |-> t, session |-> s]
RxMixed   == {Ev("ACK", 0), Ev("ACK", 1), Ev("ACK_NODELAY", 1), Ev("RT", 0), Ev("RST", 0)}
TimerRt   == {Ev("RT", 0)}
AppTx     == {Ev("TX", 1)}
RxResets  == {Ev("ACK", 0), Ev("ACK", 1), Ev("RST", 0)}
NoEvents  == {}
=============================================================================
