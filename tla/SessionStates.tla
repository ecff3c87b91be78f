---------------------------- MODULE SessionStates ----------------------------
(***************************************************************************)
(* What the TCP offload engine needs from its table of session states: the *)
(* receive engine, the application interface and the timers each change a  *)
(* session's state in ONE indivisible step that depends on the state the   *)
(* session has at that moment, and a session is handed back to the session *)
(* lookup exactly when such a step of the receive engine or of a timer     *)
(* leaves it CLOSED.  StateTable.tla (locks, wait registers and FIFOs)     *)
(* implements this specification.                                          *)
(***************************************************************************)
EXTENDS Naturals, Sequences

CONSTANT Sessions       \* the session identifiers 0 .. MAX_SESSIONS - 1

VARIABLES state,        \* state[s]: the TCP state of session s
          release       \* sessions on their way back to the session lookup

absVars == <<state, release>>

(* enum sessionState *)
States == {"CLOSED", "SYN_SENT", "SYN_RECEIVED", "ESTABLISHED", "FIN_WAIT_1",
           "FIN_WAIT_2", "CLOSING", "TIME_WAIT", "LAST_ACK"}

(* The states rxTcpFSM may write back after it has read state st: one set  *)
(* per state, whatever the segment is.  Every branch writes some state,    *)
(* the unchanged one included, because the write is what gives up the lock.*)
RxNext(st) ==
  {st, "CLOSED"} \cup
  (CASE st = "CLOSED"       -> {"SYN_RECEIVED"}
     [] st = "SYN_SENT"     -> {"SYN_RECEIVED", "ESTABLISHED"}
     [] st = "SYN_RECEIVED" -> {"ESTABLISHED"}
     [] st = "ESTABLISHED"  -> {"LAST_ACK"}
     [] st \in {"FIN_WAIT_1", "FIN_WAIT_2"} -> {"TIME_WAIT", "CLOSING"}
     [] st = "CLOSING"      -> {"TIME_WAIT"}
     [] OTHER               -> {})

(* What tx_app_if writes back when the application closes a session whose  *)
(* state it has read as st.                                                *)
CloseNext(st) ==
  IF st \in {"ESTABLISHED", "FIN_WAIT_2", "FIN_WAIT_1"} THEN "FIN_WAIT_1" ELSE st

absInit == /\ state = [s \in Sessions |-> "CLOSED"]
           /\ release = <<>>

(* A segment of session s is processed. *)
absRx(s) == \E st \in RxNext(state[s]) :
              /\ state' = [state EXCEPT ![s] = st]
              /\ release' = IF st = "CLOSED" THEN Append(release, s) ELSE release

(* The application opens, respectively closes, session s. *)
absOpen(s) == state' = [state EXCEPT ![s] = "SYN_SENT"] /\ UNCHANGED release

absClose(s) == state' = [state EXCEPT ![s] = CloseNext(@)] /\ UNCHANGED release

(* A timer gives session s up. *)
absTimer(s) == /\ state' = [state EXCEPT ![s] = "CLOSED"]
               /\ release' = Append(release, s)

(* The session lookup takes a released session. *)
absTake == release # <<>> /\ release' = Tail(release) /\ UNCHANGED state

absNext == \/ \E s \in Sessions : absRx(s) \/ absOpen(s) \/ absClose(s) \/ absTimer(s)
           \/ absTake

absSpec == absInit /\ [][absNext]_absVars
=============================================================================
