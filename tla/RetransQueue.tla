---------------------------- MODULE RetransQueue ----------------------------
(***************************************************************************)
(* What the retransmitter promises to the rest of the transport: a list of *)
(* unanswered requests per queue pair, and one operation at a time.        *)
(* Answers go first, then NAKs, timeouts and new requests.  A NAK of a PSN *)
(* that is not in a list ends it: the retransmitter answers no more.       *)
(***************************************************************************)
EXTENDS RetransList, FiniteSets

CONSTANTS Qps,        \* queue pairs
          TableSize   \* META_TABLE_SIZE: requests that can be stored

VARIABLES script,    \* operations that are still to come, by kind
          in,        \* input FIFOs, by kind
          list,      \* list[q]: the unanswered requests of q
          pending,   \* requests that are to be sent again
          events,    \* requests sent again
          init,      \* local addresses told to rx_exh_fsm
          lost       \* a NAK was not found

absVars == <<script, in, list, pending, events, init, lost>>

Kinds == {"upd", "nak", "timeout", "insert"}
Stored == Cardinality(UNION {{q} \X DOMAIN list[q] : q \in Qps})

Init ==
    /\ in = [k \in Kinds |-> <<>>]
    /\ list = [q \in Qps |-> <<>>]
    /\ pending = <<>> /\ events = <<>> /\ init = <<>> /\ lost = FALSE

(* An operation arrives.                                                   *)
Arrive ==
    \E k \in Kinds :
        /\ script[k] # <<>>
        /\ in' = [in EXCEPT ![k] = Append(@, Head(script[k]))]
        /\ script' = [script EXCEPT ![k] = Tail(@)]
        /\ UNCHANGED <<list, pending, events, init, lost>>

(* The operation taken next is the first one of kind k.                    *)
Takes(k, others) ==
    /\ ~lost /\ pending = <<>>
    /\ in[k] # <<>> /\ \A o \in others : in[o] = <<>>
    /\ in' = [in EXCEPT ![k] = Tail(@)]
    /\ UNCHANGED script

Update ==
    /\ Takes("upd", {})
    /\ LET u == Head(in["upd"])
       IN /\ list' = [list EXCEPT ![u.qpn] = Answered(@, u.op)]
          /\ init' = IF list[u.qpn] # <<>> /\ u.op \in ForwardsAddress
                     THEN Append(init, Head(list[u.qpn]).laddr) ELSE init
    /\ UNCHANGED <<pending, events, lost>>

Nak ==
    /\ Takes("nak", {"upd"})
    /\ LET r == Head(in["nak"])
       IN /\ pending' = SuffixFrom(list[r.qpn], r.psn)
          /\ lost' = (list[r.qpn] # <<>> /\ IndexOf(list[r.qpn], r.psn) = 0)
    /\ UNCHANGED <<list, events, init>>

Timeout ==
    /\ Takes("timeout", {"upd", "nak"})
    /\ pending' = list[Head(in["timeout"]).qpn]
    /\ UNCHANGED <<list, events, init, lost>>

Insert ==
    /\ Takes("insert", {"upd", "nak", "timeout"})
    /\ Stored < TableSize
    /\ LET r == Head(in["insert"])
       IN list' = [list EXCEPT ![r.qpn] = Append(@, r.entry)]
    /\ UNCHANGED <<pending, events, init, lost>>

Retransmit ==
    /\ pending # <<>>
    /\ events' = Append(events, Head(pending))
    /\ pending' = Tail(pending)
    /\ UNCHANGED <<script, in, list, init, lost>>

AbsNext == Arrive \/ Update \/ Nak \/ Timeout \/ Insert \/ Retransmit

AbsSpec == Init /\ [][AbsNext]_absVars
=============================================================================
