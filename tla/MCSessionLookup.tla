-------------------------- MODULE MCSessionLookup ---------------------------
(* One peer, bytes 0 and 1: port <<0, 1>> is listened on; <<1, 1>>, or     *)
(* <<1, 0>>, the mirror image of the first, is handed out.                 *)
EXTENDS SessionLookup

OnePeer == {"peer"}
Low == {<<0, 1>>}
Upper == {<<1, 1>>}
Mirror == {<<1, 0>>}
Seg(port, flags) == [peer |-> "peer", port |-> port, flags |-> flags]
Mixed == {Seg(<<0, 1>>, "SYN"), Seg(<<1, 1>>, "SYN_ACK")}
Syns == {Seg(<<0, 1>>, "SYN")}
=============================================================================
