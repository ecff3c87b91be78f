------------------------------ MODULE MCIpEdge ------------------------------
(* A host in network 1 with two neighbours, its gateway one of them, and a *)
(* host elsewhere. Lengths are in units of 16 bits; a frame of 30 is the   *)
(* shortest, one of 32 fills a word, and 33 .. 39 do so again after the    *)
(* Ethernet header has gone.                                               *)
EXTENDS IpEdge

MyIp == <<1, 1>>
GatewayIp == <<1, 2>>
Alice == <<1, 3>>
Far == <<2, 4>>
Everyone == <<255, 255>>

Data(type, proto, src, dst, len) ==
    [type |-> type, proto |-> proto, src |-> src, dst |-> dst, len |-> len, hl |-> 5,
     ok |-> TRUE, icmpOk |-> TRUE, echo |-> FALSE]
Damaged(f) == [f EXCEPT !.ok = FALSE]
DamagedMessage(f) == [f EXCEPT !.icmpOk = FALSE]
Ping(src, len) == [Data("IPv4", "ICMP", src, MyIp, len) EXCEPT !.echo = TRUE]
Arp(op, src, dst) == Data("ARP", op, src, dst, 14)
Tcp(src, dst, len) == Data("IPv4", "TCP", src, dst, len)
Udp(src, dst, len) == Data("IPv4", "UDP", src, dst, len)
WithOptions(f) == [f EXCEPT !.hl = 7]

Job(frames, packets, errors, asks) ==
    [frames |-> frames, packets |-> packets, errors |-> errors, asks |-> asks]

SmallJobs ==
    {Job(<<Damaged(Tcp(Alice, MyIp, 40)), Udp(Far, MyIp, 15), Tcp(Alice, MyIp, 32)>>,
         <<>>, <<>>, <<>>),
     Job(<<Udp(Alice, Far, 20), WithOptions(Udp(Alice, Everyone, 26)),
           Data("IPv4", "IGMP", Alice, MyIp, 20), Tcp(Alice, MyIp, 20)>>, <<>>, <<>>, <<>>),
     Job(<<Data("IPv6", "UDP", Alice, MyIp, 40), Data("LLDP", "LLDP", Alice, MyIp, 40),
           Data("IPv6", "ICMPv6", Alice, MyIp, 36), Data("IPv6", "TCP", Alice, MyIp, 30),
           Udp(Alice, MyIp, 26)>>, <<>>, <<>>, <<>>),
     Job(<<Arp("REPLY", Alice, MyIp), Arp("REQUEST", Far, MyIp), Arp("REQUEST", Alice, Far)>>,
         <<Tcp(MyIp, Alice, 27), Udp(MyIp, Alice, 20)>>, <<>>, <<Alice>>),
     Job(<<Arp("REPLY", GatewayIp, MyIp)>>, <<Tcp(MyIp, Far, 33), Udp(MyIp, Alice, 26)>>,
         <<>>, <<>>),
     Job(<<Arp("REPLY", Alice, MyIp), Ping(Alice, 15)>>, <<>>, <<>>, <<>>),
     Job(<<DamagedMessage(Ping(Alice, 16)), Arp("REPLY", Alice, MyIp), Ping(Alice, 14)>>,
         <<>>, <<>>, <<>>),
     Job(<<Ping(Far, 14), Data("IPv4", "ICMP", Far, MyIp, 16), Arp("REPLY", GatewayIp, MyIp)>>,
         <<>>, <<>>, <<>>),
     Job(<<Arp("REPLY", Alice, MyIp)>>, <<>>, <<Data("udpIn", "UDP", Alice, MyIp, 16)>>, <<>>),
     Job(<<Arp("REPLY", GatewayIp, MyIp), Ping(Far, 14)>>, <<Tcp(MyIp, Alice, 40)>>, <<>>, <<>>),
     Job(<<Ping(Alice, 14), Arp("REPLY", Alice, MyIp)>>, <<>>,
         <<Data("ttlIn", "TCP", Alice, MyIp, 14)>>, <<>>)}
=============================================================================
