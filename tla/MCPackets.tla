----------------------------- MODULE MCPackets -----------------------------
(***************************************************************************)
(* Packets for TLC, put together from headers: each header is its length   *)
(* and its fields at their offsets, and Over places one behind the other.  *)
(***************************************************************************)
EXTENDS Packets

Header(len, code, num, size) ==
  [len |-> len, code |-> code, num |-> num, size |-> size]

Moved(f, n) == [o \in {x + n : x \in DOMAIN f} |-> f[o - n]]

Over(a, b) ==
  [len |-> a.len + b.len,
   code |-> a.code @@ Moved(b.code, a.len),
   num |-> a.num @@ Moved(b.num, a.len),
   size |-> a.size @@ Moved(b.size, a.len)]

Cut(pkt, len) == [pkt EXCEPT !.len = len]
Data(n) == Header(n, <<>>, <<>>, <<>>)

Eth(s, d, type) == Header(14, (0 :> d) @@ (6 :> s) @@ (12 :> type), <<>>, <<>>)
Vlan(s, d, type) == Header(18, (0 :> d) @@ (6 :> s) @@ (12 :> "VLAN") @@ (16 :> type), <<>>, <<>>)
Llc(dsap) == Header(3, (0 :> dsap) @@ (1 :> dsap) @@ (2 :> "information"), <<>>, <<>>)
Snap(type) == Header(8, (0 :> "LLC-SNAP") @@ (1 :> "LLC-SNAP") @@ (6 :> type), <<>>, <<>>)
Ip(s, d, proto, len, frag) ==
  Header(len, (0 :> "version 4") @@ (9 :> proto) @@ (12 :> s) @@ (16 :> d), 6 :> frag, 0 :> len)
Ip6(s, d, proto) == Header(40, (0 :> "version 6") @@ (6 :> proto) @@ (8 :> s) @@ (24 :> d), <<>>, <<>>)
Tcp(sp, dp) == Header(20, <<>>, (0 :> sp) @@ (2 :> dp), 12 :> 5)
Udp(sp, dp) == Header(8, <<>>, (0 :> sp) @@ (2 :> dp), <<>>)
Call(prog) == Header(24, (4 :> "CALL") @@ (8 :> "version 2") @@ (12 :> prog), <<>>, <<>>)
Reply == Header(24, 4 :> "REPLY", <<>>, <<>>)
Passive(port) == Header(30, 0 :> "227", (3 :> port \div 256) @@ (4 :> port % 256), <<>>)
Arp(s) == Header(28, (2 :> "IP") @@ (14 :> s), <<>>, 4 :> 6)
Ipx == Header(30, (0 :> "ffff") @@ (5 :> "PEP") @@ (16 :> "IPX-NCP") @@ (28 :> "IPX-SAP"), <<>>, <<>>)
Sap == Header(60, (0 :> "response") @@ (4 :> "SERVER"), <<>>, <<>>)
Nbss == Header(76, (0 :> "session request") @@ (4 :> "CALLED") @@ (38 :> "CALLING"), <<>>, 4 :> 8261)
Nbdgm == Header(82, (0 :> "direct") @@ (14 :> "FROM") @@ (48 :> "TO"), <<>>, <<>>)
Wlan(type, subtype, bits, s, d) ==
  LET at == WlanAddresses[bits]
  IN  Header(IF bits = 3 THEN 30 ELSE 24, (0 :> type) @@ (at.dst :> d) @@ (at.src :> s),
             (0 :> subtype) @@ (1 :> bits), <<>>)
Cts(d) == Header(10, (0 :> "control") @@ (4 :> d), (0 :> 12) @@ (1 :> 0), <<>>)
Ppi(dlt) == Header(32, 4 :> dlt, <<>>, 2 :> 32)
Radiotap == Header(32, <<>>, <<>>, 2 :> 32)
Sll(type) == Header(16, 14 :> type, <<>>, <<>>)
Fddi(s, d) == Header(21, (1 :> d) @@ (7 :> s) @@ (19 :> "IP"), <<>>, <<>>)
TokenRing(s, d) == Header(22, (2 :> d) @@ (8 :> s) @@ (20 :> "IP"), <<>>, <<>>)
Null == Data(4)

-----------------------------------------------------------------------------
(* Two hosts, S and C *)

StoC(proto) == Ip("ipS", "ipC", proto, 20, 0)
CtoS(proto) == Ip("ipC", "ipS", proto, 20, 0)
Web == Over(CtoS("TCP"), Tcp(5000, 80))
FromC(type) == Eth("macC", "macS", type)
FromS(type) == Eth("macS", "macC", type)

\* FTP in passive mode, with the server's announcement, a transfer both ways,
\* and another server on the client's host.
FtpFrames == {
  Over(FromS("IP"), Over(StoC("TCP"), Over(Tcp(21, 5000), Passive(1024)))),
  Over(FromS("IP"), Over(StoC("TCP"), Over(Tcp(1024, 5001), Data(30)))),
  Over(FromC("IP"), Over(CtoS("TCP"), Over(Tcp(5001, 1024), Data(30)))),
  Over(FromC("IP"), Over(CtoS("TCP"), Over(Tcp(21, 5000), Passive(1025))))}

RpcFrames == {
  Over(FromC("IP"), Over(CtoS("UDP"), Over(Udp(900, 2049), Call("NFS")))),
  Over(FromC("IP"), Over(CtoS("UDP"), Over(Udp(901, 2050), Call("MOUNT")))),
  Over(FromS("IP"), Over(StoC("UDP"), Over(Udp(2050, 901), Reply)))}

PlainFrames == {Over(FromC("IP"), Over(Web, Data(10))), Over(FromC("ARP"), Arp("ipC"))}

TalkFrames == "EN10MB" :> (FtpFrames \cup RpcFrames \cup {Over(FromC("IP"), Over(Web, Data(10)))})

VlanFrames == "EN10MB" :> {Over(Vlan("macC", "macS", "IP"), Web)}

\* Every link type, every way a header can follow another, packets cut short.
AllFrames ==
  [EN10MB |-> PlainFrames \cup {
     Cut(Over(FromC("IP"), Web), 16),
     Cut(Over(FromC("IP"), Ip("ipC", "ipS", "TCP", 24, 0)), 35),
     Cut(Over(FromC("IP"), Web), 36),
     Over(FromC("IP"), Over(CtoS("IPV6"), Over(Ip6("ip6C", "ip6S", "ICMP"), Data(20)))),
     Over(FromC("IP"), Over(Ip("ipC", "ipS", "TCP", 24, 0), Over(Tcp(5000, 80), Data(20)))),
     Over(FromC("IP"), Ip("ipC", "ipS", "UDP", 20, 185)),
     Over(FromC("IPV6"), Over(Ip6("ip6C", "ip6S", "TCP"), Over(Tcp(5000, 9000), Data(20)))),
     Over(FromC("IP"), Over(CtoS("ICMP"), Data(8))),
     Over(FromC("IP"), Over(CtoS("TCP"), Over(Tcp(5000, 139), Nbss))),
     Over(FromC("IP"), Over(CtoS("UDP"), Over(Udp(137, 137), Nbdgm))),
     Over(Eth("macC", "ISL", "length"), Data(40)),
     Over(FromC("length"), Over(Llc("IP"), Web)),
     Over(FromC("length"), Over(Snap("IP"), Web)),
     Over(FromC("length"), Over(Llc("NETWARE"), Over(Ipx, Sap))),
     Over(FromC("length"), Over(Llc("BPDU"), Data(30))),
     Over(FromC("length"), Over(Header(2, 0 :> "ffff", <<>>, <<>>), Data(30))),
     Over(Vlan("macC", "macS", "IP"), Over(CtoS("UDP"), Over(Udp(900, 2049), Call("NFS"))))},
   RAW |-> {Web}, SLL |-> {Over(Sll("IP"), Web), Over(Sll("ARP"), Arp("ipC"))},
   NULL |-> {Over(Null, Web)}, LOOP |-> {Over(Null, Web)},
   FDDI |-> {Over(Fddi("macC", "macS"), Web)}, IEEE802 |-> {Over(TokenRing("macC", "macS"), Web)},
   WLAN |-> {Cts("macS"), Wlan("management", 8, 0, "macC", "macS"),
             Over(Wlan("data", 0, 1, "macC", "macS"), Over(Snap("IP"), Web)),
             Over(Wlan("data", 0, 3, "macC", "macS"), Over(Snap("IP"), Web))},
   RADIOTAP |-> {Over(Radiotap, Wlan("management", 8, 2, "macC", "macS"))},
   PPI |-> {Over(Ppi("EN10MB"), Over(FromC("IP"), Web)), Over(Ppi("RAW"), Web), Over(Ppi("OTHER"), Data(40)),
            Over(Ppi("WLAN"), Over(Wlan("data", 0, 0, "macC", "macS"), Over(Snap("IP"), Web)))}]

MCTcpServices == (80 :> [name |-> "WWW", preferred |-> FALSE])
MCUdpServices == (2049 :> [name |-> "NFS", preferred |-> TRUE])
=============================================================================
