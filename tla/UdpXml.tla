------------------------------ MODULE UdpXml -------------------------------
(***************************************************************************)
(* The XML of BcUdp discovery: the P2P messages between client, device,    *)
(* middle man and register (src/baichuan/bcudp/xml.rs), as element types   *)
(* of BcXml.  Nearly every field is required: a datagram that leaves one   *)
(* out is no message at all and is dropped.                                *)
(***************************************************************************)
EXTENDS BcXml

C2dS == [mustInner |-> {"to"}]

PortList == [mustNumber |-> {"port"}]

C2dC ==
    [mustText |-> {"uid", "p"},
     mustInner |-> {"cli"},
     mustNumber |-> {"cid", "mtu", "debug"},
     skipNumber |-> {"lver"}]

ClientList == [mustNumber |-> {"port"}]

D2cCr ==
    [mustInner |-> {"timer"},
     mustNumber |-> {"rsp", "cid", "did"},
     optText |-> {"pl"},
     optNumber |-> {"nc"}]

Timer == [mustNumber |-> {"def", "hb", "hbt"}]

C2dDisc == [mustNumber |-> {"cid", "did"}]

D2cDisc == [mustNumber |-> {"cid", "did"}]

R2cDisc == [mustNumber |-> {"sid"}]

D2cT == [mustNumber |-> {"sid", "cid", "did"}, mustText |-> {"conn"}]

C2dT == [mustNumber |-> {"sid", "cid", "mtu"}, mustText |-> {"conn"}]

C2mQ == [mustText |-> {"uid", "p"}]

D2mQ == [mustText |-> {"uid"}, optNumber |-> {"r"}]

M2dQr ==
    [mustInner |-> {"reg", "log"},
     inner |-> {"timer", "retry"},
     mustNumber |-> {"rsp", "token", "ac"}]

D2rR == [mustText |-> {"uid"}, mustNumber |-> {"token"}, optNumber |-> {"r"}]

R2dRr == [mustNumber |-> {"rsp", "ac"}]

M2cQr == [optInner |-> {"reg", "relay", "log", "t"}]

IpPort == [mustText |-> {"ip"}, mustNumber |-> {"port"}]

C2rC ==
    [mustText |-> {"uid", "p"},
     mustInner |-> {"cli", "relay"},
     mustNumber |-> {"cid", "debug", "family"},
     optNumber |-> {"r"}]

R2cT == [optInner |-> {"dmap", "dev"}, mustNumber |-> {"cid", "sid"}]

R2cCr ==
    [optInner |-> {"dev", "dmap", "relay", "relayt"},
     mustText |-> {"nat"},
     optNumber |-> {"sid"},
     mustNumber |-> {"rsp", "ac"}]

D2cCfm ==
    [mustNumber |-> {"sid", "rsp", "cid", "did"},
     mustText |-> {"conn"},
     bareNumber |-> {"time_r"}]

C2rCfm == [mustNumber |-> {"sid", "rsp", "cid", "did"}, mustText |-> {"conn"}]

C2dA == [mustNumber |-> {"sid", "cid", "did", "mtu"}, mustText |-> {"conn"}]

C2dHb == [mustNumber |-> {"cid", "did"}]

C2rHb == [mustNumber |-> {"sid", "cid", "did"}]

D2cHb == [mustNumber |-> {"cid", "did"}]

D2rHb ==
    [mustText |-> {"uid"},
     optInner |-> {"dev"},
     optNumber |-> {"needrsp"},
     mustNumber |-> {"token"}]

HbTimer == [mustNumber |-> {"hb"}]

R2dHbr == [mustNumber |-> {"rsp", "time_t"}, mustInner |-> {"timer"}]

R2dC == [mustInner |-> {"cli", "cmap", "relay"}, mustNumber |-> {"sid", "cid"}]

D2rCr == [mustNumber |-> {"sid", "rsp"}, optInner |-> {"dev"}]

D2rDisc == [mustNumber |-> {"sid"}]

R2dDcr == [mustNumber |-> {"sid", "rsp"}]

UdpElements ==
    [C2dS |-> C2dS, PortList |-> PortList, C2dC |-> C2dC, ClientList |-> ClientList, D2cCr
     |-> D2cCr, Timer |-> Timer, C2dDisc |-> C2dDisc, D2cDisc |-> D2cDisc, R2cDisc |->
     R2cDisc, D2cT |-> D2cT, C2dT |-> C2dT, C2mQ |-> C2mQ, D2mQ |-> D2mQ, M2dQr |-> M2dQr,
     D2rR |-> D2rR, R2dRr |-> R2dRr, M2cQr |-> M2cQr, IpPort |-> IpPort, C2rC |-> C2rC, R2cT
     |-> R2cT, R2cCr |-> R2cCr, D2cCfm |-> D2cCfm, C2rCfm |-> C2rCfm, C2dA |-> C2dA, C2dHb
     |-> C2dHb, C2rHb |-> C2rHb, D2cHb |-> D2cHb, D2rHb |-> D2rHb, HbTimer |-> HbTimer,
     R2dHbr |-> R2dHbr, R2dC |-> R2dC, D2rCr |-> D2rCr, D2rDisc |-> D2rDisc, R2dDcr |->
     R2dDcr]

=============================================================================
