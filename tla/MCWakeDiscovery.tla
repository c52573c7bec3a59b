---------------------------- MODULE MCWakeDiscovery ----------------------------
(* Instances of WakeDiscovery. *)
EXTENDS WakeDiscovery

Opt(protocol, method, uid, max) ==
    [protocol |-> protocol, method |-> method, uid |-> uid, max |-> max,
     addrs |-> <<"a1">>, port |-> "8000"]

MCOptions ==
    {Opt("TcpUdp", "Relay", TRUE, 2), Opt("Udp", "Cellular", TRUE, 1),
     Opt("Tcp", "Relay", TRUE, 1), Opt("TcpUdp", "Local", FALSE, 1),
     Opt("Udp", "None", TRUE, 1)}
MCStartsWith == {<<"uid1-long", "uid1">>}
================================================================================
