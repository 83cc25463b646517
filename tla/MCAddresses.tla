------------------------------ MODULE MCAddresses ------------------------------
(* Every range's two ends and the addresses next to them, as IPv4 and in each *)
(* embedding; the ends of the IPv6 ranges; and IPv6 addresses one bit off an  *)
(* embedding.                                                                 *)
EXTENDS Addresses

Ends(ranges) == {x \in UNION {{r[1] - 1, r[1], r[2], r[2] + 1} : r \in ranges} : x \in 0..65535}
High == Ends(V4Ranges)
V4Known == {IpV4(<<h \div 256, h % 256, 0, 1>>) : h \in High}
Embedded == {IpV6(p \o <<h, 1>>) : p \in Prefixes96, h \in High}
Plain == {IpV6(<<h, 0, 0, 0, 0, 0, 0, 1>>) : h \in Ends(V6Ranges)}
NearMisses == {IpV6(p \o <<32512, 1>>) :
                 p \in {<<0, 0, 0, 0, 1, 65535>>, <<0, 0, 0, 0, 0, 65534>>, <<100, 65435, 0, 0, 0, 1>>}}
Tiny == {IpV6(<<0, 0, 0, 0, 0, 0, 0, n>>) : n \in 0..2}
Sampled == V4Known \cup Embedded \cup Plain \cup NearMisses \cup Tiny
=============================================================================
