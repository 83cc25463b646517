------------------------------- MODULE Addresses -------------------------------
(***************************************************************************)
(* The address guard of outbound calls (security.rs): which addresses are  *)
(* private, and the two places a plugin asks: before it connects, of the   *)
(* address it resolved, and after, of the address that answered.  Between  *)
(* the two the name may resolve to something else.                         *)
(*                                                                         *)
(* An IPv4 address is four octets, an IPv6 one eight 16-bit segments.      *)
(***************************************************************************)
EXTENDS Integers, Sequences

CONSTANTS
  Known,   \* the addresses a name may resolve to
  Unknown  \* remote_addr() is None

V4 == "v4"
V6 == "v6"
IpV4(octets) == [family |-> V4, octets |-> octets]
IpV6(segments) == [family |-> V6, segments |-> segments]

Octet == 0..255
Segment == 0..65535

ASSUME KnownAreAddresses ==
  Known \subseteq [family : {V4}, octets : [1..4 -> Octet]]
                  \cup [family : {V6}, segments : [1..8 -> Segment]]

----------------------------------------------------------------------------
(* std::net *)

v4_is_loopback(o) == o[1] = 127
v4_is_private(o) == \/ o[1] = 10
                    \/ o[1] = 172 /\ o[2] \in 16..31
                    \/ o[1] = 192 /\ o[2] = 168
v4_is_link_local(o) == o[1] = 169 /\ o[2] = 254
v4_is_multicast(o) == o[1] \in 224..239
v4_is_broadcast(o) == \A i \in 1..4 : o[i] = 255
v4_is_unspecified(o) == \A i \in 1..4 : o[i] = 0
v6_is_loopback(s) == s[8] = 1 /\ \A i \in 1..7 : s[i] = 0
v6_is_unspecified(s) == \A i \in 1..8 : s[i] = 0
v6_is_multicast(s) == s[1] \div 256 = 255

----------------------------------------------------------------------------
(* security.rs.  x & mask is written as the division that drops the bits     *)
(* the mask clears.                                                          *)

is_cgnat(o) == o[1] = 100 /\ o[2] \div 64 = 1          \* & 0xC0 == 64

is_reserved_v4(o) == o[1] = 0 \/ o[1] >= 240
is_unique_local_v6(s) == s[1] \div 512 = 126           \* & 0xFE00 == 0xFC00
is_link_local_v6(s) == s[1] \div 64 = 1018             \* & 0xFFC0 == 0xFE80

v4_is_blocked(o) ==
  \/ v4_is_loopback(o) \/ v4_is_private(o) \/ v4_is_link_local(o)
  \/ v4_is_broadcast(o) \/ v4_is_unspecified(o) \/ v4_is_multicast(o)
  \/ is_cgnat(o) \/ is_reserved_v4(o)

\* The last two segments as four octets.
low(s) == <<s[7] \div 256, s[7] % 256, s[8] \div 256, s[8] % 256>>

ZeroTo(s, n) == \A i \in 1..n : s[i] = 0

\* Mapped, NAT64 and compatible, in the order the code tries them.
embeds_v4(s) ==
  \/ ZeroTo(s, 5) /\ s[6] = 65535
  \/ s[1] = 100 /\ s[2] = 65435 /\ \A i \in 3..6 : s[i] = 0
  \/ ZeroTo(s, 6) /\ ~(s[7] = 0 /\ s[8] <= 1)

is_ipv4_mapped_private(s) == embeds_v4(s) /\ v4_is_blocked(low(s))

is_private_address(a) ==
  IF a.family = V4 THEN v4_is_blocked(a.octets)
  ELSE \/ v6_is_loopback(a.segments) \/ v6_is_unspecified(a.segments)
       \/ v6_is_multicast(a.segments)
       \/ is_unique_local_v6(a.segments) \/ is_link_local_v6(a.segments)
       \/ is_ipv4_mapped_private(a.segments)

validate_resolved_addr(a, allow_private) == allow_private \/ ~is_private_address(a)

\* Faulty variant: what was checked before connecting is trusted.
check_response_remote_addr_trusting(a, allow_private) == TRUE

check_response_remote_addr(a, allow_private) ==
  allow_private \/ a = Unknown \/ ~is_private_address(a)

----------------------------------------------------------------------------
(* An outbound call: resolve and validate, connect (the HTTP client asks the *)
(* resolver again), and check the peer of the response before it is used.    *)

VARIABLES
  allow_private, \* the operator's setting
  dns,           \* what the name resolves to now
  phase,         \* "start", "resolved", "answered", "used", "refused"
  remote         \* the peer of the response, Unknown when the client has none

addressVars == <<allow_private, dns, phase, remote>>

AddressInit ==
  /\ allow_private \in BOOLEAN
  /\ dns \in Known
  /\ phase = "start"
  /\ remote = Unknown

\* The name is pointed elsewhere while a call is under way.
Rebind ==
  /\ phase = "resolved"
  /\ dns' \in Known
  /\ UNCHANGED <<allow_private, phase, remote>>

ResolveName ==
  /\ phase = "start"
  /\ phase' = IF validate_resolved_addr(dns, allow_private) THEN "resolved" ELSE "refused"
  /\ UNCHANGED <<allow_private, dns, remote>>

Answer ==
  /\ phase = "resolved"
  /\ phase' = "answered"
  /\ remote' \in {dns, Unknown}
  /\ UNCHANGED <<allow_private, dns>>

Check ==
  /\ phase = "answered"
  /\ phase' = IF check_response_remote_addr(remote, allow_private) THEN "used" ELSE "refused"
  /\ UNCHANGED <<allow_private, dns, remote>>

AddressNext == Rebind \/ ResolveName \/ Answer \/ Check

AddressSpec == AddressInit /\ [][AddressNext]_addressVars

----------------------------------------------------------------------------
(* Reference: PRIVATE_RANGES_DOC, as intervals of the first 16 bits *)

V4Ranges == {<<2560, 2815>>,    \* 10.0.0.0/8
             <<44048, 44063>>,  \* 172.16.0.0/12
             <<49320, 49320>>,  \* 192.168.0.0/16
             <<32512, 32767>>,  \* 127.0.0.0/8
             <<43518, 43518>>,  \* 169.254.0.0/16
             <<25664, 25727>>,  \* 100.64.0.0/10
             <<0, 255>>,        \* 0.0.0.0/8
             <<57344, 61439>>,  \* multicast, 224.0.0.0/4
             <<61440, 65535>>}  \* 240.0.0.0/4
V6Ranges == {<<65152, 65215>>,  \* fe80::/10
             <<64512, 65023>>,  \* fc00::/7
             <<65280, 65535>>}  \* multicast, ff00::/8
In(x, ranges) == \E r \in ranges : r[1] <= x /\ x <= r[2]

Prefixes96 == {<<0, 0, 0, 0, 0, 65535>>,     \* ::ffff:
               <<100, 65435, 0, 0, 0, 0>>,   \* 64:ff9b::
               <<0, 0, 0, 0, 0, 0>>}         \* ::<v4>; also :: and ::1

Documented(a) ==
  IF a.family = V4 THEN In(a.octets[1] * 256 + a.octets[2], V4Ranges)
  ELSE \/ In(a.segments[1], V6Ranges)
       \/ SubSeq(a.segments, 1, 6) \in Prefixes96 /\ In(a.segments[7], V4Ranges)

----------------------------------------------------------------------------
(* Properties *)

\* A resolved address is refused exactly when it is in a range the error
\* message lists, at both ends of every range and inside every embedding.
BlocksWhatIsDocumented ==
  [][ResolveName => (phase' = "refused" <=> ~allow_private /\ Documented(dns))]_addressVars

\* A response from a listed address is never used unless the operator allows
\* it, though the name was pointed there after its address was validated.
RebindingIsCaught ==
  [][phase' = "used" /\ remote' # Unknown /\ ~allow_private => ~Documented(remote')]_addressVars

\* A call to a name that keeps a public address is not refused, also when the
\* client cannot say who answered.
PublicIsServed ==
  [][Check /\ phase' = "refused" => remote # Unknown /\ Documented(remote)]_addressVars

\* The two guards together keep a call off the documented ranges though its
\* name changes its address in between, and refuse nothing else.
AddressesAreGuarded == RebindingIsCaught /\ BlocksWhatIsDocumented /\ PublicIsServed

=============================================================================
