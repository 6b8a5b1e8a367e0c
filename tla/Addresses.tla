------------------------------ MODULE Addresses ------------------------------
(***************************************************************************)
(* Addresses and names: how net/util.py tells them apart, how net/dns.py   *)
(* resolves a name into addresses and writes an address as a name of the   *)
(* reverse DNS.  What the DNS says is a parameter, `heard'.                *)
(***************************************************************************)
EXTENDS Integers, Sequences, FiniteSets, SequencesExt

CONSTANTS
  V4, V6,       \* IPv4 addresses and native IPv6 addresses
  Mapped,       \* IPv6 addresses ::ffff:a.b.c.d
  Names,        \* host names
  Nothing       \* Python's None

AddressAssumption ==
  /\ V4 \cap (V6 \cup Mapped) = {} /\ V6 \cap Mapped = {}
  /\ Names \cap (V4 \cup V6 \cup Mapped) = {}
ASSUME AddressAssumption

Literals == V4 \cup V6 \cup Mapped
Hosts == Literals \cup Names

\* None is no address and no list of them.
NoneAssumption == Nothing \notin Hosts \cup Seq(Literals)
ASSUME NoneAssumption

\* How a function ends: with a value, or with an exception.
Value(v) == [raises |-> "", value |-> v]
Raise(e) == [raises |-> e, value |-> Nothing]
Ok(r) == r.raises = ""

ip_is_v4(ip) == ip \in V4
ip_is_v6(ip) == ip \in V6 \cup Mapped

\* A version is "v4" or "v6", whatever alias it was written as, or else no demand.
ip_ver_to_int(ver) == IF ver = "v4" THEN 4 ELSE IF ver = "v6" THEN 6 ELSE 0
sock_ver(version) == IF ip_ver_to_int(version) = 0 THEN "any" ELSE version

sock_validate_ip(addr, version) ==
  IF addr \notin Literals THEN Raise("ValueError")
  ELSE IF version = "v4" /\ ~ip_is_v4(addr) THEN Raise("AttributeError")
  ELSE IF version = "v6" /\ ip_is_v4(addr) THEN Raise("AttributeError")
  ELSE Value(addr)

\* The address, nothing for a name, or the exception of the wrong version.
is_ip(addr, version) ==
  LET r == sock_validate_ip(addr, version)
  IN  IF r.raises = "ValueError" THEN Value(Nothing) ELSE r

(***************************************************************************)
(* Resolving.  heard is what getaddrinfo answers: a sequence of addresses, *)
(* or "fault", any exception.                                              *)
(***************************************************************************)
Fault == <<"fault">>

Family(version) ==
  IF version = "v4" THEN V4 ELSE IF version = "v6" THEN V6 \cup Mapped ELSE V4 \cup V6

\* The items of a list at some places, in their order.
Kth(places, k) == CHOOSE i \in places : Cardinality({j \in places : j <= i}) = k
Kept(list, places) == [k \in 1..Cardinality(places) |-> list[Kth(places, k)]]

resolve_ips(addr, version, v4_convert, heard) ==
  LET ip == is_ip(addr, sock_ver(version))
  IN  IF ~Ok(ip) THEN ip
      ELSE IF ip.value # Nothing THEN Value(<<addr>>)
      ELSE IF heard = Fault THEN Value(<<>>)
      ELSE Value(Kept(heard, {i \in DOMAIN heard : v4_convert \/ heard[i] \notin Mapped}))

\* The same, awaiting the event loop's getaddrinfo.
resolve_ips_async(addr, version, v4_convert, heard) ==
  resolve_ips(addr, version, v4_convert, heard)

First(ips) ==
  IF ~Ok(ips) THEN ips ELSE Value(IF ips.value = <<>> THEN Nothing ELSE ips.value[1])

resolve_ip(addr, version, v4_convert, heard) ==
  First(resolve_ips(addr, version, v4_convert, heard))

resolve_ip_async(addr, version, v4_convert, heard) ==
  First(resolve_ips_async(addr, version, v4_convert, heard))

(***************************************************************************)
(* Names of the reverse DNS.  An address is the sequence of its octets or  *)
(* of its nibbles; a domain is the sequence of its labels.                 *)
(***************************************************************************)
_check_boundaries(v4_boundary, v6_boundary) ==
  /\ v6_boundary \in 4..128 /\ v6_boundary % 4 = 0
  /\ v4_boundary \in 8..32 /\ v4_boundary % 8 = 0

ip4_to_rdns(octets, v4_boundary, boundary) ==
  Reverse(IF boundary THEN SubSeq(octets, 1, v4_boundary \div 8) ELSE octets) \o <<"in-addr.arpa">>

ip6_to_rdns(nibbles, v6_boundary, boundary) ==
  Reverse(IF boundary THEN SubSeq(nibbles, 1, v6_boundary \div 4) ELSE nibbles) \o <<"ip6.arpa">>

\* An octet or a nibble stands for itself: its place in the address.
Parts(ip) == [i \in 1..(IF ip_is_v4(ip) THEN 4 ELSE 32) |-> i]

ip_to_rdns(ip, boundary, v6_boundary, v4_boundary) ==
  IF boundary /\ ~_check_boundaries(v4_boundary, v6_boundary) THEN Raise("BoundaryException")
  ELSE IF ip \notin Literals THEN Raise("ValueError")
  ELSE IF ip_is_v6(ip) THEN Value(ip6_to_rdns(Parts(ip), v6_boundary, boundary))
  ELSE Value(ip4_to_rdns(Parts(ip), v4_boundary, boundary))
=============================================================================
