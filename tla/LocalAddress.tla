---------------------------- MODULE LocalAddress ----------------------------
(***************************************************************************)
(* Is the device reachable with the addresses the host has, and if not,    *)
(* which address should it take?  IPv4 addresses are numbers; all those of *)
(* an instance lie within one /8, so that nothing depends on the rest.     *)
(***************************************************************************)
EXTENDS Naturals, Sequences

CONSTANT NoAddress  \* the search has thrown

\* An address of the host.
Address == [ip : Nat, prefix : 8..32]

\* Addresses in a subnet of this prefix length.
SubnetSize(prefix) == 2 ^ (32 - prefix)
networkOf(ip, prefix) == ip - (ip % SubnetSize(prefix))
broadcastOf(ip, prefix) == networkOf(ip, prefix) + SubnetSize(prefix) - 1
sameSubnet(a, b, prefix) == networkOf(a, prefix) = networkOf(b, prefix)

AssumedPrefix == 24

\* Mutant: only the subnet as it is configured counts.
CoversAsConfigured(a, device) == sameSubnet(a.ip, device, a.prefix)
\* A host's address counts when the device is in its subnet, or in its /24.
Covers(a, device) ==
  \/ a.prefix >= AssumedPrefix /\ sameSubnet(a.ip, device, AssumedPrefix)
  \/ sameSubnet(a.ip, device, a.prefix)

Reachable(device, addresses) == \E a \in addresses : Covers(a, device)

\* The suffixes to try: the preferred ones, then all from 2 up.
Preferred == <<254, 250, 200, 150, 100, 50, 20, 10, 2>>
HostSuffixes == [i \in 1..261 |-> IF i \in DOMAIN Preferred THEN Preferred[i] ELSE i - 8]

Used(device, addresses) ==
  {a.ip : a \in addresses} \union
  {device, networkOf(device, AssumedPrefix), broadcastOf(device, AssumedPrefix)}

\* Mutant: a /16 is assumed where suffixes are added.
BaseOfSixteen(device) == networkOf(device, 16)
Base(device) == networkOf(device, AssumedPrefix)

\* The first suffix whose address is not used.
suggestLocalAddress(device, addresses) ==
  LET address(i) == Base(device) + HostSuffixes[i]
      free == {i \in DOMAIN HostSuffixes : address(i) \notin Used(device, addresses)}
  IN IF free = {} THEN NoAddress ELSE address(CHOOSE i \in free : \A j \in free : i <= j)
=============================================================================
