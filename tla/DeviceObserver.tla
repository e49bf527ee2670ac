--------------------------- MODULE DeviceObserver ---------------------------
(***************************************************************************)
(* DeviceObserver, from decoded observations to events, and the engine     *)
(* behind it: the candidate it keeps, the evaluation of that candidate's   *)
(* address, and the address it pings.                                      *)
(***************************************************************************)
EXTENDS LocalAddress, SequencesExt

CONSTANTS
  Mac, HostMacs,  \* the machines' MACs, and that of the selected adapter, if any
  Ip,             \* addresses that observations carry
  Unroutable,     \* those that are multicast, loopback or unspecified
  Zero,           \* 0.0.0.0
  Hostname,
  ArpKinds,       \* kinds of ARP messages that are seen
  Adapter,        \* the host's network adapters
  Selected,       \* the one that is listened on
  Hosts,          \* the addresses that each adapter may have
  MaxObservations,\* bound: observations
  None            \* no address, no name, no candidate

ASSUME IpAssumption == Ip \subseteq Nat /\ Unroutable \subseteq Ip /\ Zero \in Unroutable
ASSUME MacAssumption == HostMacs \subseteq Mac
ASSUME ArpAssumption == ArpKinds \subseteq {"gratuitous-arp", "arp-reply", "arp-request"}
ASSUME AdapterAssumption == Selected \in Adapter
ASSUME HostsAssumption == Hosts \subseteq [Adapter -> SUBSET Address]
ASSUME BoundAssumption == MaxObservations \in Nat

Confidence ==
  [s \in {"gratuitous-arp", "arp-reply", "arp-request", "ipv4-source", "dhcp", "mdns"} |->
     CASE s = "gratuitous-arp" -> 100 [] s = "arp-reply" -> 90 [] s = "arp-request" -> 70
       [] s = "ipv4-source" -> 50 [] s = "dhcp" -> 40 [] s = "mdns" -> 30]
Source == DOMAIN Confidence

\* A device that the engine may work with.
Candidate == [mac : Mac, ip : Ip, source : Source, hostname : Hostname \union {None}]

ASSUME NoneAssumption ==
  /\ None \notin Ip \union Hostname \union Nat \union Candidate
  /\ NoAddress \notin Nat

\* Mutant: the weakest source counts.
weakestDiscoverySource(sources) ==
  CHOOSE s \in sources : \A t \in sources : Confidence[t] >= Confidence[s]
bestDiscoverySource(sources) ==
  CHOOSE s \in sources : \A t \in sources : Confidence[t] <= Confidence[s]

VARIABLES
  hostIps,   \* #hostIps: what the selected adapter had when it was selected
  macs,      \* #macs: hostnames, in the order they came, of MACs with an address
  evidence,  \* #macs: the sources for each pair, none for an unknown one
  pending,   \* #hostnameByMac
  told,      \* the source that subscribers were last told for each pair
  best,      \* the engine's #bestCandidate
  evaluated, \* the device address that the engine has evaluated
  enumerated,\* against these addresses of the host
  local,     \* the address it has configured for it, if any
  pinged,    \* the address that it pings
  count      \* observations so far

observed == <<hostIps, macs, evidence, pending, told, count>>
vars == <<observed, best, evaluated, enumerated, local, pinged>>

\* The MACs in #macs.
Known == {m \in Mac : \E i \in Ip : evidence[m][i] # {}}

\* The engine tells the observer of the selected adapter only, as it was at
\* its selection.
SelectedIps(host) == {a.ip : a \in host[Selected]}

Init ==
  /\ \E host \in Hosts : hostIps = SelectedIps(host)
  /\ macs = [m \in Mac |-> <<>>]
  /\ evidence = [m \in Mac |-> [i \in Ip |-> {}]]
  /\ pending = [m \in Mac |-> None]
  /\ told = [m \in Mac |-> [i \in Ip |-> None]]
  /\ best = None /\ evaluated = None /\ enumerated = {} /\ local = None /\ pinged = None
  /\ count = 0

-----------------------------------------------------------------------------
\* The engine's listener: the first device found is the candidate; updates of
\* its MAC replace it, whatever their address.
OnFound(candidate) ==
  best' = IF best = None THEN candidate ELSE best
\* Mutant: updates are ignored.
OnUpdatedIgnored(candidate) == UNCHANGED best
OnUpdated(candidate) ==
  best' = IF best # None /\ candidate.mac = best.mac THEN candidate ELSE best

\* A set that keeps the order of insertion.
Add(name, names) == IF name \in ToSet(names) THEN names ELSE Append(names, name)

\* What is noted of a MAC's hostname: with an address or before it.
Noted(m, name) == IF name = None THEN pending ELSE [pending EXCEPT ![m] = name]
Named(m, name) ==
  IF name = None \/ m \notin Known THEN macs ELSE [macs EXCEPT ![m] = Add(name, @)]

\* Mutant: a name that came before the address is forgotten.
NamesAtFirstNone(m, names, noted) == names
\* recordIp() takes the name noted for a MAC that it sees for the first time.
NamesAtFirst(m, names, noted) ==
  IF m \in Known \/ noted[m] = None THEN names ELSE [names EXCEPT ![m] = <<noted[m]>>]

WorthTelling(m, i, s) == s \notin evidence[m][i]

\* recordIp() after the hostname has been noted.
RecordIp(m, i, s, name) ==
  LET sources == evidence[m][i] \union {s}
      names == NamesAtFirst(m, Named(m, name), Noted(m, name))
      candidate == [mac |-> m, ip |-> i, source |-> bestDiscoverySource(sources),
                    hostname |-> IF names[m] = <<>> THEN None ELSE Head(names[m])]
  IN /\ macs' = names
     /\ pending' = Noted(m, name)
     /\ evidence' = [evidence EXCEPT ![m][i] = sources]
     /\ CASE evidence[m][i] = {} ->
               OnFound(candidate) /\ told' = [told EXCEPT ![m][i] = candidate.source]
          [] evidence[m][i] # {} /\ WorthTelling(m, i, s) ->
               OnUpdated(candidate) /\ told' = [told EXCEPT ![m][i] = candidate.source]
          [] OTHER -> UNCHANGED <<told, best>>

\* A hostname without an address that counts.
NoteName(m, name) ==
  /\ pending' = Noted(m, name)
  /\ macs' = Named(m, name)
  /\ UNCHANGED <<evidence, told, best>>

\* What every kind of observation has in common.
Observe(m) ==
  /\ m \notin HostMacs
  /\ count < MaxObservations
  /\ count' = count + 1
  /\ UNCHANGED <<hostIps, evaluated, enumerated, local, pinged>>

ObserveArp(m, i, s) ==
  /\ Observe(m)
  /\ i # Zero
  /\ RecordIp(m, i, s, None)

Accepts(i) == i \notin hostIps \union Unroutable

ObserveIpv4(m, i) ==
  /\ Observe(m)
  /\ Accepts(i)
  /\ RecordIp(m, i, "ipv4-source", None)

\* A DHCP message with a hostname or an address, or both.
ObserveDhcp(m, i, name) ==
  /\ Observe(m)
  /\ IF i = None \/ i \in Unroutable
     THEN NoteName(m, name)
     ELSE RecordIp(m, i, "dhcp", name)

ObserveMdns(m, i, name) ==
  /\ Observe(m)
  /\ IF i = None \/ ~Accepts(i)
     THEN NoteName(m, name)
     ELSE RecordIp(m, i, "mdns", name)

-----------------------------------------------------------------------------
\* What an enumeration at that moment finds: the addresses of all adapters,
\* which may have changed since the selection, or none when it fails.
Enumerations == {UNION {host[a] : a \in Adapter} : host \in Hosts} \union {{}}

\* The engine evaluates the candidate's address and configures what is
\* suggested for it.
Evaluate(addresses) ==
  /\ best # None /\ evaluated = None
  /\ evaluated' = best.ip /\ enumerated' = addresses
  /\ local' = IF Reachable(best.ip, addresses) THEN None ELSE suggestLocalAddress(best.ip, addresses)
  /\ UNCHANGED <<observed, best, pinged>>

\* The candidate's address is read again for the ping.
Ping ==
  /\ evaluated # None /\ local # NoAddress
  /\ pinged = None
  /\ pinged' = best.ip
  /\ UNCHANGED <<observed, best, evaluated, enumerated, local>>

Next ==
  \/ \E m \in Mac, i \in Ip :
       \/ \E s \in ArpKinds : ObserveArp(m, i, s)
       \/ ObserveIpv4(m, i)
  \/ \E m \in Mac, i \in Ip \union {None}, name \in Hostname \union {None} :
       ObserveDhcp(m, i, name) \/ ObserveMdns(m, i, name)
  \/ \E addresses \in Enumerations : Evaluate(addresses)
  \/ Ping

Spec == Init /\ [][Next]_vars

-----------------------------------------------------------------------------
(* Properties *)

\* The variables keep to their types.
TypeOK ==
  /\ \E host \in Hosts : hostIps = SelectedIps(host)
  /\ macs \in [Mac -> Seq(Hostname)]
  /\ evidence \in [Mac -> [Ip -> SUBSET Source]]
  /\ pending \in [Mac -> Hostname \union {None}]
  /\ told \in [Mac -> [Ip -> Source \union {None}]]
  /\ best # None =>
       best \in Candidate /\ best.mac \notin HostMacs
  /\ {evaluated, pinged} \subseteq Ip \union {None}
  /\ enumerated \in Enumerations
  /\ local \in Nat \union {None, NoAddress}
  /\ count \in 0..MaxObservations

\* The candidate that the engine works with is one the observer knows, with
\* the best of the sources it has for that address, whatever arrives when.
CandidateIsCurrent ==
  best # None =>
    /\ evidence[best.mac][best.ip] # {}
    /\ best.source = bestDiscoverySource(evidence[best.mac][best.ip])

\* What subscribers are told of a pair only improves.
NeverDemoted ==
  [][\A m \in Mac, i \in Ip :
       told[m][i] # None => Confidence[told'[m][i]] >= Confidence[told[m][i]]]_vars

\* Hostnames are not lost, whether they came before or after the first
\* address, and the one that the engine shows is the first that was kept: a
\* name that comes later does not replace it.
HostnameKept ==
  /\ \A m \in Known : pending[m] # None => pending[m] \in ToSet(macs[m])
  /\ best # None /\ best.hostname # None =>
       macs[best.mac] # <<>> /\ best.hostname = Head(macs[best.mac])

\* The search never fails, and what it suggests is an address of the device's
\* /24 other than the device's, in no subnet of any address that was
\* enumerated: the temporary route hides no other.  Addresses that were
\* observed of other devices are not looked at.
SuggestionUsable ==
  local # None =>
    /\ local # NoAddress
    /\ sameSubnet(local, evaluated, AssumedPrefix)
    /\ local \notin {evaluated, networkOf(local, AssumedPrefix), broadcastOf(local, AssumedPrefix)}
    /\ \A a \in enumerated :
         ~sameSubnet(local, a.ip, IF a.prefix < AssumedPrefix THEN a.prefix ELSE AssumedPrefix)

HasOneAddress(m) == \A i, k \in Ip : evidence[m][i] # {} /\ evidence[m][k] # {} => i = k

\* What is pinged is another address than the temporary one, and in a subnet
\* that the host had when it looked, or in the temporary one.  Not so for a
\* host subnet smaller than a /24, which counts as a /24, and for a device with
\* several addresses, of which a later one may be pinged.
PingReaches ==
  pinged # None /\ HasOneAddress(best.mac) /\ (\A a \in enumerated : a.prefix <= AssumedPrefix) =>
    /\ pinged # local
    /\ \E a \in enumerated \union (IF local = None THEN {} ELSE {[ip |-> local, prefix |-> AssumedPrefix]}) :
         sameSubnet(a.ip, pinged, a.prefix)
=============================================================================
