------------------------ MODULE DeviceObserverProofs ------------------------
(***************************************************************************)
(* Proofs about DeviceObserver, for any machines, addresses, hosts and     *)
(* number of observations: the engine's candidate is the best that the     *)
(* evidence gives and keeps its name, the address that is suggested for it *)
(* is usable, and what is pinged is in reach.                              *)
(***************************************************************************)
EXTENDS DeviceObserver, Recursion, TLAPS

\* The evidence is well formed, and the candidate names a pair.
EvidenceOK ==
  /\ evidence \in [Mac -> [Ip -> SUBSET Source]]
  /\ best # None => best.mac \in Mac /\ best.ip \in Ip

Evaluates == \E addresses \in Enumerations : Evaluate(addresses)

-----------------------------------------------------------------------------
(* What a step does to the evidence *)

\* A new observation for pair (m, i): what was recorded and who is told.
Learns(m, i, s) ==
  /\ evidence' = [evidence EXCEPT ![m][i] = @ \union {s}]
  /\ \E c : /\ c.mac = m /\ c.ip = i
            /\ c.source = bestDiscoverySource(evidence[m][i] \union {s})
            /\ \/ evidence[m][i] = {} /\ OnFound(c)
               \/ evidence[m][i] # {} /\ OnUpdated(c)
               \/ s \in evidence[m][i] /\ UNCHANGED best

LEMMA RecordLearns ==
  ASSUME EvidenceOK, NEW m \in Mac, NEW i \in Ip, NEW s \in Source, NEW name,
         RecordIp(m, i, s, name)
  PROVE  Learns(m, i, s)
<1>. DEFINE sources == evidence[m][i] \union {s}
            names == NamesAtFirst(m, Named(m, name), Noted(m, name))
            c == [mac |-> m, ip |-> i, source |-> bestDiscoverySource(sources),
                  hostname |-> IF names[m] = <<>> THEN None ELSE Head(names[m])]
<1>1. c.mac = m /\ c.ip = i /\ c.source = bestDiscoverySource(sources)
  OBVIOUS
<1>. HIDE DEF names
<1>2. evidence' = [evidence EXCEPT ![m][i] = sources]
  BY DEF RecordIp, names
<1>3. \/ evidence[m][i] = {} /\ OnFound(c)
      \/ evidence[m][i] # {} /\ OnUpdated(c)
      \/ s \in evidence[m][i] /\ UNCHANGED best
  <2>1. CASE evidence[m][i] = {}
    BY <2>1 DEF RecordIp, names
  <2>2. CASE evidence[m][i] # {} /\ WorthTelling(m, i, s)
    BY <2>2 DEF RecordIp, names
  <2>3. CASE evidence[m][i] # {} /\ ~WorthTelling(m, i, s)
    BY <2>3 DEF RecordIp, names, WorthTelling
  <2>. QED BY <2>1, <2>2, <2>3
<1>. HIDE DEF c
<1>. QED BY <1>1, <1>2, <1>3 DEF Learns, EvidenceOK

\* Evidence and candidate are left alone, or a pair of another machine than the
\* selected adapter is learned of.
LearnsOfOthers ==
  \/ UNCHANGED <<evidence, best>>
  \/ \E m \in Mac \ HostMacs, i \in Ip, s \in Source : Learns(m, i, s)

LEMMA StepLearns ==
  ASSUME EvidenceOK, [Next]_vars
  PROVE  LearnsOfOthers
<1>0. {"gratuitous-arp", "arp-reply", "arp-request", "ipv4-source", "dhcp", "mdns"} = Source
  BY DEF Source, Confidence
<1>1. ASSUME NEW m \in Mac, NEW i \in Ip, NEW s \in ArpKinds, ObserveArp(m, i, s) PROVE LearnsOfOthers
  BY <1>0, <1>1, ArpAssumption, RecordLearns DEF ObserveArp, Observe, LearnsOfOthers
<1>2. ASSUME NEW m \in Mac, NEW i \in Ip, ObserveIpv4(m, i) PROVE LearnsOfOthers
  BY <1>0, <1>2, RecordLearns DEF ObserveIpv4, Observe, Accepts, LearnsOfOthers
<1>3. ASSUME NEW m \in Mac, NEW i \in Ip \union {None}, NEW name, ObserveDhcp(m, i, name)
      PROVE  LearnsOfOthers
  BY <1>0, <1>3, RecordLearns DEF ObserveDhcp, Observe, NoteName, LearnsOfOthers
<1>4. ASSUME NEW m \in Mac, NEW i \in Ip \union {None}, NEW name, ObserveMdns(m, i, name)
      PROVE  LearnsOfOthers
  <2>1. CASE i = None \/ ~Accepts(i)
    BY <1>4, <2>1 DEF ObserveMdns, Observe, NoteName, LearnsOfOthers
  <2>2. CASE i # None /\ Accepts(i)
    <3>1. m \notin HostMacs /\ i \in Ip
      BY <1>4, <2>2 DEF ObserveMdns, Observe
    <3>2. Learns(m, i, "mdns")
      BY <1>0, <1>4, <2>2, RecordLearns DEF ObserveMdns
    <3>. QED BY <1>0, <3>1, <3>2 DEF LearnsOfOthers
  <2>. QED BY <2>1, <2>2
<1>5. CASE Evaluates \/ Ping
  BY <1>5 DEF Evaluates, Evaluate, Ping, observed, LearnsOfOthers
<1>6. CASE UNCHANGED vars
  BY <1>6 DEF vars, observed, LearnsOfOthers
<1>7. CASE \E m \in Mac, i \in Ip : (\E s \in ArpKinds : ObserveArp(m, i, s)) \/ ObserveIpv4(m, i)
  BY <1>1, <1>2, <1>7
<1>8. CASE \E m \in Mac, i \in Ip \union {None}, name \in Hostname \union {None} :
             ObserveDhcp(m, i, name) \/ ObserveMdns(m, i, name)
  BY <1>3, <1>4, <1>8
<1>. QED BY <1>5, <1>6, <1>7, <1>8 DEF Next, Evaluates

LEMMA EvidenceStep == EvidenceOK /\ [Next]_vars => EvidenceOK'
<1>. SUFFICES ASSUME EvidenceOK, [Next]_vars PROVE EvidenceOK'
  OBVIOUS
<1>1. CASE UNCHANGED <<evidence, best>>
  BY <1>1 DEF EvidenceOK
<1>2. ASSUME NEW m \in Mac, NEW i \in Ip, NEW s \in Source, Learns(m, i, s)
      PROVE  EvidenceOK'
  BY <1>2 DEF Learns, OnFound, OnUpdated, EvidenceOK
<1>. QED BY <1>1, <1>2, StepLearns DEF LearnsOfOthers

LEMMA EvidenceInit == Init => EvidenceOK
  BY DEF Init, EvidenceOK

-----------------------------------------------------------------------------
(* The selected adapter is not a device *)

NoHostMac == best # None => best.mac \in Mac \ HostMacs

LEMMA NoHostMacStep == EvidenceOK /\ NoHostMac /\ [Next]_vars => NoHostMac'
<1>. SUFFICES ASSUME EvidenceOK, NoHostMac, [Next]_vars PROVE NoHostMac'
  OBVIOUS
<1>1. CASE UNCHANGED <<evidence, best>>
  BY <1>1 DEF NoHostMac
<1>2. ASSUME NEW m \in Mac \ HostMacs, NEW i \in Ip, NEW s \in Source, Learns(m, i, s)
      PROVE  NoHostMac'
  BY <1>2 DEF Learns, OnFound, OnUpdated, NoHostMac
<1>. QED BY <1>1, <1>2, StepLearns DEF LearnsOfOthers

-----------------------------------------------------------------------------
(* The candidate *)

LEMMA CandidateStep == EvidenceOK /\ CandidateIsCurrent /\ [Next]_vars => CandidateIsCurrent'
<1>. SUFFICES ASSUME EvidenceOK, CandidateIsCurrent, [Next]_vars, best' # None
              PROVE  /\ evidence'[best'.mac][best'.ip] # {}
                     /\ best'.source = bestDiscoverySource(evidence'[best'.mac][best'.ip])
  BY DEF CandidateIsCurrent, bestDiscoverySource
<1>1. CASE UNCHANGED <<evidence, best>>
  BY <1>1 DEF CandidateIsCurrent
<1>2. ASSUME NEW m \in Mac, NEW i \in Ip, NEW s \in Source, Learns(m, i, s)
      PROVE  /\ evidence'[best'.mac][best'.ip] # {}
             /\ best'.source = bestDiscoverySource(evidence'[best'.mac][best'.ip])
  <2>1. \A n \in Mac, k \in Ip :
          evidence'[n][k] = IF n = m /\ k = i THEN evidence[n][k] \union {s} ELSE evidence[n][k]
    BY <1>2 DEF Learns, EvidenceOK
  <2>. PICK c : /\ c.mac = m /\ c.ip = i
                /\ c.source = bestDiscoverySource(evidence[m][i] \union {s})
                /\ \/ evidence[m][i] = {} /\ OnFound(c)
                   \/ evidence[m][i] # {} /\ OnUpdated(c)
                   \/ s \in evidence[m][i] /\ UNCHANGED best
    BY <1>2 DEF Learns
  <2>2. CASE best' = c
    BY <2>1, <2>2
  <2>3. CASE best' = best /\ (best.mac # m \/ best.ip # i)
    BY <2>1, <2>3 DEF CandidateIsCurrent, EvidenceOK
  <2>4. CASE best' = best /\ s \in evidence[m][i]
    <3>1. evidence[m][i] \union {s} = evidence[m][i]
      BY <2>4
    <3>2. \A n \in Mac, k \in Ip : evidence'[n][k] = evidence[n][k]
      BY <2>1, <3>1
    <3>. QED BY <2>4, <3>2 DEF CandidateIsCurrent, EvidenceOK
  <2>. QED BY <2>2, <2>3, <2>4 DEF OnFound, OnUpdated, CandidateIsCurrent
<1>. QED BY <1>1, <1>2, StepLearns DEF LearnsOfOthers

\* The engine's candidate is one that the observer knows, with the best source
\* that the evidence for its address has, whatever arrives in whatever order.
THEOREM CandidateAlwaysCurrent == Spec => []CandidateIsCurrent
<1>1. Init => CandidateIsCurrent
  BY DEF Init, CandidateIsCurrent
<1>. QED BY <1>1, EvidenceInit, EvidenceStep, CandidateStep, PTL DEF Spec

-----------------------------------------------------------------------------
(* What subscribers are told *)

\* A step leaves what is known and told alone, notes a name, or records a pair.
Hears ==
  \/ UNCHANGED <<macs, evidence, pending, told, best>>
  \/ \E m \in Mac, name \in Hostname \union {None} :
       \/ NoteName(m, name)
       \/ \E i \in Ip, s \in Source : RecordIp(m, i, s, name)

LEMMA StepHears == [Next]_vars => Hears
<1>. SUFFICES ASSUME [Next]_vars PROVE Hears
  OBVIOUS
<1>0. {"gratuitous-arp", "arp-reply", "arp-request", "ipv4-source", "dhcp", "mdns"} = Source
  BY DEF Source, Confidence
<1>1. ASSUME NEW m \in Mac, NEW i \in Ip, NEW s \in ArpKinds, ObserveArp(m, i, s) PROVE Hears
  BY <1>0, <1>1, ArpAssumption DEF ObserveArp, Hears
<1>2. ASSUME NEW m \in Mac, NEW i \in Ip, ObserveIpv4(m, i) PROVE Hears
  BY <1>0, <1>2 DEF ObserveIpv4, Hears
<1>3. ASSUME NEW m \in Mac, NEW i \in Ip \union {None}, NEW name \in Hostname \union {None},
             ObserveDhcp(m, i, name) \/ ObserveMdns(m, i, name)
      PROVE  Hears
  BY <1>0, <1>3 DEF ObserveDhcp, ObserveMdns, Hears
<1>4. CASE Evaluates \/ Ping \/ UNCHANGED vars
  BY <1>4 DEF Evaluates, Evaluate, Ping, observed, vars, Hears
<1>. QED BY <1>1, <1>2, <1>3, <1>4 DEF Next, Evaluates

\* There is a best source, and it gains by another.
LEMMA BestSource ==
  ASSUME NEW S \in SUBSET Source, S # {}
  PROVE  /\ bestDiscoverySource(S) \in S
         /\ \A t \in S : Confidence[t] <= Confidence[bestDiscoverySource(S)]
<1>1. \E s \in S : \A t \in S : Confidence[t] <= Confidence[s]
  BY DEF Source, Confidence
<1>. QED BY <1>1 DEF bestDiscoverySource

LEMMA BestGains ==
  ASSUME NEW S \in SUBSET Source, S # {}, NEW s \in Source
  PROVE  Confidence[bestDiscoverySource(S \union {s})] >= Confidence[bestDiscoverySource(S)]
<1>1. bestDiscoverySource(S) \in S \union {s}
  BY BestSource
<1>2. Confidence[bestDiscoverySource(S)] <= Confidence[bestDiscoverySource(S \union {s})]
  BY <1>1, BestSource
<1>3. \A t \in Source : Confidence[t] \in Nat
  BY DEF Source, Confidence
<1>. QED BY <1>1, <1>2, <1>3, BestSource

\* What was told last of a pair is the best of its evidence.
ToldBest ==
  /\ told \in [Mac -> [Ip -> Source \union {None}]]
  /\ \A m \in Mac, i \in Ip :
       told[m][i] # None =>
         evidence[m][i] # {} /\ told[m][i] = bestDiscoverySource(evidence[m][i])

\* What a record tells.
Tells(m, i, s) ==
  /\ evidence' = [evidence EXCEPT ![m][i] = evidence[m][i] \union {s}]
  /\ \/ told' = [told EXCEPT ![m][i] = bestDiscoverySource(evidence[m][i] \union {s})]
     \/ s \in evidence[m][i] /\ UNCHANGED told

LEMMA RecordTells ==
  ASSUME NEW m \in Mac, NEW i \in Ip, NEW s \in Source, NEW name, RecordIp(m, i, s, name)
  PROVE  Tells(m, i, s)
<1>. DEFINE names == NamesAtFirst(m, Named(m, name), Noted(m, name))
<1>. HIDE DEF names
<1>1. evidence' = [evidence EXCEPT ![m][i] = evidence[m][i] \union {s}]
  BY DEF RecordIp, names
<1>2. CASE evidence[m][i] = {}
  BY <1>1, <1>2 DEF RecordIp, names, Tells
<1>3. CASE evidence[m][i] # {} /\ WorthTelling(m, i, s)
  BY <1>1, <1>3 DEF RecordIp, names, Tells
<1>4. CASE evidence[m][i] # {} /\ ~WorthTelling(m, i, s)
  BY <1>1, <1>4 DEF RecordIp, names, WorthTelling, Tells
<1>. QED BY <1>2, <1>3, <1>4

\* A step that tells: what it tells is the best, and no worse than before.
Improves ==
  /\ ToldBest'
  /\ \A m \in Mac, i \in Ip :
       told[m][i] # None => Confidence[told'[m][i]] >= Confidence[told[m][i]]

LEMMA ConfidenceReflexive == \A s \in Source : Confidence[s] >= Confidence[s]
  BY DEF Source, Confidence

LEMMA TellsImprove ==
  ASSUME EvidenceOK, ToldBest, NEW m \in Mac, NEW i \in Ip, NEW s \in Source,
         NEW name \in Hostname \union {None}, RecordIp(m, i, s, name)
  PROVE  Improves
<1>. DEFINE sources == evidence[m][i] \union {s}
<1>0. Tells(m, i, s)
  BY RecordTells
<1>1. sources \in SUBSET Source /\ sources # {} /\ evidence[m][i] \in SUBSET Source
  BY DEF EvidenceOK
<1>2. \A n \in Mac, k \in Ip :
        evidence'[n][k] = IF n = m /\ k = i THEN sources ELSE evidence[n][k]
  BY <1>0 DEF EvidenceOK, Tells
<1>3. \A n \in Mac, k \in Ip :
        told[n][k] # None => evidence[n][k] \in SUBSET Source /\ evidence[n][k] # {}
  BY DEF EvidenceOK, ToldBest
<1>4. \A n \in Mac, k \in Ip : told[n][k] # None => Confidence[told[n][k]] >= Confidence[told[n][k]]
  BY <1>3, BestSource, ConfidenceReflexive DEF ToldBest
<1>5. CASE told' = [told EXCEPT ![m][i] = bestDiscoverySource(sources)]
  <2>1. bestDiscoverySource(sources) \in Source
    BY <1>1, BestSource
  <2>2. \A n \in Mac, k \in Ip :
          told'[n][k] = IF n = m /\ k = i THEN bestDiscoverySource(sources) ELSE told[n][k]
    BY <1>5 DEF ToldBest
  <2>3. told' \in [Mac -> [Ip -> Source \union {None}]]
    BY <1>5, <2>1 DEF ToldBest
  <2>4. ToldBest'
    <3>1. \A n \in Mac, k \in Ip : told'[n][k] # None =>
            /\ evidence'[n][k] # {}
            /\ told'[n][k] = bestDiscoverySource(evidence'[n][k])
      <4>. TAKE n \in Mac, k \in Ip
      <4>1. CASE n = m /\ k = i
        <5>1. told'[n][k] = bestDiscoverySource(sources) /\ evidence'[n][k] = sources
          BY <1>2, <2>2, <4>1
        <5>. QED BY <1>1, <5>1
      <4>2. CASE ~(n = m /\ k = i)
        <5>1. told'[n][k] = told[n][k] /\ evidence'[n][k] = evidence[n][k]
          BY <1>2, <2>2, <4>2
        <5>. QED BY <5>1 DEF ToldBest
      <4>. QED BY <4>1, <4>2
    <3>. QED BY <2>3, <3>1 DEF ToldBest, bestDiscoverySource
  <2>5. told[m][i] # None => Confidence[told'[m][i]] >= Confidence[told[m][i]]
    BY <1>1, <1>3, <2>2, BestGains DEF ToldBest
  <2>. QED BY <1>4, <2>2, <2>4, <2>5 DEF Improves
<1>6. CASE s \in evidence[m][i] /\ UNCHANGED told
  <2>1. \A n \in Mac, k \in Ip : evidence'[n][k] = evidence[n][k]
    BY <1>2, <1>6
  <2>2. ToldBest'
    BY <1>6, <2>1 DEF ToldBest, bestDiscoverySource
  <2>. QED BY <1>4, <1>6, <2>2 DEF Improves
<1>. QED BY <1>0, <1>5, <1>6 DEF Tells

LEMMA ToldStep == EvidenceOK /\ ToldBest /\ [Next]_vars => Improves
<1>. SUFFICES ASSUME EvidenceOK, ToldBest, [Next]_vars PROVE Improves
  OBVIOUS
<1>1. CASE UNCHANGED <<evidence, told>>
  <2>1. ToldBest'
    BY <1>1 DEF ToldBest, bestDiscoverySource
  <2>2. \A m \in Mac, i \in Ip : told[m][i] # None => Confidence[told[m][i]] >= Confidence[told[m][i]]
    BY BestSource, ConfidenceReflexive DEF ToldBest, EvidenceOK
  <2>. QED BY <1>1, <2>1, <2>2 DEF Improves
<1>. QED BY <1>1, StepHears, TellsImprove DEF Hears, NoteName

\* What subscribers are told of a pair only improves, whatever arrives.
THEOREM NeverToldWorse == Spec => NeverDemoted
<1>1. Init => ToldBest
  BY DEF Init, ToldBest
<1>2. EvidenceOK /\ ToldBest /\ [Next]_vars => ToldBest'
  BY ToldStep DEF Improves
<1>. DEFINE Better == \A m \in Mac, i \in Ip :
       told[m][i] # None => Confidence[told'[m][i]] >= Confidence[told[m][i]]
<1>3. EvidenceOK /\ ToldBest /\ [Next]_vars => [Better]_vars
  BY ToldStep DEF Improves
<1>. QED BY <1>1, <1>2, <1>3, EvidenceInit, EvidenceStep, PTL DEF Spec, NeverDemoted

-----------------------------------------------------------------------------
(* Hostnames *)

\* The name last heard of a machine is among those kept of it.
NamesKept == \A m \in Known : pending[m] # None => pending[m] \in ToSet(macs[m])

\* The candidate's name is the first of them.
NameShown ==
  best # None /\ best.hostname # None =>
    macs[best.mac] # <<>> /\ best.hostname = Head(macs[best.mac])

\* The names noted with and without an address are lists and names.
NamesOK ==
  /\ macs \in [Mac -> Seq(Hostname)]
  /\ pending \in [Mac -> Hostname \union {None}]

LEMMA Added ==
  ASSUME NEW names \in Seq(Hostname), NEW name \in Hostname
  PROVE  Add(name, names) \in Seq(Hostname) /\ name \in ToSet(Add(name, names))
<1>1. CASE name \in ToSet(names)
  BY <1>1 DEF Add
<1>2. CASE name \notin ToSet(names)
  <2>1. Add(name, names) = Append(names, name)
    BY <1>2 DEF Add
  <2>2. Append(names, name)[Len(names) + 1] = name /\ Len(names) + 1 \in 1..Len(Append(names, name))
    OBVIOUS
  <2>. QED BY <2>1, <2>2 DEF ToSet
<1>. QED BY <1>1, <1>2

\* What an observation of machine m with a name does to the names.
LEMMA NamedKeeps ==
  ASSUME NamesOK, NamesKept, NEW m \in Mac, NEW name \in Hostname \union {None}
  PROVE  /\ Noted(m, name) \in [Mac -> Hostname \union {None}]
         /\ Named(m, name) \in [Mac -> Seq(Hostname)]
         /\ \A n \in Known : Noted(m, name)[n] # None => Noted(m, name)[n] \in ToSet(Named(m, name)[n])
<1>1. CASE name = None
  BY <1>1 DEF Noted, Named, NamesOK, NamesKept
<1>2. CASE name # None /\ m \notin Known
  <2>1. \A n \in Mac \ {m} : Noted(m, name)[n] = pending[n]
    BY <1>2 DEF Noted, NamesOK
  <2>2. Named(m, name) = macs
    BY <1>2 DEF Named
  <2>. QED BY <1>2, <2>1, <2>2 DEF Noted, NamesOK, NamesKept, Known
<1>3. CASE name # None /\ m \in Known
  <2>1. macs[m] \in Seq(Hostname) /\ name \in Hostname
    BY <1>3 DEF NamesOK
  <2>2. \A n \in Mac : /\ Noted(m, name)[n] = IF n = m THEN name ELSE pending[n]
                       /\ Named(m, name)[n] = IF n = m THEN Add(name, macs[m]) ELSE macs[n]
    BY <1>3 DEF Noted, Named, NamesOK
  <2>3. Named(m, name) \in [Mac -> Seq(Hostname)] /\ Noted(m, name) \in [Mac -> Hostname \union {None}]
    BY <1>3, <2>1, Added DEF Noted, Named, NamesOK
  <2>4. \A n \in Known : n \in Mac
    BY DEF Known
  <2>. QED BY <2>1, <2>2, <2>3, <2>4, Added DEF NamesKept
<1>. QED BY <1>1, <1>2, <1>3

LEMMA NamesStep == EvidenceOK /\ NamesOK /\ NamesKept /\ [Next]_vars => NamesOK' /\ NamesKept'
<1>. SUFFICES ASSUME EvidenceOK, NamesOK, NamesKept, [Next]_vars PROVE NamesOK' /\ NamesKept'
  OBVIOUS
<1>1. CASE UNCHANGED <<macs, evidence, pending>>
  BY <1>1 DEF NamesOK, NamesKept, Known
<1>2. ASSUME NEW m \in Mac, NEW name \in Hostname \union {None}, NoteName(m, name)
      PROVE  NamesOK' /\ NamesKept'
  <2>1. Known' = Known /\ pending' = Noted(m, name) /\ macs' = Named(m, name)
    BY <1>2 DEF NoteName, Known
  <2>. QED BY <2>1, NamedKeeps DEF NamesOK, NamesKept
<1>3. ASSUME NEW m \in Mac, NEW i \in Ip, NEW s \in Source, NEW name \in Hostname \union {None},
             RecordIp(m, i, s, name)
      PROVE  NamesOK' /\ NamesKept'
  <2>. DEFINE noted == Noted(m, name)
              names == Named(m, name)
  <2>1. pending' = noted /\ macs' = NamesAtFirst(m, names, noted)
    BY <1>3 DEF RecordIp
  <2>2. Known' = Known \union {m}
    <3>1. \A n \in Mac, k \in Ip :
            evidence'[n][k] = IF n = m /\ k = i THEN evidence[n][k] \union {s} ELSE evidence[n][k]
      <4>1. Tells(m, i, s)
        BY <1>3, RecordTells
      <4>. QED BY <4>1 DEF EvidenceOK, Tells
    <3>2. \A n \in Mac, k \in Ip : evidence[n][k] # {} => evidence'[n][k] # {}
      BY <3>1
    <3>3. evidence'[m][i] # {}
      BY <3>1
    <3>4. \A n \in Mac, k \in Ip : evidence'[n][k] # {} => n = m \/ evidence[n][k] # {}
      BY <3>1
    <3>. QED BY <3>2, <3>3, <3>4 DEF Known
  <2>3. /\ noted \in [Mac -> Hostname \union {None}] /\ names \in [Mac -> Seq(Hostname)]
        /\ \A n \in Known : noted[n] # None => noted[n] \in ToSet(names[n])
    BY NamedKeeps
  <2>. HIDE DEF noted, names
  <2>4. CASE m \in Known \/ noted[m] = None
    <3>1. macs' = names
      BY <2>1, <2>4 DEF NamesAtFirst
    <3>. QED BY <2>1, <2>2, <2>3, <2>4, <3>1 DEF NamesOK, NamesKept
  <2>5. CASE m \notin Known /\ noted[m] # None
    <3>1. macs' = [names EXCEPT ![m] = <<noted[m]>>] /\ noted[m] \in Hostname
      BY <2>1, <2>3, <2>5 DEF NamesAtFirst
    <3>2. macs' \in [Mac -> Seq(Hostname)] /\ macs'[m] = <<noted[m]>>
          /\ \A n \in Mac \ {m} : macs'[n] = names[n]
      BY <2>3, <3>1
    <3>3. noted[m] \in ToSet(macs'[m])
      BY <3>2 DEF ToSet
    <3>4. \A n \in Known : n \in Mac \ {m}
      BY <2>5 DEF Known
    <3>. QED BY <2>1, <2>2, <2>3, <3>2, <3>3, <3>4 DEF NamesOK, NamesKept
  <2>. QED BY <2>4, <2>5
<1>. QED BY <1>1, <1>2, <1>3, StepHears DEF Hears

LEMMA NamesInit == Init => NamesOK /\ NamesKept
<1>. SUFFICES ASSUME Init PROVE NamesOK /\ NamesKept
  OBVIOUS
<1>1. NamesOK
  BY DEF Init, NamesOK
<1>2. \A m \in Known : m \in Mac
  BY DEF Known
<1>. QED BY <1>1, <1>2 DEF Init, NamesKept

LEMMA AddedKeepsFirst ==
  ASSUME NEW names \in Seq(Hostname), NEW name \in Hostname, names # <<>>
  PROVE  Add(name, names) # <<>> /\ Head(Add(name, names)) = Head(names)
<1>1. Append(names, name) # <<>> /\ Head(Append(names, name)) = Head(names)
  OBVIOUS
<1>. QED BY <1>1 DEF Add

\* The first name of a machine with an address stays the first.
FirstStays == \A n \in Known : macs[n] # <<>> => macs'[n] # <<>> /\ Head(macs'[n]) = Head(macs[n])

LEMMA NamedStays ==
  ASSUME NamesOK, NEW m \in Mac, NEW name \in Hostname \union {None}, NEW n \in Mac, macs[n] # <<>>
  PROVE  Named(m, name)[n] # <<>> /\ Head(Named(m, name)[n]) = Head(macs[n])
<1>1. CASE name = None \/ m \notin Known
  BY <1>1 DEF Named
<1>2. CASE name # None /\ m \in Known
  <2>1. Named(m, name) = [macs EXCEPT ![m] = Add(name, macs[m])]
    BY <1>2 DEF Named
  <2>2. CASE n = m
    <3>1. macs[m] \in Seq(Hostname) /\ name \in Hostname
      BY <1>2 DEF NamesOK
    <3>2. Named(m, name)[n] = Add(name, macs[m])
      BY <2>1, <2>2 DEF NamesOK
    <3>. QED BY <2>2, <3>1, <3>2, AddedKeepsFirst
  <2>3. CASE n # m
    BY <2>1, <2>3 DEF NamesOK
  <2>. QED BY <2>2, <2>3
<1>. QED BY <1>1, <1>2

LEMMA StepFirst == ASSUME NamesOK, NamesKept, [Next]_vars PROVE FirstStays
<1>0. \A n \in Known : n \in Mac
  BY DEF Known
<1>1. CASE UNCHANGED macs
  BY <1>1 DEF FirstStays
<1>2. ASSUME NEW m \in Mac, NEW name \in Hostname \union {None}, NoteName(m, name) PROVE FirstStays
  BY <1>0, <1>2, NamedStays DEF NoteName, FirstStays
<1>3. ASSUME NEW m \in Mac, NEW i \in Ip, NEW s \in Source, NEW name \in Hostname \union {None},
             RecordIp(m, i, s, name)
      PROVE  FirstStays
  <2>. DEFINE names == Named(m, name)
              noted == Noted(m, name)
  <2>1. macs' = NamesAtFirst(m, names, noted)
    BY <1>3 DEF RecordIp
  <2>2. names \in [Mac -> Seq(Hostname)]
    BY NamedKeeps
  <2>3. \A n \in Known : macs[n] # <<>> => names[n] # <<>> /\ Head(names[n]) = Head(macs[n])
    BY <1>0, NamedStays
  <2>. HIDE DEF names, noted
  <2>4. CASE m \in Known \/ noted[m] = None
    BY <2>1, <2>3, <2>4 DEF NamesAtFirst, FirstStays
  <2>5. CASE m \notin Known /\ noted[m] # None
    <3>1. macs' = [names EXCEPT ![m] = <<noted[m]>>]
      BY <2>1, <2>5 DEF NamesAtFirst
    <3>2. \A n \in Known : n # m /\ macs'[n] = names[n]
      BY <1>0, <2>2, <2>5, <3>1
    <3>. QED BY <2>3, <3>2 DEF FirstStays
  <2>. QED BY <2>4, <2>5
<1>. QED BY <1>1, <1>2, <1>3, StepHears DEF Hears

\* A candidate is made with the first of the names that are kept with it.
LEMMA RecordShows ==
  ASSUME NEW m \in Mac, NEW i \in Ip, NEW s \in Source, NEW name, RecordIp(m, i, s, name)
  PROVE  \/ UNCHANGED best
         \/ /\ best'.mac = m
            /\ best'.hostname = IF macs'[m] = <<>> THEN None ELSE Head(macs'[m])
<1>. DEFINE names == NamesAtFirst(m, Named(m, name), Noted(m, name))
            hostname == IF names[m] = <<>> THEN None ELSE Head(names[m])
            c == [mac |-> m, ip |-> i, source |-> bestDiscoverySource(evidence[m][i] \union {s}),
                  hostname |-> hostname]
<1>1. macs' = names
  BY DEF RecordIp
<1>2. c.mac = m /\ c.hostname = hostname
  OBVIOUS
<1>3. OnFound(c) \/ OnUpdated(c) \/ UNCHANGED best
  <2>1. CASE evidence[m][i] = {}
    BY <2>1 DEF RecordIp
  <2>2. CASE evidence[m][i] # {} /\ WorthTelling(m, i, s)
    BY <2>2 DEF RecordIp
  <2>3. CASE evidence[m][i] # {} /\ ~WorthTelling(m, i, s)
    BY <2>3 DEF RecordIp
  <2>. QED BY <2>1, <2>2, <2>3
<1>4. hostname = IF macs'[m] = <<>> THEN None ELSE Head(macs'[m])
  BY <1>1
<1>. HIDE DEF c, hostname
<1>. QED BY <1>2, <1>3, <1>4 DEF OnFound, OnUpdated

LEMMA ShownStep ==
  EvidenceOK /\ NamesOK /\ NamesKept /\ CandidateIsCurrent /\ NameShown /\ [Next]_vars => NameShown'
<1>. SUFFICES ASSUME EvidenceOK, NamesOK, NamesKept, CandidateIsCurrent, NameShown, [Next]_vars,
                     best' # None, best'.hostname # None
              PROVE  macs'[best'.mac] # <<>> /\ best'.hostname = Head(macs'[best'.mac])
  BY DEF NameShown
<1>1. CASE UNCHANGED best
  <2>1. best.mac \in Known
    BY <1>1 DEF CandidateIsCurrent, EvidenceOK, Known
  <2>. QED BY <1>1, <2>1, StepFirst DEF NameShown, FirstStays
<1>2. ASSUME NEW m \in Mac, NEW i \in Ip, NEW s \in Source, NEW name \in Hostname \union {None},
             RecordIp(m, i, s, name), best' # best
      PROVE  macs'[best'.mac] # <<>> /\ best'.hostname = Head(macs'[best'.mac])
  <2>1. best'.mac = m /\ best'.hostname = IF macs'[m] = <<>> THEN None ELSE Head(macs'[m])
    BY <1>2, RecordShows
  <2>. QED BY <2>1
<1>. QED BY <1>1, <1>2, StepHears DEF Hears, NoteName

\* A name that has been heard of a machine with an address is kept, whether it
\* came before or after the first address; the one that the engine's candidate
\* carries is the first that was kept, and stays it whatever is heard later.
THEOREM HostnameAlwaysKept == Spec => []HostnameKept
<1>1. Init => CandidateIsCurrent /\ NameShown
  BY DEF Init, CandidateIsCurrent, NameShown
<1>2. NamesKept /\ NameShown => HostnameKept
  BY DEF NamesKept, NameShown, HostnameKept
<1>. QED BY <1>1, <1>2, NamesInit, EvidenceInit, EvidenceStep, NamesStep, CandidateStep, ShownStep, PTL
         DEF Spec

-----------------------------------------------------------------------------
(* Subnets *)

\* The sizes of subnets that hold a /24 or more.
Sizes == {256, 512, 1024, 2048, 4096, 8192, 16384, 32768, 65536, 131072, 262144, 524288, 1048576,
          2097152, 4194304, 8388608, 16777216}

LEMMA SizeOfSubnet == SubnetSize(24) = 256 /\ \A p \in 8..24 : SubnetSize(p) \in Sizes
<1>1. SubnetSize(24) = 256
  BY DEF SubnetSize
<1>2. ASSUME NEW k \in 8..24 PROVE 2 ^ k \in Sizes
  <2>1. CASE k = 8
    BY <2>1 DEF Sizes
  <2>2. CASE k = 9
    BY <2>2 DEF Sizes
  <2>3. CASE k = 10
    BY <2>3 DEF Sizes
  <2>4. CASE k = 11
    BY <2>4 DEF Sizes
  <2>5. CASE k = 12
    BY <2>5 DEF Sizes
  <2>6. CASE k = 13
    BY <2>6 DEF Sizes
  <2>7. CASE k = 14
    BY <2>7 DEF Sizes
  <2>8. CASE k = 15
    BY <2>8 DEF Sizes
  <2>9. CASE k = 16
    BY <2>9 DEF Sizes
  <2>10. CASE k = 17
    BY <2>10 DEF Sizes
  <2>11. CASE k = 18
    BY <2>11 DEF Sizes
  <2>12. CASE k = 19
    BY <2>12 DEF Sizes
  <2>13. CASE k = 20
    BY <2>13 DEF Sizes
  <2>14. CASE k = 21
    BY <2>14 DEF Sizes
  <2>15. CASE k = 22
    BY <2>15 DEF Sizes
  <2>16. CASE k = 23
    BY <2>16 DEF Sizes
  <2>17. CASE k = 24
    BY <2>17 DEF Sizes
  <2>. QED BY <2>1, <2>2, <2>3, <2>4, <2>5, <2>6, <2>7, <2>8, <2>9, <2>10, <2>11, <2>12, <2>13, <2>14, <2>15, <2>16, <2>17
<1>3. \A p \in 8..24 : 32 - p \in 8..24
  OBVIOUS
<1>. QED BY <1>1, <1>2, <1>3 DEF SubnetSize

\* Two addresses of one /24 are in one subnet of any shorter prefix.
LEMMA Nested ==
  ASSUME NEW a \in Nat, NEW b \in Nat, sameSubnet(a, b, 24), NEW p \in 8..24
  PROVE  sameSubnet(a, b, p)
<1>1. a - (a % 256) = b - (b % 256)
  BY SizeOfSubnet DEF sameSubnet, networkOf
<1>2. \A s \in Sizes : a - (a % s) = b - (b % s)
  BY <1>1 DEF Sizes
<1>. QED BY <1>2, SizeOfSubnet DEF sameSubnet, networkOf

LEMMA SuffixFacts ==
  /\ DOMAIN HostSuffixes = 1..261
  /\ HostSuffixes[1] = 254 /\ HostSuffixes[2] = 250
  /\ \A i \in 1..261 : HostSuffixes[i] \in 2..254
<1>1. DOMAIN Preferred = 1..9 /\ Preferred[1] = 254 /\ Preferred[2] = 250
  BY DEF Preferred
<1>2. \A i \in 1..9 : Preferred[i] \in 2..254
  BY DEF Preferred
<1>. QED BY <1>1, <1>2 DEF HostSuffixes

-----------------------------------------------------------------------------
(* The suggested address *)

\* An address of the device's /24, by its suffix.
LEMMA InSlash24 ==
  ASSUME NEW d \in Nat, NEW k \in 0..255
  PROVE  /\ networkOf(d, 24) \in Nat /\ networkOf(d, 24) + k \in Nat
         /\ networkOf(networkOf(d, 24) + k, 24) = networkOf(d, 24)
         /\ broadcastOf(networkOf(d, 24) + k, 24) = networkOf(d, 24) + 255
<1>. DEFINE n == d - (d % 256)
<1>1. n \in Nat /\ n % 256 = 0
  OBVIOUS
<1>. HIDE DEF n
<1>2. (n + k) - ((n + k) % 256) = n
  BY <1>1
<1>3. networkOf(d, 24) = n
  BY SizeOfSubnet DEF networkOf, n
<1>4. networkOf(n + k, 24) = n
  BY <1>2, SizeOfSubnet DEF networkOf
<1>5. broadcastOf(n + k, 24) = n + 255
  <2>1. (n + 256) - 1 = n + 255
    BY <1>1
  <2>. QED BY <1>4, <2>1, SizeOfSubnet DEF broadcastOf
<1>. QED BY <1>1, <1>3, <1>4, <1>5

LEMMA DeviceInSlash24 ==
  ASSUME NEW d \in Nat
  PROVE  \E k \in 0..255 : d = networkOf(d, 24) + k
<1>1. d % 256 \in 0..255 /\ d = (d - (d % 256)) + (d % 256)
  OBVIOUS
<1>. QED BY <1>1, SizeOfSubnet DEF networkOf

\* A device that counts as out of reach shares no subnet, nor its /24, with these addresses.
LEMMA OutOfReach ==
  ASSUME NEW d \in Nat, NEW A, A \subseteq Address, ~Reachable(d, A), NEW a \in A
  PROVE  /\ a.ip \in Nat /\ a.prefix \in 8..32
         /\ ~sameSubnet(d, a.ip, IF a.prefix < 24 THEN a.prefix ELSE 24)
         /\ ~sameSubnet(d, a.ip, 24)
<1>1. a.ip \in Nat /\ a.prefix \in 8..32
  BY DEF Address
<1>2. ~Covers(a, d)
  BY DEF Reachable
<1>3. \A p : sameSubnet(a.ip, d, p) <=> sameSubnet(d, a.ip, p)
  BY DEF sameSubnet
<1>4. CASE a.prefix < 24
  <2>1. ~sameSubnet(d, a.ip, a.prefix)
    BY <1>2, <1>3 DEF Covers
  <2>2. a.prefix \in 8..24
    BY <1>1, <1>4
  <2>. QED BY <1>1, <1>4, <2>1, <2>2, Nested
<1>5. CASE ~(a.prefix < 24)
  BY <1>1, <1>2, <1>3, <1>5 DEF Covers, AssumedPrefix
<1>. QED BY <1>4, <1>5, <1>1

\* The search succeeds: 254 or 250 is free.  What it suggests is not used by the
\* device or in A, is in the device's /24, and in no subnet of A.
LEMMA SuggestedUsable ==
  ASSUME NEW d \in Nat, NEW A, A \subseteq Address, ~Reachable(d, A)
  PROVE  LET l == suggestLocalAddress(d, A)
         IN /\ l \in Nat
            /\ sameSubnet(l, d, 24)
            /\ l \notin {d, networkOf(l, 24), broadcastOf(l, 24)}
            /\ \A a \in A : ~sameSubnet(l, a.ip, IF a.prefix < 24 THEN a.prefix ELSE 24)
<1>. DEFINE base == networkOf(d, 24)
            address(i) == Base(d) + HostSuffixes[i]
            free == {i \in DOMAIN HostSuffixes : address(i) \notin Used(d, A)}
            first == CHOOSE i \in free : \A j \in free : i <= j
            l == address(first)
<1>. HIDE DEF base, address, free, first, l
<1>0. base \in Nat /\ Base(d) = base /\ broadcastOf(d, 24) = base + 255
  <2>1. base \in Nat
    BY InSlash24 DEF base
  <2>2. networkOf(d, 24) = base /\ SubnetSize(24) = 256
    BY SizeOfSubnet DEF base
  <2>3. broadcastOf(d, 24) = base + 255
    BY <2>1, <2>2 DEF broadcastOf
  <2>. QED BY <2>1, <2>2, <2>3 DEF Base, AssumedPrefix
<1>1. ASSUME NEW k \in 1..254, base + k # d PROVE base + k \notin Used(d, A)
  <2>1. base + k # base /\ base + k # base + 255 /\ base + k \in Nat /\ k \in 0..255
    BY <1>0
  <2>2. sameSubnet(base + k, d, 24)
    BY <2>1, InSlash24 DEF sameSubnet, base
  <2>3. \A a \in A : a.ip # base + k
    <3>. TAKE a \in A
    <3>1. ~sameSubnet(d, a.ip, 24)
      BY OutOfReach
    <3>. QED BY <2>2, <3>1 DEF sameSubnet
  <2>4. base = networkOf(d, 24)
    BY DEF base
  <2>. QED BY <1>0, <1>1, <2>1, <2>3, <2>4 DEF Used, AssumedPrefix
<1>2. DOMAIN HostSuffixes = 1..261 /\ HostSuffixes[1] = 254 /\ HostSuffixes[2] = 250
  BY SuffixFacts
<1>3. free # {}
  <2>1. address(1) = base + 254 /\ address(2) = base + 250
    BY <1>0, <1>2 DEF address
  <2>2. base + 254 # d \/ base + 250 # d
    BY <1>0
  <2>3. 1 \in DOMAIN HostSuffixes /\ 2 \in DOMAIN HostSuffixes
    BY <1>2
  <2>4. CASE base + 254 # d
    BY <1>1, <2>1, <2>3, <2>4 DEF free
  <2>5. CASE base + 250 # d
    BY <1>1, <2>1, <2>3, <2>5 DEF free
  <2>. QED BY <2>2, <2>4, <2>5
<1>4. first \in free
  <2>1. free \subseteq Nat
    BY <1>2 DEF free
  <2>2. \E i \in free : \A j \in free : i <= j
    BY <1>3, <2>1, LeastNatural
  <2>. QED BY <2>2 DEF first
<1>5. suggestLocalAddress(d, A) = l
  BY <1>3 DEF suggestLocalAddress, free, address, first, l
<1>. DEFINE k == HostSuffixes[first]
<1>6. k \in 2..254 /\ l \notin Used(d, A) /\ l = base + k
  <2>1. first \in 1..261 /\ address(first) \notin Used(d, A)
    BY <1>2, <1>4 DEF free
  <2>. QED BY <1>0, <2>1, SuffixFacts DEF l, address
<1>. HIDE DEF k
<1>7. l \in Nat /\ networkOf(l, 24) = base /\ broadcastOf(l, 24) = base + 255
  <2>1. k \in 0..255
    BY <1>6
  <2>. QED BY <1>6, <2>1, InSlash24 DEF base
<1>8. sameSubnet(l, d, 24)
  BY <1>7 DEF sameSubnet, base
<1>9. l \notin {d, networkOf(l, 24), broadcastOf(l, 24)}
  <2>1. l # d
    BY <1>6 DEF Used
  <2>. QED BY <1>0, <1>6, <1>7, <2>1
<1>10. ASSUME NEW a \in A PROVE ~sameSubnet(l, a.ip, IF a.prefix < 24 THEN a.prefix ELSE 24)
  <2>. DEFINE p == IF a.prefix < 24 THEN a.prefix ELSE 24
  <2>1. a.prefix \in 8..32 /\ ~sameSubnet(d, a.ip, p)
    BY OutOfReach
  <2>2. p \in 8..24
    BY <2>1
  <2>. HIDE DEF p
  <2>3. sameSubnet(l, d, p)
    BY <1>7, <1>8, <2>2, Nested
  <2>. QED BY <2>1, <2>3 DEF sameSubnet, p
<1>. QED BY <1>5, <1>7, <1>8, <1>9, <1>10 DEF l, first, free, address, base

\* The engine's own variables change in its own steps only.
LEMMA StepEngine ==
  [Next]_vars => UNCHANGED <<evaluated, enumerated, local, pinged>> \/ Evaluates \/ Ping
BY DEF Next, vars, observed, ObserveArp, ObserveIpv4, ObserveDhcp, ObserveMdns, Observe, Evaluates, Ping

LEMMA EnumeratedAddresses == ASSUME NEW A \in Enumerations PROVE A \subseteq Address
<1>. SUFFICES ASSUME NEW x \in A PROVE x \in Address
  OBVIOUS
<1>. PICK host \in Hosts : A = UNION {host[a] : a \in Adapter}
  BY DEF Enumerations
<1>. PICK a \in Adapter : x \in host[a]
  OBVIOUS
<1>1. host \in [Adapter -> SUBSET Address]
  BY HostsAssumption
<1>2. host[a] \in SUBSET Address
  BY <1>1
<1>. QED BY <1>2

\* What has been evaluated is an address, of a device that counts as in reach,
\* or a usable address has been suggested for it.
EvaluatedOK ==
  /\ enumerated \in Enumerations
  /\ evaluated = None => local = None /\ pinged = None
  /\ evaluated # None =>
       /\ evaluated \in Ip
       /\ local = None => Reachable(evaluated, enumerated)
  /\ local # None => local \in Nat
  /\ SuggestionUsable

LEMMA EvaluatedStep == EvidenceOK /\ EvaluatedOK /\ [Next]_vars => EvaluatedOK'
<1>. SUFFICES ASSUME EvidenceOK, EvaluatedOK, [Next]_vars PROVE EvaluatedOK'
  OBVIOUS
<1>1. CASE UNCHANGED <<evaluated, enumerated, local>> /\ (evaluated = None => pinged' = pinged)
  BY <1>1 DEF EvaluatedOK, SuggestionUsable
<1>2. ASSUME NEW A \in Enumerations, Evaluate(A) PROVE EvaluatedOK'
  <2>1. best.ip \in Ip /\ best.ip \in Nat /\ best.ip # None /\ A \subseteq Address
    BY <1>2, IpAssumption, NoneAssumption, EnumeratedAddresses DEF Evaluate, EvidenceOK
  <2>2. evaluated' = best.ip /\ enumerated' = A /\ pinged' = pinged /\ pinged = None
    BY <1>2 DEF Evaluate, EvaluatedOK
  <2>3. CASE Reachable(best.ip, A)
    <3>1. local' = None
      BY <1>2, <2>3 DEF Evaluate
    <3>. QED BY <2>1, <2>2, <2>3, <3>1 DEF EvaluatedOK, SuggestionUsable
  <2>4. CASE ~Reachable(best.ip, A)
    <3>1. local' = suggestLocalAddress(best.ip, A)
      BY <1>2, <2>4 DEF Evaluate
    <3>2. /\ local' \in Nat
          /\ sameSubnet(local', best.ip, 24)
          /\ local' \notin {best.ip, networkOf(local', 24), broadcastOf(local', 24)}
          /\ \A a \in A : ~sameSubnet(local', a.ip, IF a.prefix < 24 THEN a.prefix ELSE 24)
      BY <2>1, <2>4, <3>1, SuggestedUsable
    <3>3. local' # None /\ local' # NoAddress
      BY <3>2, NoneAssumption
    <3>. QED BY <2>1, <2>2, <3>2, <3>3 DEF EvaluatedOK, SuggestionUsable, AssumedPrefix
  <2>. QED BY <2>3, <2>4
<1>. QED BY <1>1, <1>2, StepEngine DEF Ping, Evaluates

LEMMA EvaluatedInit == Init => EvaluatedOK
BY DEF Init, EvaluatedOK, SuggestionUsable, Enumerations

LEMMA EvaluatedAlways == Spec => []EvaluatedOK
BY EvidenceInit, EvidenceStep, EvaluatedInit, EvaluatedStep, PTL DEF Spec

\* For every device and whatever an enumeration finds, the search ends with an
\* address of the device's /24 that is neither the device's nor in a subnet of
\* any address that was enumerated.
THEOREM SuggestionAlwaysUsable == Spec => []SuggestionUsable
<1>1. EvaluatedOK => SuggestionUsable
  BY DEF EvaluatedOK
<1>. QED BY <1>1, EvaluatedAlways, PTL

-----------------------------------------------------------------------------
(* The candidate's machine *)

\* The candidate stays with its machine.
LEMMA BestStays ==
  ASSUME EvidenceOK, NamesOK, NamesKept, [Next]_vars
  PROVE  /\ best # None => best' # None /\ best'.mac = best.mac
         /\ best' = best \/ best' \in Candidate
<1>1. ASSUME NEW m \in Mac, NEW i \in Ip, NEW s \in Source, NEW name \in Hostname \union {None},
             RecordIp(m, i, s, name)
      PROVE  /\ best # None => best' # None /\ best'.mac = best.mac
             /\ best' = best \/ best' \in Candidate
  <2>. DEFINE names == NamesAtFirst(m, Named(m, name), Noted(m, name))
              source == bestDiscoverySource(evidence[m][i] \union {s})
              hostname == IF names[m] = <<>> THEN None ELSE Head(names[m])
              c == [mac |-> m, ip |-> i, source |-> source, hostname |-> hostname]
  <2>1. source \in Source
    BY BestSource DEF EvidenceOK
  <2>2. hostname \in Hostname \union {None}
    <3>1. names[m] \in Seq(Hostname)
      <4>1. Noted(m, name) \in [Mac -> Hostname \union {None}] /\ Named(m, name) \in [Mac -> Seq(Hostname)]
        BY NamedKeeps
      <4>2. \A n \in Hostname : <<n>> \in Seq(Hostname)
        OBVIOUS
      <4>. QED BY <4>1, <4>2 DEF NamesAtFirst
    <3>. HIDE DEF names
    <3>2. CASE names[m] = <<>>
      BY <3>2
    <3>3. CASE names[m] # <<>>
      BY <3>1, <3>3
    <3>. QED BY <3>2, <3>3
  <2>3. c \in Candidate /\ c # None
    <3>. HIDE DEF source, hostname
    <3>1. c \in Candidate
      BY <2>1, <2>2 DEF Candidate
    <3>. QED BY <3>1, NoneAssumption
  <2>4. c.mac = m
    OBVIOUS
  <2>5. OnFound(c) \/ OnUpdated(c) \/ UNCHANGED best
    <3>1. CASE evidence[m][i] = {}
      BY <1>1, <3>1 DEF RecordIp
    <3>2. CASE evidence[m][i] # {} /\ WorthTelling(m, i, s)
      BY <1>1, <3>2 DEF RecordIp
    <3>3. CASE evidence[m][i] # {} /\ ~WorthTelling(m, i, s)
      BY <1>1, <3>3 DEF RecordIp
    <3>. QED BY <3>1, <3>2, <3>3
  <2>. HIDE DEF c
  <2>. QED BY <2>3, <2>4, <2>5 DEF OnFound, OnUpdated
<1>. QED BY <1>1, StepHears DEF Hears, NoteName

\* Evidence is never lost.
LEMMA EvidenceGrows ==
  ASSUME EvidenceOK, [Next]_vars
  PROVE  \A m \in Mac, i \in Ip : evidence[m][i] # {} => evidence'[m][i] # {}
<1>1. CASE UNCHANGED <<evidence, best>>
  BY <1>1
<1>2. ASSUME NEW m \in Mac, NEW i \in Ip, NEW s \in Source, Learns(m, i, s)
      PROVE  \A n \in Mac, k \in Ip : evidence[n][k] # {} => evidence'[n][k] # {}
  <2>1. \A n \in Mac, k \in Ip :
          evidence'[n][k] = IF n = m /\ k = i THEN evidence[n][k] \union {s} ELSE evidence[n][k]
    BY <1>2 DEF Learns, EvidenceOK
  <2>. QED BY <2>1
<1>. QED BY <1>1, <1>2, StepLearns DEF LearnsOfOthers

-----------------------------------------------------------------------------
(* The ping *)

\* What the engine has evaluated and pinged are addresses of its candidate's machine.
OfCandidate ==
  /\ evaluated # None => best # None /\ evaluated \in Ip /\ evidence[best.mac][evaluated] # {}
  /\ pinged # None =>
       /\ evaluated # None
       /\ best # None /\ pinged \in Ip /\ evidence[best.mac][pinged] # {}

LEMMA OfCandidateStep ==
  EvidenceOK /\ NamesOK /\ NamesKept /\ CandidateIsCurrent /\ OfCandidate /\ [Next]_vars => OfCandidate'
<1>. SUFFICES ASSUME EvidenceOK, NamesOK, NamesKept, CandidateIsCurrent, OfCandidate, [Next]_vars
              PROVE  OfCandidate'
  OBVIOUS
<1>1. best # None => best' # None /\ best'.mac = best.mac /\ best.mac \in Mac /\ best.ip \in Ip
                     /\ evidence[best.mac][best.ip] # {}
  BY BestStays DEF EvidenceOK, CandidateIsCurrent
<1>2. \A m \in Mac, i \in Ip : evidence[m][i] # {} => evidence'[m][i] # {}
  BY EvidenceGrows
<1>3. CASE UNCHANGED <<evaluated, pinged>>
  BY <1>1, <1>2, <1>3 DEF OfCandidate
<1>4. CASE Evaluates
  BY <1>1, <1>2, <1>4 DEF Evaluates, Evaluate, OfCandidate
<1>5. CASE Ping
  BY <1>1, <1>2, <1>5 DEF Ping, OfCandidate
<1>. QED BY <1>3, <1>4, <1>5, StepEngine

LEMMA OfCandidateAlways == Spec => [](EvidenceOK /\ NamesOK /\ NamesKept /\ OfCandidate)
<1>1. Init => NamesOK /\ NamesKept
  BY NamesInit
<1>2. Init => OfCandidate /\ CandidateIsCurrent
  BY DEF Init, OfCandidate, CandidateIsCurrent
<1>. QED BY <1>1, <1>2, EvidenceInit, EvidenceStep, NamesStep, CandidateStep, OfCandidateStep, PTL
     DEF Spec

\* A device with one address is pinged at an address that a subnet of the host
\* holds, one that was enumerated or the temporary one, and never at the
\* temporary address itself, whatever is observed meanwhile.
THEOREM PingAlwaysReaches == Spec => []PingReaches
<1>1. EvaluatedOK /\ OfCandidate /\ EvidenceOK => PingReaches
  <2>. SUFFICES ASSUME EvaluatedOK, OfCandidate, EvidenceOK, pinged # None, HasOneAddress(best.mac),
                       \A a \in enumerated : a.prefix <= AssumedPrefix
                PROVE  /\ pinged # local
                       /\ \E a \in enumerated \union
                                (IF local = None THEN {} ELSE {[ip |-> local, prefix |-> AssumedPrefix]}) :
                            sameSubnet(a.ip, pinged, a.prefix)
    BY DEF PingReaches
  <2>1. evaluated # None /\ pinged = evaluated
    BY DEF OfCandidate, HasOneAddress
  <2>2. CASE local = None
    <3>. PICK a \in enumerated : Covers(a, evaluated)
      BY <2>1, <2>2 DEF EvaluatedOK, Reachable
    <3>1. a.prefix \in 8..24
      BY EnumeratedAddresses DEF EvaluatedOK, Address, AssumedPrefix
    <3>2. a.prefix >= 24 => a.prefix = 24
      BY <3>1
    <3>3. sameSubnet(a.ip, evaluated, a.prefix)
      BY <3>2 DEF Covers, AssumedPrefix
    <3>. QED BY <2>1, <2>2, <3>3
  <2>3. CASE local # None
    <3>. DEFINE a == [ip |-> local, prefix |-> AssumedPrefix]
    <3>1. sameSubnet(a.ip, pinged, a.prefix)
      BY <2>1, <2>3 DEF EvaluatedOK, SuggestionUsable
    <3>2. pinged # local
      BY <2>1, <2>3 DEF EvaluatedOK, SuggestionUsable
    <3>. QED BY <2>3, <3>1, <3>2
  <2>. QED BY <2>2, <2>3
<1>2. Spec => [](EvidenceOK /\ EvaluatedOK /\ OfCandidate)
  BY OfCandidateAlways, EvaluatedAlways, PTL
<1>. QED BY <1>1, <1>2, PTL

-----------------------------------------------------------------------------
(* Types *)

\* The rest of the types.
TypedOK ==
  /\ \E host \in Hosts : hostIps = SelectedIps(host)
  /\ best # None => best \in Candidate
  /\ evaluated \in Ip \union {None} /\ pinged \in Ip \union {None}
  /\ count \in 0..MaxObservations

LEMMA TypedStep ==
  EvidenceOK /\ NamesOK /\ NamesKept /\ OfCandidate /\ TypedOK /\ [Next]_vars => TypedOK'
<1>. SUFFICES ASSUME EvidenceOK, NamesOK, NamesKept, OfCandidate, TypedOK, [Next]_vars
              PROVE  TypedOK'
  OBVIOUS
<1>1. best' # None => best' \in Candidate
  BY BestStays DEF TypedOK
<1>2. evaluated' \in Ip \union {None} /\ pinged' \in Ip \union {None}
  <2>1. CASE UNCHANGED <<evaluated, pinged>>
    BY <2>1 DEF TypedOK
  <2>2. CASE Evaluates
    BY <2>2 DEF Evaluates, Evaluate, EvidenceOK, TypedOK
  <2>3. CASE Ping
    <3>1. best # None => best.ip \in Ip
      BY DEF EvidenceOK
    <3>. QED BY <2>3, <3>1 DEF Ping, TypedOK, OfCandidate
  <2>. QED BY <2>1, <2>2, <2>3, StepEngine
<1>3. count' \in 0..MaxObservations
  <2>1. CASE UNCHANGED count
    BY <2>1 DEF TypedOK
  <2>2. CASE count < MaxObservations /\ count' = count + 1
    BY <2>2, BoundAssumption DEF TypedOK
  <2>. QED BY <2>1, <2>2
       DEF Next, vars, observed, ObserveArp, ObserveIpv4, ObserveDhcp, ObserveMdns, Observe,
           Evaluates, Evaluate, Ping
<1>4. UNCHANGED hostIps
  BY DEF Next, vars, observed, ObserveArp, ObserveIpv4, ObserveDhcp, ObserveMdns, Observe,
         Evaluates, Evaluate, Ping
<1>. QED BY <1>1, <1>2, <1>3, <1>4 DEF TypedOK, SelectedIps

\* Every variable keeps to its type, for any machines, addresses and hosts; the
\* engine's candidate is never the selected adapter.
THEOREM TypeCorrect == Spec => []TypeOK
<1>1. Init => TypedOK
  BY BoundAssumption DEF Init, TypedOK
<1>2. Spec => []TypedOK
  BY <1>1, TypedStep, OfCandidateAlways, PTL DEF Spec
<1>3. Spec => []ToldBest
  <2>1. Init => ToldBest
    BY DEF Init, ToldBest
  <2>2. EvidenceOK /\ ToldBest /\ [Next]_vars => ToldBest'
    BY ToldStep DEF Improves
  <2>. QED BY <2>1, <2>2, EvidenceInit, EvidenceStep, PTL DEF Spec
<1>4. Spec => []NoHostMac
  <2>1. Init => NoHostMac
    BY DEF Init, NoHostMac
  <2>. QED BY <2>1, NoHostMacStep, EvidenceInit, EvidenceStep, PTL DEF Spec
<1>5. EvidenceOK /\ NamesOK /\ NoHostMac /\ EvaluatedOK /\ TypedOK /\ ToldBest => TypeOK
  BY DEF TypeOK, EvidenceOK, NamesOK, NoHostMac, EvaluatedOK, TypedOK, ToldBest
<1>. QED BY <1>2, <1>3, <1>4, <1>5, OfCandidateAlways, EvaluatedAlways, PTL
=============================================================================
