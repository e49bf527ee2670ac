--------------------------- MODULE MCFrameReception ---------------------------
(* A network with one device, a proxy for it, and a DHCP server. *)
EXTENDS FrameReception

CONSTANTS
  Device, Other,     \* MAC addresses
  Ip, Ip2,           \* IPv4 addresses
  PackedNames,       \* whether senders of mDNS compress their names
  MaxAnswers         \* bound: records of an mDNS message

Cam == <<"cam", "local">>
Nas == <<"nas", "local">>
Service == <<"_http", "local">>

Arp == [kind : {"arp"}, operation : {"request", "reply"}, mac : {Device, Other},
        ip : {Zero, Ip}, target : {Zero, Ip, Ip2}]
Ndp == [kind : {"ndp"}, type : {"solicitation", "advertisement"}, mac : {Device},
        groups : [1..8 -> {"0", "1"}]]
Plain == [kind : {"other"}, ihl : {1, 3}, ip : {Ip}]

OptionSeq(data) ==
  {s \in UNION {[1..n -> DOMAIN data \union {"pad"}] : n \in 0..4} :
     \A i, j \in DOMAIN s : s[i] = s[j] => i = j \/ s[i] = "pad"}
End == {<<>>, <<"end">>, <<"end", "pad">>}
Dhcp(as, data) ==
  {[kind |-> "dhcp", as |-> as, ihl |-> ihl, ip |-> IF as = "ask" THEN Zero ELSE Ip2,
    client |-> Device,
    address |-> IF as = "ask" /\ ~Contains(s, "requested-ip") THEN None ELSE Ip,
    options |-> [i \in DOMAIN (s \o e) |->
                   IF (s \o e)[i] \in DOMAIN data
                   THEN [code |-> (s \o e)[i], data |-> data[(s \o e)[i]]]
                   ELSE [code |-> (s \o e)[i]]]] :
     s \in OptionSeq(data), e \in End, ihl \in {1, 2}}
ClientData == "message-type" :> "request" @@ "hostname" :> "cam"
ServerData == "message-type" :> "ack"
Asks == Dhcp("ask", ClientData @@ "requested-ip" :> Ip)

Answer ==
  {[type |-> "A", owner |-> Cam, ip |-> Ip], [type |-> "A", owner |-> Nas, ip |-> Ip2],
   [type |-> "AAAA", owner |-> Cam, ip |-> Ip], [type |-> "TXT", owner |-> Service, ip |-> Ip],
   [type |-> "PTR", owner |-> Service, target |-> Cam],
   [type |-> "SRV", owner |-> Service, target |-> Nas]}
Mdns ==
  {m \in [kind : {"mdns"}, ihl : {1}, ip : {Ip}, port : {5353, 5000}, packed : PackedNames,
          questions : UNION {[1..n -> {Cam, Service}] : n \in 0..2},
          answers : UNION {[1..n -> Answer] : n \in 0..MaxAnswers}] :
     Len(m.questions) + Len(m.answers) \in 1..3}

Sent(mac, link, tags, bodies) ==
  [mac : {mac}, link : link, tags : tags, body : bodies]
MCFrame ==
  Sent(Device, {"ethernet", "raw"}, 0..3, Arp \union Plain)
  \union Sent(Device, {"ethernet"}, {0}, Ndp)
  \union Sent(Device, {"ethernet"}, {0, 2}, Asks \union Dhcp("renew", ClientData))
  \union Sent(Other, {"ethernet"}, {0, 2}, Dhcp("ack", ServerData))
  \union Sent(Device, {"ethernet"}, {0, 1}, Mdns)
=============================================================================
