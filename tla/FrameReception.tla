---------------------------- MODULE FrameReception ----------------------------
(***************************************************************************)
(* What the decoders make of the frames that devices send.  A frame is     *)
(* given by what its sender means; it arrives whole, or up to some cell,   *)
(* as the first fragment of a datagram does.                               *)
(***************************************************************************)
EXTENDS FrameDecoders

CONSTANT Frame  \* [link, mac, tags, body]: the frames that may be sent

VARIABLES
  sent,   \* the frame on its way
  whole,  \* it arrived whole
  seen    \* the observations it has yielded; None before

vars == <<sent, whole, seen>>

-----------------------------------------------------------------------------
(* The senders, after the standards *)

Label(l) == [k |-> "label", label |-> l]
Root == [k |-> "root"]
Labels(name) == [i \in 1..Len(name) |-> Label(name[i])]

\* A name behind the first one of the message.  A pointer counts from the start
\* of the message, whose first name begins at 1.
EncodeName(name, first, packed) ==
  CASE packed /\ name = first -> << [k |-> "pointer", to |-> 1] >>
    [] packed /\ name # first /\ Last(name) = Last(first) ->
         Append(Labels(Front(name)), [k |-> "pointer", to |-> Len(first)])
    [] OTHER -> Append(Labels(name), Root)

EncodeAnswer(a, first, packed) ==
  LET data == CASE a.type = "SRV" -> <<[k |-> "priority"]>> \o EncodeName(a.target, first, packed)
                [] a.type = "PTR" -> EncodeName(a.target, first, packed)
                [] OTHER -> << [k |-> "address", ip |-> a.ip] >>
  IN << [k |-> "rr", type |-> a.type, rdlength |-> Len(data)] >> \o data

EncodeMdns(m) ==
  LET first == IF m.questions # <<>> THEN m.questions[1] ELSE m.answers[1].owner
      Name(name, isFirst) == EncodeName(name, first, m.packed /\ ~isFirst)
  IN << [k |-> "dns", questions |-> Len(m.questions), answers |-> Len(m.answers)] >>
     \o FlattenSeq([i \in 1..Len(m.questions) |->
          Append(Name(m.questions[i], i = 1), [k |-> "question"])])
     \o FlattenSeq([i \in 1..Len(m.answers) |->
          Name(m.answers[i].owner, i = 1 /\ m.questions = <<>>)
          \o EncodeAnswer(m.answers[i], first, m.packed)])

EncodeOption(o) ==
  IF o.code \in {"pad", "end"} THEN << [k |-> o.code] >>
  ELSE << [k |-> "opt", code |-> o.code, len |-> 1], [k |-> "data", data |-> o.data] >>

\* A client asks for its address or renews it, a server assigns one.
EncodeDhcp(d) ==
  << [k |-> "bootp", cookie |-> TRUE, chaddr |-> d.client,
      ciaddr |-> IF d.as = "renew" THEN d.address ELSE Zero,
      yiaddr |-> IF d.as = "ack" THEN d.address ELSE Zero] >>
  \o FlattenSeq([i \in 1..Len(d.options) |-> EncodeOption(d.options[i])])

Udp(src, dst) == << [k |-> "udp", src |-> src, dst |-> dst] >>
Client == Udp(68, 67)
Server == Udp(67, 68)

EncodeBody(b) ==
  CASE b.kind = "arp" ->
         << [k |-> "arp", ethernetIpv4 |-> TRUE, operation |-> b.operation, mac |-> b.mac,
             ip |-> b.ip, target |-> b.target] >>
    [] b.kind = "ndp" ->
         << [k |-> "ip6", src |-> b.groups], [k |-> "icmp", type |-> b.type],
            [k |-> "ll", mac |-> b.mac] >>
    [] OTHER ->
         << [k |-> "ip4", ihl |-> b.ihl, src |-> b.ip,
             protocol |-> IF b.kind = "other" THEN "tcp" ELSE "udp"] >>
         \o [i \in 1..(b.ihl - 1) |-> [k |-> "ip option"]]
         \o CASE b.kind = "dhcp" -> (IF b.as = "ack" THEN Server ELSE Client) \o EncodeDhcp(b)
              [] b.kind = "mdns" -> Udp(b.port, 5353) \o EncodeMdns(b)
              [] b.kind = "other" -> << [k |-> "tcp"] >>

EtherType(b) == CASE b.kind = "arp" -> "arp" [] b.kind = "ndp" -> "ipv6" [] OTHER -> "ipv4"

Encode(f) ==
  LET type(i) == IF i <= f.tags THEN "vlan" ELSE EtherType(f.body) IN
  << [k |-> "eth", src |-> f.mac, type |-> type(1)] >>
  \o [i \in 1..f.tags |-> [k |-> "tag", type |-> type(i + 1)]]
  \o EncodeBody(f.body)

\* What the standards ask of a frame.  An option is told once, the padding
\* apart, and none behind the end; the address that a client asks for, renews or
\* is given is one.
IsSequence(s) == s \in Seq(Range(s))

WellFormedArp(b) == b.operation \in {"request", "reply"}
WellFormedNdp(b) ==
  b.type \in {"solicitation", "advertisement"} /\ b.groups \in [1..8 -> STRING \ {"::"}]
WellFormedDhcp(d) ==
  LET Code(i) == d.options[i].code IN
  /\ IsSequence(d.options)
  /\ \A i, j \in 1..Len(d.options) : i < j =>
       /\ Code(i) = Code(j) => Code(i) = "pad"
       /\ Code(i) = "end" => Code(j) = "pad"
  /\ \A i \in 1..Len(d.options) : Code(i) = "requested-ip" => d.options[i].data = d.address
  /\ d.as \in {"ask", "renew", "ack"}
  /\ IF d.as = "ask"
     THEN (\A i \in 1..Len(d.options) : Code(i) # "requested-ip") => d.address = None
     ELSE d.address # Zero
WellFormedMdns(m) ==
  /\ m.packed \in BOOLEAN
  /\ IsSequence(m.questions) /\ \A i \in 1..Len(m.questions) : IsSequence(m.questions[i])
  /\ IsSequence(m.answers)
  /\ \A i \in 1..Len(m.answers) :
       LET a == m.answers[i] IN
       /\ IsSequence(a.owner)
       /\ a.type \in {"A", "AAAA", "TXT", "PTR", "SRV"}
       /\ a.type \in {"PTR", "SRV"} => IsSequence(a.target)

WellFormed(f) ==
  LET b == f.body IN
  /\ f.tags \in Nat
  /\ \/ b.kind = "arp" /\ WellFormedArp(b)
     \/ b.kind = "ndp" /\ WellFormedNdp(b)
     \/ b.kind = "dhcp" /\ WellFormedDhcp(b)
     \/ b.kind = "mdns" /\ WellFormedMdns(b)
     \/ b.kind = "other"
  /\ b.kind \notin {"arp", "ndp"} => b.ihl \in Nat \ {0}

ASSUME FrameAssumption == \A f \in Frame : WellFormed(f)

\* The first n cells, and perhaps a part of the next one.
Part(cell) == [k |-> "partial", code |-> IF cell.k = "opt" THEN cell.code ELSE None]
Cut(cells, n, partial) ==
  SubSeq(cells, 1, n) \o IF partial THEN << Part(cells[n + 1]) >> ELSE <<>>

-----------------------------------------------------------------------------
Init == sent = None /\ whole = TRUE /\ seen = None

Send ==
  /\ sent = None
  /\ sent' \in Frame
  /\ UNCHANGED <<whole, seen>>

Receive ==
  /\ sent # None /\ seen = None
  /\ seen' = extractObservations(sent.link, Encode(sent))
  /\ UNCHANGED <<sent, whole>>

ReceiveCut ==
  /\ sent # None /\ seen = None
  /\ whole' = FALSE
  /\ \E n \in 0..(Len(Encode(sent)) - 1), partial \in BOOLEAN :
       seen' = extractObservations(sent.link, Cut(Encode(sent), n, partial))
  /\ UNCHANGED sent

Observed ==
  /\ seen \notin {None, Endless}
  /\ sent' = None /\ whole' = TRUE /\ seen' = None

Next == Send \/ Receive \/ ReceiveCut \/ Observed

Spec == Init /\ [][Next]_vars

-----------------------------------------------------------------------------
(* Properties *)

\* The full form of a displayed IPv6 address.
Expanded(ip) ==
  LET gaps == {i \in 1..Len(ip) : ip[i] = "::"}
      i == CHOOSE g \in gaps : TRUE
  IN IF gaps = {} THEN ip
     ELSE SubSeq(ip, 1, i - 1) \o [j \in 1..(9 - Len(ip)) |-> "0"] \o SubSeq(ip, i + 1, Len(ip))

Fact(kind, mac, ip, name, as) == [kind |-> kind, mac |-> mac, ip |-> ip, name |-> name, as |-> as]

\* What a client or server tells under a code.
Told(d, code) ==
  LET hits == {i \in 1..Len(d.options) : d.options[i].code = code}
  IN IF hits = {} THEN None ELSE d.options[Min(hits)].data

\* What a responder says: the name and address of its first address record,
\* without one the owner of its first record of a service or host.
Host(b) ==
  LET OfType(T) == {i \in 1..Len(b.answers) : b.answers[i].type \in T}
      address == OfType({"A"})
      service == OfType({"AAAA", "PTR", "SRV"})
  IN CASE address # {} ->
            [ip |-> b.answers[Min(address)].ip, name |-> b.answers[Min(address)].owner]
       [] address = {} /\ service # {} ->
            [ip |-> None, name |-> b.answers[Min(service)].owner]
       [] OTHER -> [ip |-> None, name |-> None]

\* What a sender says with a frame, in the order the observer hears it.
Meaning(f) ==
  LET b == f.body
  IN CASE f.link # "ethernet" \/ f.tags > MaxVlanTags -> <<>>
       [] f.link = "ethernet" /\ f.tags <= MaxVlanTags ->
            CASE b.kind = "arp" ->
                   << Fact("arp", b.mac, b.ip, None,
                           <<b.operation, b.ip # Zero /\ b.ip = b.target>>) >>
              [] b.kind = "ndp" -> << Fact("ndp", b.mac, b.groups, None, b.type) >>
              [] b.kind = "dhcp" ->
                   << Fact("ipv4", f.mac, b.ip, None, None),
                      Fact("dhcp", b.client, b.address, Told(b, "hostname"),
                           Told(b, "message-type")) >>
              [] b.kind = "mdns" ->
                   << Fact("ipv4", f.mac, b.ip, None, None),
                      Fact("mdns", f.mac, Host(b).ip, Host(b).name, None) >>
              [] b.kind = "other" -> << Fact("ipv4", f.mac, b.ip, None, None) >>

Read(o) == IF o.kind = "ndp" THEN [o EXCEPT !.ip = Expanded(@)] ELSE o
Packed(f) == f.body.kind = "mdns" /\ f.body.packed

\* A whole frame yields what its sender said, whatever tags and header options
\* come before it and in whatever order its options, questions and records
\* stand: the same addresses under the same names, for the same machine.  In
\* particular no loop of a decoder goes on for ever.  A name with pointers is
\* excepted (see NamesAsSent).
DecodesWhatWasSent ==
  sent # None /\ seen # None /\ whole /\ ~Packed(sent) =>
    Meaning(sent) = [i \in 1..Len(seen) |-> Read(seen[i])]

\* A frame that is cut yields less, and nothing that its sender did not say: no
\* address, name or machine comes from a field that is not there.  A host name
\* of which only the code came is empty, which the observer takes for none.
CutFramesInventNothing ==
  sent # None /\ seen # None /\ ~whole /\ ~Packed(sent) =>
    \A i \in 1..Len(seen) :
      LET o == Read(seen[i]) IN
      /\ i <= Len(Meaning(sent))
      /\ LET said == Meaning(sent)[i] IN
         /\ o.kind = said.kind /\ o.mac = said.mac
         /\ o.ip \in {None, said.ip}
         /\ o.name \in {None, said.name} \union
              CASE o.kind = "dhcp" -> {""}
                [] o.kind = "mdns" -> ToSet([n \in 1..Len(sent.body.answers) |->
                                               sent.body.answers[n].owner])
                [] OTHER -> {}

\* A compressed name is the name that was sent (mdns.ts: "Parses a (possibly
\* compressed) DNS name").
NamesAsSent ==
  sent # None /\ seen # None /\ whole =>
    Meaning(sent) = [i \in 1..Len(seen) |-> Read(seen[i])]
=============================================================================
