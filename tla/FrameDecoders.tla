---------------------------- MODULE FrameDecoders ----------------------------
(***************************************************************************)
(* The decoders: from a captured Ethernet frame to the observations it     *)
(* yields.  A frame is a sequence of cells.  A cell is a field, or a       *)
(* header that is only read as a whole, under its kind k; offsets, the     *)
(* targets of DNS pointers among them, count cells.  A frame may be cut    *)
(* short anywhere; a cell that is not whole has the kind "partial", and of *)
(* an option its code, which comes first.  A header that is decoded is the *)
(* only element of a sequence, which is empty where the code has undefined.*)
(***************************************************************************)
EXTENDS Naturals, Sequences, SequencesExt

CONSTANTS
  Zero,  \* 0.0.0.0
  Junk,  \* what bytes that are no label are read as
  None   \* undefined

MaxVlanTags == 2

\* buf.length suffices, and the header is one that the decoder takes.
Holds(buf, c, kind) == c <= Len(buf) /\ buf[c].k = kind

NonZero(ip) == IF ip = Zero THEN None ELSE ip
OrElse(a, b) == IF a # None THEN a ELSE b
First(s) == IF s = <<>> THEN None ELSE s[1]

-----------------------------------------------------------------------------
(* Ethernet, ARP, IPv4, UDP *)

\* Where the payload begins: past the tags that are skipped.
decodeEthernet(buf) ==
  LET Vlan(i) == i <= Len(buf) /\ buf[i].k \in {"eth", "tag"} /\ buf[i].type = "vlan"
      n == CHOOSE m \in 0..MaxVlanTags :
             (\A i \in 1..m : Vlan(i)) /\ (m = MaxVlanTags \/ ~Vlan(m + 1))
  IN IF n < Len(buf) /\ buf[n + 1].k # "partial"
     THEN << [src |-> buf[1].src, type |-> buf[n + 1].type, payload |-> n + 2] >>
     ELSE <<>>

gratuitous(arp) == arp.ip = arp.target /\ arp.ip # Zero

decodeArp(buf, o) ==
  IF Holds(buf, o, "arp") /\ buf[o].ethernetIpv4
  THEN << [mac |-> buf[o].mac, ip |-> buf[o].ip, gratuitous |-> gratuitous(buf[o]),
           operation |-> buf[o].operation] >>
  ELSE <<>>

\* Mutant: the options of the header are taken for its payload.
payloadWithoutOptions(ip4, o) == o + 1
payloadOf(ip4, o) == o + ip4.ihl

\* ihl counts the header and its options.
decodeIpv4(buf, o) ==
  IF /\ Holds(buf, o, "ip4") /\ buf[o].ihl >= 1
     /\ Len(buf) >= o + buf[o].ihl - 1 /\ ~Holds(buf, o + buf[o].ihl - 1, "partial")
  THEN << [src |-> buf[o].src, protocol |-> buf[o].protocol,
           payload |-> payloadOf(buf[o], o)] >>
  ELSE <<>>

decodeUdp(buf, o) ==
  IF Holds(buf, o, "udp")
  THEN << [src |-> buf[o].src, dst |-> buf[o].dst, payload |-> o + 1] >>
  ELSE <<>>

-----------------------------------------------------------------------------
(* IPv6 and neighbour discovery *)

\* The longest run of zero groups, the first of them, if there are two or more,
\* becomes "::".
compressIpv6(groups) ==
  LET Runs == {r \in (1..Len(groups)) \X (2..Len(groups)) :
                 r[1] + r[2] - 1 <= Len(groups) /\ \A i \in 0..(r[2] - 1) : groups[r[1] + i] = "0"}
      best == CHOOSE r \in Runs : \A q \in Runs : q[2] < r[2] \/ (q[2] = r[2] /\ q[1] >= r[1])
  IN IF Runs = {} THEN groups
     ELSE SubSeq(groups, 1, best[1] - 1) \o <<"::">> \o
          SubSeq(groups, best[1] + best[2], Len(groups))

\* The first payload byte counts as the ICMPv6 type, whatever the next header.
extractNdp(buf, o) ==
  IF /\ Holds(buf, o, "ip6")
     /\ Holds(buf, o + 1, "icmp") /\ buf[o + 1].type \in {"solicitation", "advertisement"}
     /\ Holds(buf, o + 2, "ll")
  THEN << [kind |-> "ndp", mac |-> buf[o + 2].mac, ip |-> compressIpv6(buf[o].src),
           name |-> None, as |-> buf[o + 1].type] >>
  ELSE <<>>

-----------------------------------------------------------------------------
(* DHCP *)

\* The options whose data is kept.
KeptOptions == {"message-type", "hostname", "requested-ip"}

\* One iteration of the loop over the options; the last of several counts.  A
\* length that is cut off counts as zero, and that option is the last.
OptionStep(buf, w) ==
  LET c == w.cursor IN
  CASE Holds(buf, c, "pad") -> [w EXCEPT !.cursor = c + 1]
    [] Holds(buf, c, "opt") /\ buf[c].len = 0 ->
         [w EXCEPT !.cursor = c + 1,
                   !.kept["hostname"] = IF buf[c].code = "hostname" THEN "" ELSE @]
    [] Holds(buf, c, "opt") /\ buf[c].len > 0 /\ Holds(buf, c + 1, "data") ->
         [w EXCEPT !.cursor = c + 2, !.kept[buf[c].code] = buf[c + 1].data]
    [] Holds(buf, c, "partial") ->
         [w EXCEPT !.st = "done",
                   !.kept["hostname"] = IF buf[c].code = "hostname" THEN "" ELSE @]
    [] OTHER -> [w EXCEPT !.st = "done"]

\* The options from cell c on: up to the end, or to one that is cut.
ReadOptions(buf, c) ==
  LET read[n \in 0..(Len(buf) + 1)] ==
        IF n = 0
        THEN [st |-> "reading", cursor |-> c, kept |-> [code \in KeptOptions |-> None]]
        ELSE LET w == read[n - 1] IN IF w.st = "reading" THEN OptionStep(buf, w) ELSE w
  IN read[Len(buf) + 1].kept

decodeDhcp(buf, o) ==
  IF Holds(buf, o, "bootp") /\ buf[o].cookie
  THEN LET kept == ReadOptions(buf, o + 1) IN
       << [clientMac |-> buf[o].chaddr,
           ciaddr |-> NonZero(buf[o].ciaddr), yiaddr |-> NonZero(buf[o].yiaddr),
           messageType |-> kept["message-type"], hostname |-> kept["hostname"],
           requestedIp |-> kept["requested-ip"]] >>
  ELSE <<>>

-----------------------------------------------------------------------------
(* mDNS *)

\* A name ends behind its first pointer.
AfterName(w) == OrElse(w.end, w.cursor + 1)

\* The cell a pointer leads to: it counts from the start of the frame.
PointerTarget(pointer) == pointer.to + 1

\* One iteration of the loop over labels and pointers.  Beyond the end the
\* bytes count as zero, which is the end of a name; header bytes are Junk.  A
\* pointer that is cut leads to some name, which is dropped with the question or
\* record that is not there behind it.
NameStep(buf, w) ==
  CASE w.cursor > Len(buf) \/ Holds(buf, w.cursor, "root") ->
         [w EXCEPT !.st = "done", !.end = AfterName(w)]
    [] Holds(buf, w.cursor, "pointer") ->
         [w EXCEPT !.cursor = PointerTarget(buf[w.cursor]), !.end = OrElse(@, w.cursor + 1)]
    [] Holds(buf, w.cursor, "label") ->
         [w EXCEPT !.labels = Append(@, buf[w.cursor].label), !.cursor = @ + 1]
    [] Holds(buf, w.cursor, "partial") -> [w EXCEPT !.st = "undefined"]
    [] OTHER ->
         [w EXCEPT !.labels = Append(@, Junk), !.st = "done", !.end = AfterName(w)]

\* The loop has no bound.  Whoever has made more steps than there are cells has
\* come back to a cell, and goes round for ever: st stays "reading".
parseDnsName(buf, offset) ==
  LET walk[n \in 0..(Len(buf) + 2)] ==
        IF n = 0
        THEN [st |-> "reading", cursor |-> offset, labels |-> <<>>, end |-> None]
        ELSE LET w == walk[n - 1] IN IF w.st = "reading" THEN NameStep(buf, w) ELSE w
  IN walk[Len(buf) + 2]

\* Where the next question or, behind the last one, the first answer begins.
QuestionStep(buf, w) ==
  LET q == parseDnsName(buf, w.cursor) IN
  IF q.st = "done" /\ Holds(buf, q.end, "question")
  THEN [w EXCEPT !.cursor = q.end + 1]
  ELSE [w EXCEPT !.st = IF q.st = "reading" THEN "reading" ELSE "undefined"]

\* Mutant: a record's data may reach beyond the end.
UncheckedData(buf, rr) == TRUE
\* The data of the record at cell rr is there.
HasData(buf, rr) == \A i \in rr..(rr + buf[rr].rdlength) : i <= Len(buf) /\ buf[i].k # "partial"

\* What is beyond the end counts as zero.
bytesToIpv4(buf, c) == IF Holds(buf, c, "address") THEN buf[c].ip ELSE Zero

\* One answer.
AnswerStep(buf, w) ==
  LET owner == parseDnsName(buf, w.cursor)
      rr == owner.end
      data == rr + 1
      target == parseDnsName(buf, data + 1)
      Next(names) == [w EXCEPT !.cursor = data + buf[rr].rdlength, !.names = @ \o names]
  IN IF owner.st = "reading" THEN [w EXCEPT !.st = "reading"]
     ELSE IF owner.st = "undefined" \/ ~Holds(buf, rr, "rr") \/ ~HasData(buf, rr)
     THEN [w EXCEPT !.st = "done"]
     ELSE CASE buf[rr].type = "A" /\ buf[rr].rdlength = 1 ->
                 [Next(<<owner.labels>>) EXCEPT
                    !.a = Append(@, [name |-> owner.labels, ip |-> bytesToIpv4(buf, data)])]
            [] buf[rr].type = "SRV" ->
                 [Next(<<owner.labels>> \o IF target.st = "done" THEN <<target.labels>> ELSE <<>>)
                  EXCEPT !.st = IF target.st = "reading" THEN "reading" ELSE @]
            [] buf[rr].type \in {"PTR", "AAAA"} -> Next(<<owner.labels>>)
            [] OTHER -> Next(<<>>)

\* Both loops; a loop that is over, or never will be, goes no further.
decodeMdns(buf, o) ==
  IF ~Holds(buf, o, "dns") THEN [st |-> "undefined"]
  ELSE LET qd == buf[o].questions
           loop[n \in 0..(qd + buf[o].answers)] ==
             IF n = 0
             THEN [st |-> "more", cursor |-> o + 1, a |-> <<>>, names |-> <<>>]
             ELSE LET w == loop[n - 1] IN
                  CASE w.st # "more" -> w
                    [] w.st = "more" /\ n <= qd -> QuestionStep(buf, w)
                    [] OTHER -> AnswerStep(buf, w)
       IN loop[qd + buf[o].answers]

-----------------------------------------------------------------------------
(* The extractor *)

IsDhcp(udp) == {udp.src, udp.dst} = {67, 68}

extractDhcp(dhcp) ==
  << [kind |-> "dhcp", mac |-> dhcp.clientMac,
      ip |-> OrElse(dhcp.requestedIp, OrElse(dhcp.ciaddr, dhcp.yiaddr)),
      name |-> dhcp.hostname, as |-> dhcp.messageType] >>

extractMdns(mac, mdns) ==
  LET a == mdns.a
  IN << [kind |-> "mdns", mac |-> mac, ip |-> IF a # <<>> THEN a[1].ip ELSE None,
         name |-> IF a # <<>> THEN a[1].name ELSE First(mdns.names), as |-> None] >>

\* In the place of observations: the decoder is in its loop for ever.
Endless == << [kind |-> "endless"] >>

extractIpv4(buf, mac, o) ==
  LET ip == decodeIpv4(buf, o)
      udp == IF ip # <<>> /\ ip[1].protocol = "udp" THEN decodeUdp(buf, ip[1].payload) ELSE <<>>
      dhcp == IF udp # <<>> /\ IsDhcp(udp[1]) THEN decodeDhcp(buf, udp[1].payload) ELSE <<>>
      mdns == IF udp # <<>> /\ 5353 \in {udp[1].src, udp[1].dst}
              THEN decodeMdns(buf, udp[1].payload) ELSE [st |-> "undefined"]
  IN IF mdns.st = "reading" THEN Endless
     ELSE (IF ip = <<>> THEN <<>>
           ELSE << [kind |-> "ipv4", mac |-> mac, ip |-> ip[1].src, name |-> None,
                    as |-> None] >>)
          \o (IF dhcp = <<>> THEN <<>> ELSE extractDhcp(dhcp[1]))
          \o (IF mdns.st = "undefined" THEN <<>> ELSE extractMdns(mac, mdns))

extractArp(arp) ==
  << [kind |-> "arp", mac |-> arp.mac, ip |-> arp.ip, name |-> None,
      as |-> <<IF arp.operation = "reply" THEN "reply" ELSE "request", arp.gratuitous>>] >>

extractObservations(linkType, buf) ==
  LET eth == decodeEthernet(buf)
      arp == decodeArp(buf, eth[1].payload)
  IN CASE linkType # "ethernet" \/ eth = <<>> -> <<>>
       [] linkType = "ethernet" /\ eth # <<>> ->
            CASE eth[1].type = "arp" -> IF arp = <<>> THEN <<>> ELSE extractArp(arp[1])
              [] eth[1].type = "ipv4" -> extractIpv4(buf, eth[1].src, eth[1].payload)
              [] eth[1].type = "ipv6" -> extractNdp(buf, eth[1].payload)
              [] OTHER -> <<>>
=============================================================================
