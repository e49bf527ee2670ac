---------------------------- MODULE CaptureStream ----------------------------
(***************************************************************************)
(* CaptureStreamParser with its two formats: what tcpdump or dumpcap       *)
(* writes, cut into chunks anywhere, is turned back into frames.           *)
(*                                                                         *)
(* A stream is a sequence of blocks of real sizes; of their bytes only     *)
(* what decides the parser's way is kept.                                  *)
(***************************************************************************)
EXTENDS Integers, Sequences, FiniteSets

\* "header" and "record" make up a classic stream, the others a pcapng one:
\* section header, interface description, enhanced and simple packet.
Kind == {"header", "record", "SHB", "IDB", "EPB", "SPB", "other"}
Order == {"le", "be"}

\* order: its byte order, "neither" for a magic number that is none.
\* dlt: the link type that a header or an IDB declares, 1 for Ethernet.
\* iface: the interface that an EPB names.
\* fits: the packet's captured length stays within its block.
Block == [kind : Kind, size : Nat, order : Order \union {"neither"}, dlt : Nat, iface : Nat,
          fits : BOOLEAN]

ClassicHeaderBytes == 24
ClassicRecordHeaderBytes == 16
MinBlockBytes == 12

\* The parser between two chunks.
Fresh ==
  [format |-> "unknown",  \* which of the two parsers has been created
   order |-> "le",        \* #byteOrder
   started |-> FALSE,     \* #sectionStarted; classic: the header has been read
   dlts |-> <<>>,         \* #interfaces; classic: #linkType
   next |-> 1,            \* the block that the buffer begins with
   buffered |-> 0,        \* bytes in the buffer
   stuck |-> FALSE,       \* draining has come to an end
   frames |-> <<>>]       \* what onFrame was given

\* The first byte decides: a section header begins with 0x0a in both orders.
Format(b) == IF b.kind = "SHB" THEN "pcapng" ELSE "classic"

Frame(i, dlt) == [block |-> i, ethernet |-> dlt = 1]

Consume(p, b) == [p EXCEPT !.next = @ + 1, !.buffered = @ - b.size]
Stop(p) == [p EXCEPT !.stuck = TRUE]

\* The block is in the buffer as a whole.  Its length is read in the current
\* byte order; swapped, it is longer than any buffer.
Present(p, b) == p.order = b.order /\ p.buffered >= MinBlockBytes /\ p.buffered >= b.size

\* Mutant: the interfaces of an earlier section survive.
ForgetNoInterfaces(p) == p.dlts
ForgetInterfaces(p) == <<>>

\* The link type of interface id, of which interface 0 is the first; 0 if it
\* has not been described.
LinkType(p, id) == IF id + 1 \in DOMAIN p.dlts THEN p.dlts[id + 1] ELSE 0

\* One turn of the loop in PcapngParser's drain, for block b.
PcapngBlock(p, b) ==
  IF ~Present(p, b) THEN Stop(p)
  ELSE CASE b.kind = "SHB" ->
              Consume([p EXCEPT !.started = TRUE, !.dlts = ForgetInterfaces(p)], b)
         [] b.kind = "IDB" /\ p.started -> Consume([p EXCEPT !.dlts = Append(@, b.dlt)], b)
         [] b.kind = "EPB" /\ p.started ->
              IF b.fits
              THEN Consume([p EXCEPT !.frames = Append(@, Frame(p.next, LinkType(p, b.iface)))], b)
              ELSE Stop(p)
         [] b.kind = "SPB" /\ p.started ->
              Consume([p EXCEPT !.frames = Append(@, Frame(p.next, LinkType(p, 0)))], b)
         [] OTHER -> Consume(p, b)

\* The same for ClassicPcapParser.  An unknown magic number throws, and does
\* so again at every chunk.
ClassicBlock(p, b) ==
  IF ~p.started
  THEN IF p.buffered < ClassicHeaderBytes \/ b.order = "neither" THEN Stop(p)
       ELSE Consume([p EXCEPT !.started = TRUE, !.order = b.order, !.dlts = <<b.dlt>>], b)
  ELSE IF p.buffered < ClassicRecordHeaderBytes \/ p.buffered < b.size THEN Stop(p)
       ELSE Consume([p EXCEPT !.frames = Append(@, Frame(p.next, p.dlts[1]))], b)

Parse(p, b) ==
  IF p.stuck THEN p
  ELSE IF p.format = "pcapng" THEN PcapngBlock(p, b) ELSE ClassicBlock(p, b)

\* push() of a chunk of n > 0 bytes of the stream.
Push(p, stream, n) ==
  LET q == [p EXCEPT !.format = IF @ = "unknown" THEN Format(stream[1]) ELSE @,
                     !.buffered = @ + n]
      drained[i \in 0..Len(stream)] ==
        IF i < q.next THEN q ELSE Parse(drained[i - 1], stream[i])
  IN [drained[Len(stream)] EXCEPT !.stuck = FALSE]

-----------------------------------------------------------------------------
(* What the stream says, by its definition. *)

SizeUpTo(stream, i) ==
  LET size[k \in 0..Len(stream)] == IF k = 0 THEN 0 ELSE size[k - 1] + stream[k].size
  IN size[i]
StreamBytes(stream) == SizeUpTo(stream, Len(stream))

\* The descriptions of interfaces before block i, in its section.
Described(stream, i) ==
  {j \in 1..(i - 1) : /\ stream[j].kind \in {"IDB", "header"}
                      /\ \A k \in (j + 1)..(i - 1) : stream[k].kind # "SHB"}

\* Interfaces are numbered in the order of their descriptions, from 0.
Number(stream, i, j) == Cardinality({k \in Described(stream, i) : k < j})

InterfaceOf(b) == IF b.kind = "EPB" THEN b.iface ELSE 0

\* Is packet i an Ethernet frame?
IsEthernet(stream, i) ==
  \E j \in Described(stream, i) :
    Number(stream, i, j) = InterfaceOf(stream[i]) /\ stream[j].dlt = 1

IsPacket(b) == b.kind \in {"record", "EPB", "SPB"}

\* The packets whose last byte is among the first n.
PacketsWithin(stream, n) ==
  {i \in DOMAIN stream : IsPacket(stream[i]) /\ SizeUpTo(stream, i) <= n}

\* The least that a block can be read from.
LeastBytes(b) ==
  CASE b.kind = "header" -> ClassicHeaderBytes
    [] b.kind = "record" -> ClassicRecordHeaderBytes
    [] OTHER -> MinBlockBytes

\* Well formed and, if it is a pcapng stream, in the order the parser begins with.
Understood(stream) ==
  \A i \in DOMAIN stream :
    /\ stream[i].fits /\ stream[i].order # "neither"
    /\ stream[i].size >= LeastBytes(stream[i])
    /\ stream[1].kind = "SHB" => stream[i].order = "le"

\* A stream of one of the two formats.
WellBegun(stream) ==
  /\ stream \in Seq(Block) /\ stream # <<>>
  /\ \/ /\ stream[1].kind = "header" /\ stream[1].size = ClassicHeaderBytes
        /\ \A i \in 2..Len(stream) : stream[i].kind = "record"
     \/ /\ stream[1].kind = "SHB"
        /\ \A i \in 2..Len(stream) : stream[i].kind \in {"SHB", "IDB", "EPB", "SPB", "other"}
=============================================================================
