--------------------------- MODULE MCPacketCapture ---------------------------
(* Instances of PacketCapture for TLC: small streams of blocks with their   *)
(* real sizes.                                                              *)
EXTENDS PacketCapture

Packet(kind, size, order) ==
  [kind |-> kind, size |-> size, order |-> order, dlt |-> 0, iface |-> 0, fits |-> TRUE]

Section(order) == Packet("SHB", 28, order)
Interface(order, dlt) == [Packet("IDB", 20, order) EXCEPT !.dlt = dlt]
Enhanced(order, iface) == [Packet("EPB", 36, order) EXCEPT !.iface = iface]
ClassicHeader(order, dlt) == [Packet("header", 24, order) EXCEPT !.dlt = dlt]

\* dumpcap: two interfaces, then a section with one of another link type.
TwoSections ==
  <<Section("le"), Interface("le", 1), Interface("le", 113), Enhanced("le", 1), Enhanced("le", 0),
    Section("le"), Interface("le", 113), Enhanced("le", 0)>>

\* A packet before any description, and a block the parser does not know.
NoInterface == <<Section("le"), Packet("SPB", 16, "le"), Packet("other", 12, "le"),
                 Interface("le", 1), Packet("SPB", 20, "le")>>

\* A packet whose captured length leaves its block, and one after it.
Malformed == <<Section("le"), Interface("le", 1),
               [Enhanced("le", 0) EXCEPT !.fits = FALSE], Enhanced("le", 0)>>

\* A second section in the other byte order.
OtherOrder == <<Section("le"), Interface("le", 1), Enhanced("le", 0),
                Section("be"), Interface("be", 1), Enhanced("be", 0)>>

\* tcpdump, on machines of either byte order.
Classic(order) == <<ClassicHeader(order, 1), Packet("record", 20, order), Packet("record", 16, order)>>

\* Output of something else.
NoCapture == <<ClassicHeader("neither", 0), Packet("record", 16, "le")>>

AllStreams == {TwoSections, NoInterface, Malformed, OtherOrder, Classic("le"), Classic("be"), NoCapture}
=============================================================================
