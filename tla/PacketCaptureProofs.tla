------------------------- MODULE PacketCaptureProofs -------------------------
(***************************************************************************)
(* Proofs about PacketCapture, for every stream of the two formats, every  *)
(* cut of it into chunks and any number of calls of stop(): the frames are *)
(* the stream's packets in their order, the capture's end is reported at   *)
(* most once, and not when it was asked for.                               *)
(*                                                                         *)
(* The parser is proved about along its own structure: what one block does *)
(* (Content, kept by PassContent), what one chunk does (PushContent, by    *)
(* induction over the blocks), what a whole session reads (ParsedAlways).  *)
(***************************************************************************)
EXTENDS PacketCapture, Recursion, FiniteSetTheorems, TLAPS

StopState == {"idle", "waiting", "closed", "nothing", "ended", "late"}

\* The calls of stop() are where they may be.
StopsType == stops \in [StopCall -> StopState] /\ stopping \in BOOLEAN

Asked == \E c \in StopCall : stops[c] # "idle"
\* A stop() came after the child's end, or has given up waiting for it.
Excused == \E c \in StopCall : stops[c] \in {"ended", "late"}

\* Until the child's end is handled, #stopping remembers that a stop was asked
\* for; nobody asks before the start.
Remembered ==
  /\ child = "none" => ~Asked
  /\ Asked /\ child # "closed" /\ ~Excused => stopping

\* An error that was told is remembered.
ToldOnce ==
  /\ errors \in Seq(Errors) /\ Len(errors) <= 1
  /\ errors # <<>> => reported

-----------------------------------------------------------------------------
(* One error at most *)

\* Report() keeps to one error.
LEMMA ReportOnce ==
  ASSUME ToldOnce, NEW e \in Errors, Report(e)
  PROVE  ToldOnce'
<1>1. CASE reported
  BY <1>1 DEF Report, ToldOnce
<1>2. CASE ~reported
  <2>1. errors = <<>>
    BY <1>2 DEF ToldOnce
  <2>2. errors' = <<e>>
    BY <1>2, <2>1 DEF Report
  <2>. QED BY <2>2 DEF Report, ToldOnce
<1>. QED BY <1>1, <1>2

LEMMA ToldOnceStep == ToldOnce /\ [Next]_vars => ToldOnce'
<1>. SUFFICES ASSUME ToldOnce, [Next]_vars PROVE ToldOnce'
  OBVIOUS
<1>1. CASE Quiet
  BY <1>1 DEF Quiet, ToldOnce
<1>2. CASE \E e \in Errors : Report(e)
  BY <1>2, ReportOnce
<1>. QED BY <1>1, <1>2
     DEF Next, vars, calls, Start, SpawnFails, Writes, Data, Ends, Close, EndOf, StopCalled,
         StopTimesOut, Quiet, Errors

\* Whatever a failed spawn, an end and a stop add up to, subscribers of the
\* capture are told of one error at most.
THEOREM ErrorAtMostOnce == Spec => []ErrorOnce
<1>1. Init => ToldOnce
  BY DEF Init, ToldOnce
<1>2. ToldOnce => ErrorOnce
  BY DEF ToldOnce, ErrorOnce
<1>. QED BY <1>1, <1>2, ToldOnceStep, PTL DEF Spec

-----------------------------------------------------------------------------
(* A stop is quiet *)

LEMMA StopsTypeStep == StopsType /\ [Next]_vars => StopsType'
<1>. SUFFICES ASSUME StopsType, [Next]_vars PROVE StopsType'
  OBVIOUS
<1>1. CASE UNCHANGED calls
  BY <1>1 DEF calls, StopsType
<1>2. CASE Close
  BY <1>2 DEF Close, StopsType, StopState
<1>3. ASSUME NEW c \in StopCall, StopCalled(c) PROVE StopsType'
  BY <1>3 DEF StopCalled, Wait, StopsType, StopState
<1>4. ASSUME NEW c \in StopCall, StopTimesOut(c) PROVE StopsType'
  BY <1>4 DEF StopTimesOut, StopsType, StopState
<1>. QED BY <1>1, <1>2, <1>3, <1>4
     DEF Next, vars, calls, Start, SpawnFails, Writes, Data, Ends

\* A call of stop() is remembered or has its excuse.
LEMMA RememberedCall ==
  ASSUME StopsType, Remembered, NEW c \in StopCall, StopCalled(c)
  PROVE  Remembered'
<1>1. child' = child /\ child # "none"
  BY DEF StopCalled
<1>2. CASE ~held \/ code = "none"
  BY <1>1, <1>2 DEF StopCalled, Wait, Remembered
<1>3. CASE held /\ code # "none"
  <2>1. stops'[c] = "ended"
    BY <1>3 DEF StopCalled, StopsType
  <2>. QED BY <1>1, <2>1 DEF Remembered, Excused
<1>. QED BY <1>2, <1>3

LEMMA RememberedStep == StopsType /\ Remembered /\ [Next]_vars => Remembered'
<1>. SUFFICES ASSUME StopsType, Remembered, [Next]_vars PROVE Remembered'
  OBVIOUS
<1>1. CASE UNCHANGED <<child, stopping, stops>>
  BY <1>1 DEF Remembered, Asked, Excused
<1>2. CASE Close
  BY <1>2 DEF Close, Remembered
<1>3. ASSUME NEW c \in StopCall, StopTimesOut(c) PROVE Remembered'
  <2>1. stops'[c] = "late"
    BY <1>3 DEF StopTimesOut, StopsType
  <2>2. child' # "none"
    BY <1>3 DEF StopTimesOut, Due, Killed, Remembered, Asked
  <2>. QED BY <2>1, <2>2 DEF Remembered, Excused
<1>4. CASE Start \/ SpawnFails \/ Ends
  BY <1>4 DEF calls, Start, SpawnFails, Ends, Remembered, Asked, Excused
<1>5. CASE Writes \/ Data \/ UNCHANGED vars
  BY <1>1, <1>5 DEF vars, calls, Writes, Data
<1>. QED BY <1>2, <1>3, <1>4, <1>5, RememberedCall DEF Next

\* A capture that was asked to stop is not reported as failing when it ends,
\* by whichever of several stop() calls, unless it could not be started, had
\* ended before, or outlived the two seconds.
THEOREM StopIsQuiet == Spec => StoppedQuietly
<1>. DEFINE Said == errors' # errors /\ Asked => child = "unspawned" \/ Excused
<1>1. Init => StopsType /\ Remembered
  BY DEF Init, StopsType, StopState, Remembered, Asked
<1>2. Remembered /\ [Next]_vars => [Said]_vars
  BY DEF Next, vars, calls, Remembered, Quiet, Start, SpawnFails, Writes, Data, Ends, Close,
         StopCalled, StopTimesOut
<1>. QED BY <1>1, <1>2, StopsTypeStep, RememberedStep, PTL
     DEF Spec, StoppedQuietly, Asked, Excused

-----------------------------------------------------------------------------
(* The sizes of a stream's blocks *)

LEMMA BlockSize ==
  ASSUME NEW s, s \in Seq(Block)
  PROVE  Len(s) \in Nat /\ \A i \in 1..Len(s) : s[i] \in Block /\ s[i].size \in Nat
<1>1. Len(s) \in Nat /\ \A i \in 1..Len(s) : s[i] \in Block
  OBVIOUS
<1>2. \A b \in Block : b.size \in Nat
  BY DEF Block
<1>. QED BY <1>1, <1>2

\* The sums are what their recursive definition says.
LEMMA SizeOf ==
  ASSUME NEW s, s \in Seq(Block)
  PROVE  /\ SizeUpTo(s, 0) = 0
         /\ \A i \in 1..Len(s) : SizeUpTo(s, i) = SizeUpTo(s, i - 1) + s[i].size
         /\ \A i \in 0..Len(s) : SizeUpTo(s, i) \in Nat
<1>. DEFINE N == Len(s)
            step == [i \in 1..N |-> [v \in Nat |-> v + s[i].size]]
            Is(f) == f = [k \in 0..N |-> IF k = 0 THEN 0 ELSE f[k - 1] + s[k].size]
            size == CHOOSE f : Is(f)
<1>0. N \in Nat /\ \A i \in 1..N : s[i].size \in Nat
  BY BlockSize
<1>. HIDE DEF N
<1>1. \E f : f \in [0..N -> Nat] /\ Is(f)
  <2>1. step \in [1..N -> [Nat -> Nat]]
    BY <1>0
  <2>2. \A i \in 1..N, v \in Nat : step[i][v] = v + s[i].size
    BY <1>0
  <2>. HIDE DEF step
  <2>. PICK f : Recurs(Nat, N, 0, step, f)
    BY <1>0, <2>1, Recursion
  <2>3. f \in [0..N -> Nat]
    BY DEF Recurs
  <2>4. ASSUME NEW k \in 0..N PROVE f[k] = IF k = 0 THEN 0 ELSE f[k - 1] + s[k].size
    <3>1. CASE k = 0
      BY <3>1 DEF Recurs
    <3>2. CASE k # 0
      <4>1. k \in 1..N /\ k - 1 \in 0..N
        BY <1>0, <3>2
      <4>2. f[k - 1] \in Nat /\ f[k] = step[k][f[k - 1]]
        BY <2>3, <4>1 DEF Recurs
      <4>. QED BY <2>2, <3>2, <4>1, <4>2
    <3>. QED BY <3>1, <3>2
  <2>. QED BY <2>3, <2>4
<1>2. Is(size)
  BY <1>1
<1>3. \A i : SizeUpTo(s, i) = size[i]
  BY DEF SizeUpTo, N
<1>. HIDE DEF size
<1>4. size[0] = 0 /\ \A i \in 1..N : size[i] = size[i - 1] + s[i].size
  <2>1. 0 \in 0..N /\ \A i \in 1..N : i \in 0..N /\ i # 0
    BY <1>0
  <2>. QED BY <1>2, <2>1
<1>. DEFINE S == {n \in Nat : n <= N => size[n] \in Nat}
<1>5. 0 \in S
  BY <1>4
<1>6. ASSUME NEW n \in Nat, n \in S PROVE n + 1 \in S
  <2>. SUFFICES ASSUME n + 1 <= N PROVE size[n + 1] \in Nat
    OBVIOUS
  <2>1. n + 1 \in 1..N /\ (n + 1) - 1 = n /\ size[n] \in Nat
    BY <1>0, <1>6
  <2>2. size[n + 1] = size[n] + s[n + 1].size
    BY <1>4, <2>1
  <2>. QED BY <1>0, <2>1, <2>2
<1>7. \A i \in 0..N : size[i] \in Nat
  <2>1. Nat \subseteq S
    <3>. HIDE DEF S
    <3>. QED BY <1>5, <1>6, Induction
  <2>. QED BY <1>0, <2>1
<1>. QED BY <1>3, <1>4, <1>7 DEF N

\* Later blocks end later.
LEMMA SizeGrows ==
  ASSUME NEW s, s \in Seq(Block), NEW i \in 0..Len(s), NEW j \in i..Len(s)
  PROVE  SizeUpTo(s, i) <= SizeUpTo(s, j)
<1>. DEFINE N == Len(s)
            S == {n \in Nat : i + n <= N => SizeUpTo(s, i) <= SizeUpTo(s, i + n)}
<1>0. N \in Nat /\ \A k \in 1..N : s[k].size \in Nat
  BY BlockSize
<1>1. \A k \in 0..N : SizeUpTo(s, k) \in Nat
  BY SizeOf
<1>2. \A k \in 1..N : SizeUpTo(s, k) = SizeUpTo(s, k - 1) + s[k].size
  BY SizeOf
<1>. HIDE DEF N
<1>3. i \in 0..N /\ j \in i..N
  BY DEF N
<1>4. 0 \in S
  BY <1>1, <1>3
<1>5. ASSUME NEW n \in Nat, n \in S PROVE n + 1 \in S
  <2>. SUFFICES ASSUME i + (n + 1) <= N PROVE SizeUpTo(s, i) <= SizeUpTo(s, i + (n + 1))
    OBVIOUS
  <2>1. /\ i + n \in 0..N /\ i + (n + 1) \in 1..N /\ (i + (n + 1)) - 1 = i + n
        /\ SizeUpTo(s, i) <= SizeUpTo(s, i + n)
    BY <1>0, <1>3, <1>5
  <2>2. SizeUpTo(s, i + (n + 1)) = SizeUpTo(s, i + n) + s[i + (n + 1)].size
    BY <1>2, <2>1
  <2>. QED BY <1>0, <1>1, <1>3, <2>1, <2>2
<1>6. j - i \in S
  <2>1. Nat \subseteq S
    <3>. HIDE DEF S
    <3>. QED BY <1>4, <1>5, Induction
  <2>2. j - i \in Nat
    BY <1>0, <1>3
  <2>. HIDE DEF S
  <2>. QED BY <2>1, <2>2
<1>. QED BY <1>0, <1>3, <1>6

-----------------------------------------------------------------------------
(* One block *)

\* The states of the parser.
Parser ==
  [format : {"unknown", "pcapng", "classic"}, order : Order \union {"neither"}, started : BOOLEAN,
   dlts : Seq(Nat), next : Nat, buffered : Int, stuck : BOOLEAN,
   frames : Seq([block : Nat, ethernet : BOOLEAN])]

LEMMA ParserFields ==
  ASSUME NEW p \in Parser
  PROVE  /\ p.format \in {"unknown", "pcapng", "classic"} /\ p.order \in Order \union {"neither"}
         /\ p.started \in BOOLEAN /\ p.dlts \in Seq(Nat) /\ p.next \in Nat /\ p.buffered \in Int
         /\ p.stuck \in BOOLEAN /\ p.frames \in Seq([block : Nat, ethernet : BOOLEAN])
BY DEF Parser

LEMMA BlockFields ==
  ASSUME NEW b \in Block
  PROVE  /\ b.kind \in Kind /\ b.size \in Nat /\ b.order \in Order \union {"neither"}
         /\ b.dlt \in Nat /\ b.iface \in Nat /\ b.fits \in BOOLEAN
BY DEF Block

LEMMA ConsumeType ==
  ASSUME NEW p \in Parser, NEW b \in Block PROVE Consume(p, b) \in Parser
<1>1. p.next + 1 \in Nat /\ p.buffered - b.size \in Int
  BY ParserFields, BlockFields
<1>. QED BY <1>1 DEF Consume, Parser

LEMMA StopType == ASSUME NEW p \in Parser PROVE Stop(p) \in Parser
BY DEF Stop, Parser

LEMMA FrameTaken ==
  ASSUME NEW p \in Parser, NEW dlt
  PROVE  [p EXCEPT !.frames = Append(@, Frame(p.next, dlt))] \in Parser
<1>1. Frame(p.next, dlt) \in [block : Nat, ethernet : BOOLEAN]
  BY DEF Frame, Parser
<1>2. Append(p.frames, Frame(p.next, dlt)) \in Seq([block : Nat, ethernet : BOOLEAN])
  BY <1>1 DEF Parser
<1>. HIDE <1>1
<1>. QED BY <1>2 DEF Parser

LEMMA PcapngType ==
  ASSUME NEW p \in Parser, NEW b \in Block PROVE PcapngBlock(p, b) \in Parser
<1>1. [p EXCEPT !.started = TRUE, !.dlts = ForgetInterfaces(p)] \in Parser
  <2>1. <<>> \in Seq(Nat)
    OBVIOUS
  <2>. QED BY <2>1 DEF ForgetInterfaces, Parser
<1>2. [p EXCEPT !.dlts = Append(@, b.dlt)] \in Parser
  <2>1. Append(p.dlts, b.dlt) \in Seq(Nat)
    BY ParserFields, BlockFields
  <2>. QED BY <2>1 DEF Parser
<1>3. \A id : [p EXCEPT !.frames = Append(@, Frame(p.next, LinkType(p, id)))] \in Parser
  BY FrameTaken
<1>. QED BY <1>1, <1>2, <1>3, ConsumeType, StopType DEF PcapngBlock

LEMMA ClassicType ==
  ASSUME NEW p \in Parser, NEW b \in Block PROVE ClassicBlock(p, b) \in Parser
<1>1. [p EXCEPT !.started = TRUE, !.order = b.order, !.dlts = <<b.dlt>>] \in Parser
  <2>1. <<b.dlt>> \in Seq(Nat) /\ b.order \in Order \union {"neither"}
    BY BlockFields
  <2>. QED BY <2>1 DEF Parser
<1>2. [p EXCEPT !.frames = Append(@, Frame(p.next, p.dlts[1]))] \in Parser
  BY FrameTaken
<1>. QED BY <1>1, <1>2, ConsumeType, StopType DEF ClassicBlock

LEMMA ParseType == ASSUME NEW p \in Parser, NEW b \in Block PROVE Parse(p, b) \in Parser
BY PcapngType, ClassicType DEF Parse

\* The parser holds the bytes after the blocks that it has consumed.
Placed(s, p, n) ==
  /\ p.next \in 1..(Len(s) + 1)
  /\ p.buffered = n - SizeUpTo(s, p.next - 1) /\ p.buffered >= 0

\* It is the right one of the two, in the byte order that it began with.
Begun(s, p) ==
  /\ p.format \in {"unknown", Format(s[1])}
  /\ p.format = "unknown" => p.next = 1
  /\ p.started <=> p.next > 1
  /\ s[1].kind = "SHB" => p.order = "le"
  /\ s[1].kind = "header" /\ p.next > 1 => Len(p.dlts) = 1

\* It has the section's interfaces by their numbers.
Knows(s, p) ==
  /\ Len(p.dlts) = Cardinality(Described(s, p.next))
  /\ \A j \in Described(s, p.next) :
       /\ Number(s, p.next, j) + 1 \in 1..Len(p.dlts)
       /\ p.dlts[Number(s, p.next, j) + 1] = s[j].dlt
  /\ \A k \in 1..Len(p.dlts) : \E j \in Described(s, p.next) : Number(s, p.next, j) + 1 = k

\* It has given the packets among these blocks.
Given(s, p) ==
  /\ \A k, l \in DOMAIN p.frames : k < l => p.frames[k].block < p.frames[l].block
  /\ \A k \in DOMAIN p.frames :
       /\ p.frames[k].block \in 1..(p.next - 1) /\ IsPacket(s[p.frames[k].block])
       /\ p.frames[k].ethernet = IsEthernet(s, p.frames[k].block)
  /\ \A j \in 1..(p.next - 1) : IsPacket(s[j]) => \E k \in DOMAIN p.frames : p.frames[k].block = j

\* It waits for the rest of a block, if it understands the stream.
Stalled(s, p, n) == Understood(s) /\ p.next <= Len(s) => n < SizeUpTo(s, p.next)

Content(s, p, n) ==
  p \in Parser /\ Placed(s, p, n) /\ Begun(s, p) /\ Knows(s, p) /\ Given(s, p)

\* p becomes q by consuming block b.
Passes(p, q, b) ==
  /\ q \in Parser /\ b.size <= p.buffered
  /\ q.next = p.next + 1 /\ q.buffered = p.buffered - b.size
  /\ q.stuck = p.stuck /\ q.format = p.format /\ q.started
  /\ b.kind # "header" => q.order = p.order
  /\ \/ b.kind = "SHB" /\ q.dlts = <<>> /\ q.frames = p.frames
     \/ b.kind = "IDB" /\ q.dlts = Append(p.dlts, b.dlt) /\ q.frames = p.frames
     \/ b.kind = "header" /\ p.next = 1 /\ q.dlts = <<b.dlt>> /\ q.frames = p.frames
     \/ b.kind = "other" /\ q.dlts = p.dlts /\ q.frames = p.frames
     \/ /\ IsPacket(b) /\ q.dlts = p.dlts
        /\ q.frames = Append(p.frames, Frame(p.next, LinkType(p, InterfaceOf(b))))

LEMMA PcapngTurn ==
  ASSUME NEW s, WellBegun(s), NEW n \in Nat, NEW p, Content(s, p, n), p.next <= Len(s),
         p.format = "pcapng"
  PROVE  \/ PcapngBlock(p, s[p.next]) = Stop(p) /\ Stalled(s, p, n)
         \/ Passes(p, PcapngBlock(p, s[p.next]), s[p.next])
<1>. DEFINE b == s[p.next]
            q == PcapngBlock(p, b)
<1>1. /\ s \in Seq(Block) /\ s # <<>> /\ p \in Parser /\ p.next \in 1..Len(s)
      /\ p.buffered = n - SizeUpTo(s, p.next - 1)
  BY DEF WellBegun, Content, Placed
<1>2. b \in Block /\ b.size \in Nat /\ SizeUpTo(s, p.next) = SizeUpTo(s, p.next - 1) + b.size
  BY <1>1, BlockSize, SizeOf
<1>3. /\ s[1].kind = "SHB" /\ p.order = "le" /\ p.started \in BOOLEAN
      /\ p.next = 1 => b.kind = "SHB"
      /\ b.kind \in {"SHB", "IDB", "EPB", "SPB", "other"}
  <2>1. s[1].kind = "SHB"
    BY DEF Content, Begun, Format
  <2>2. b.kind \in {"SHB", "IDB", "EPB", "SPB", "other"}
    BY <1>1, <2>1 DEF WellBegun
  <2>. QED BY <1>1, <2>1, <2>2, ParserFields DEF Content, Begun
<1>4. p.started <=> p.next > 1
  BY DEF Content, Begun
<1>5. q \in Parser
  BY <1>1, <1>2, PcapngType
<1>6. SizeUpTo(s, p.next - 1) \in Nat
  BY <1>1, SizeOf
<1>7. ASSUME Understood(s)
      PROVE  b.fits /\ b.size >= MinBlockBytes /\ b.order = "le"
  BY <1>1, <1>3, <1>7 DEF Understood, LeastBytes
<1>. HIDE DEF b
<1>8. CASE ~Present(p, b)
  <2>1. q = Stop(p)
    BY <1>8 DEF PcapngBlock
  <2>2. ASSUME Understood(s) PROVE n < SizeUpTo(s, p.next)
    BY <1>1, <1>2, <1>3, <1>6, <1>7, <1>8, <2>2 DEF Present, MinBlockBytes
  <2>. QED BY <2>1, <2>2 DEF Stalled, b
<1>9. CASE Present(p, b) /\ b.kind = "EPB" /\ ~b.fits
  <2>1. q = Stop(p)
    BY <1>1, <1>3, <1>4, <1>9 DEF PcapngBlock
  <2>. QED BY <1>7, <1>9, <2>1 DEF Stalled, b
<1>10. CASE Present(p, b) /\ ~(b.kind = "EPB" /\ ~b.fits)
  <2>1. b.size <= p.buffered
    BY <1>1, <1>2, <1>10, ParserFields DEF Present
  <2>2. CASE b.kind = "SHB"
    <3>1. q = Consume([p EXCEPT !.started = TRUE, !.dlts = <<>>], b)
      BY <1>10, <2>2 DEF PcapngBlock, ForgetInterfaces
    <3>. QED BY <1>1, <1>5, <2>1, <2>2, <3>1 DEF Passes, Consume, Parser, b
  <2>3. CASE b.kind = "IDB"
    <3>1. q = Consume([p EXCEPT !.dlts = Append(@, b.dlt)], b)
      BY <1>1, <1>3, <1>4, <1>10, <2>3 DEF PcapngBlock
    <3>2. p.started
      BY <1>1, <1>3, <1>4, <2>3
    <3>. QED BY <1>1, <1>5, <2>1, <2>3, <3>1, <3>2 DEF Passes, Consume, Parser, b
  <2>4. CASE b.kind \in {"EPB", "SPB"}
    <3>1. p.started
      BY <1>1, <1>3, <1>4, <2>4
    <3>. DEFINE f == Frame(p.next, LinkType(p, InterfaceOf(b)))
    <3>2. q = Consume([p EXCEPT !.frames = Append(@, f)], b)
      BY <1>10, <2>4, <3>1 DEF PcapngBlock, InterfaceOf
    <3>. HIDE DEF f
    <3>3. /\ q.next = p.next + 1 /\ q.buffered = p.buffered - b.size
          /\ q.stuck = p.stuck /\ q.format = p.format /\ q.started /\ q.order = p.order
          /\ q.dlts = p.dlts /\ q.frames = Append(p.frames, f)
      BY <1>1, <3>1, <3>2 DEF Consume, Parser
    <3>. QED BY <1>5, <2>1, <2>4, <3>3 DEF Passes, IsPacket, b, f
  <2>5. CASE b.kind = "other"
    <3>1. q = Consume(p, b)
      BY <1>10, <2>5 DEF PcapngBlock
    <3>2. p.started
      BY <1>1, <1>3, <1>4, <2>5
    <3>. QED BY <1>1, <1>5, <2>1, <2>5, <3>1, <3>2 DEF Passes, Consume, Parser, b
  <2>. QED BY <1>3, <2>2, <2>3, <2>4, <2>5
<1>. QED BY <1>8, <1>9, <1>10

LEMMA ClassicTurn ==
  ASSUME NEW s, WellBegun(s), NEW n \in Nat, NEW p, Content(s, p, n), p.next <= Len(s),
         p.format = "classic"
  PROVE  \/ ClassicBlock(p, s[p.next]) = Stop(p) /\ Stalled(s, p, n)
         \/ Passes(p, ClassicBlock(p, s[p.next]), s[p.next])
<1>. DEFINE b == s[p.next]
            q == ClassicBlock(p, b)
<1>1. /\ s \in Seq(Block) /\ s # <<>> /\ p \in Parser /\ p.next \in 1..Len(s)
      /\ p.buffered = n - SizeUpTo(s, p.next - 1)
  BY DEF WellBegun, Content, Placed
<1>2. b \in Block /\ b.size \in Nat /\ SizeUpTo(s, p.next) = SizeUpTo(s, p.next - 1) + b.size
  BY <1>1, BlockSize, SizeOf
<1>3. /\ p.next = 1 => b.kind = "header" /\ b.size = ClassicHeaderBytes
      /\ p.next > 1 => b.kind = "record"
  <2>1. s[1].kind # "SHB"
    BY DEF Content, Begun, Format
  <2>. QED BY <1>1, <2>1 DEF WellBegun
<1>4. p.started <=> p.next > 1
  BY DEF Content, Begun
<1>5. q \in Parser
  BY <1>1, <1>2, ClassicType
<1>6. SizeUpTo(s, p.next - 1) \in Nat
  BY <1>1, SizeOf
<1>7. p.next > 1 => Len(p.dlts) = 1
  <2>1. s[1].kind # "SHB"
    BY DEF Content, Begun, Format
  <2>. QED BY <2>1 DEF WellBegun, Content, Begun
<1>8. ASSUME Understood(s)
      PROVE  b.order # "neither" /\ (p.next > 1 => b.size >= ClassicRecordHeaderBytes)
  BY <1>1, <1>3, <1>8 DEF Understood, LeastBytes
<1>. HIDE DEF b
<1>9. CASE p.next = 1 /\ (p.buffered < ClassicHeaderBytes \/ b.order = "neither")
  <2>1. q = Stop(p)
    BY <1>4, <1>9 DEF ClassicBlock
  <2>2. ASSUME Understood(s) PROVE n < SizeUpTo(s, p.next)
    BY <1>1, <1>2, <1>3, <1>6, <1>8, <1>9, <2>2 DEF ClassicHeaderBytes
  <2>. QED BY <2>1, <2>2 DEF Stalled, b
<1>10. CASE p.next = 1 /\ ~(p.buffered < ClassicHeaderBytes \/ b.order = "neither")
  <2>1. q = Consume([p EXCEPT !.started = TRUE, !.order = b.order, !.dlts = <<b.dlt>>], b)
    BY <1>4, <1>10 DEF ClassicBlock
  <2>2. b.size <= p.buffered
    BY <1>1, <1>2, <1>3, <1>10, ParserFields DEF ClassicHeaderBytes
  <2>. QED BY <1>1, <1>3, <1>5, <1>10, <2>1, <2>2 DEF Passes, Consume, Parser, b
<1>11. CASE p.next # 1 /\ (p.buffered < ClassicRecordHeaderBytes \/ p.buffered < b.size)
  <2>1. q = Stop(p)
    BY <1>1, <1>4, <1>11 DEF ClassicBlock
  <2>2. ASSUME Understood(s) PROVE n < SizeUpTo(s, p.next)
    BY <1>1, <1>2, <1>3, <1>6, <1>8, <1>11, <2>2 DEF ClassicRecordHeaderBytes
  <2>. QED BY <2>1, <2>2 DEF Stalled, b
<1>12. CASE p.next # 1 /\ ~(p.buffered < ClassicRecordHeaderBytes \/ p.buffered < b.size)
  <2>. DEFINE f == Frame(p.next, LinkType(p, InterfaceOf(b)))
  <2>1. p.next > 1 /\ p.started /\ b.kind = "record"
    BY <1>1, <1>3, <1>4, <1>12
  <2>2. Frame(p.next, p.dlts[1]) = f
    BY <1>1, <1>7, <2>1, ParserFields DEF LinkType, InterfaceOf
  <2>3. q = Consume([p EXCEPT !.frames = Append(@, f)], b)
    <3>. HIDE DEF f
    <3>. QED BY <1>12, <2>1, <2>2 DEF ClassicBlock
  <2>. HIDE DEF f
  <2>4. /\ q.next = p.next + 1 /\ q.buffered = p.buffered - b.size
        /\ q.stuck = p.stuck /\ q.format = p.format /\ q.started /\ q.order = p.order
        /\ q.dlts = p.dlts /\ q.frames = Append(p.frames, f)
    BY <1>1, <2>1, <2>3 DEF Consume, Parser
  <2>5. b.size <= p.buffered
    BY <1>1, <1>2, <1>12, ParserFields
  <2>. QED BY <1>5, <2>1, <2>4, <2>5 DEF Passes, IsPacket, b, f
<1>. QED BY <1>9, <1>10, <1>11, <1>12

\* What a block adds to the descriptions.
LEMMA DescribedNext ==
  ASSUME NEW s \in Seq(Block), NEW i \in 1..Len(s)
  PROVE  /\ s[i].kind = "SHB" => Described(s, i + 1) = {}
         /\ s[i].kind \in {"IDB", "header"} => Described(s, i + 1) = Described(s, i) \union {i}
         /\ s[i].kind \notin {"SHB", "IDB", "header"} => Described(s, i + 1) = Described(s, i)
<1>1. Len(s) \in Nat /\ i \in Nat /\ i >= 1
  OBVIOUS
<1>2. CASE s[i].kind = "SHB"
  <2>. SUFFICES ASSUME NEW j \in Described(s, i + 1) PROVE FALSE
    BY <1>2
  <2>1. j \in 1..i /\ s[j].kind # "SHB" /\ \A k \in (j + 1)..i : s[k].kind # "SHB"
    BY <1>1 DEF Described
  <2>2. j # i
    BY <1>2, <2>1
  <2>3. i \in (j + 1)..i
    BY <1>1, <2>1, <2>2
  <2>. QED BY <1>2, <2>1, <2>3
<1>3. CASE s[i].kind # "SHB"
  <2>1. ASSUME NEW j \in 1..(i - 1)
        PROVE  (\A k \in (j + 1)..i : s[k].kind # "SHB")
                 <=> (\A k \in (j + 1)..(i - 1) : s[k].kind # "SHB")
    <3>1. \A k \in (j + 1)..i : k = i \/ k \in (j + 1)..(i - 1)
      BY <1>1
    <3>2. \A k \in (j + 1)..(i - 1) : k \in (j + 1)..i
      BY <1>1
    <3>. QED BY <1>3, <3>1, <3>2
  <2>2. \A j \in 1..((i + 1) - 1) : j = i \/ j \in 1..(i - 1)
    BY <1>1
  <2>3. (i + 1) - 1 = i /\ i \in 1..i /\ i \notin 1..(i - 1) /\ 1..(i - 1) \subseteq 1..i
        /\ \A k \in (i + 1)..i : FALSE
    BY <1>1
  <2>4. ASSUME NEW j
        PROVE  j \in Described(s, i + 1)
                 <=> j \in Described(s, i) \/ (j = i /\ s[i].kind \in {"IDB", "header"})
    BY <2>1, <2>2, <2>3 DEF Described
  <2>. QED BY <1>3, <2>4
<1>. QED BY <1>2, <1>3

LEMMA DescribedFinite ==
  ASSUME NEW s \in Seq(Block), NEW i \in Nat
  PROVE  /\ IsFiniteSet(Described(s, i)) /\ i \notin Described(s, i)
         /\ Described(s, i) \subseteq 1..(i - 1)
         /\ Cardinality(Described(s, i)) \in Nat
         /\ \A j \in Described(s, i) : Number(s, i, j) \in Nat
<1>1. Described(s, i) \subseteq 1..(i - 1)
  BY DEF Described
<1>2. IsFiniteSet(1..(i - 1))
  BY FS_Interval
<1>3. IsFiniteSet(Described(s, i))
  BY <1>1, <1>2, FS_Subset
<1>4. ASSUME NEW j PROVE Number(s, i, j) \in Nat
  <2>1. IsFiniteSet({k \in Described(s, i) : k < j})
    BY <1>3, FS_Subset
  <2>. QED BY <2>1, FS_CardinalityType DEF Number
<1>. QED BY <1>1, <1>3, <1>4, FS_CardinalityType

LEMMA KnowsNone ==
  ASSUME NEW s, NEW p, Described(s, p.next) = {}, p.dlts = <<>>
  PROVE  Knows(s, p)
BY FS_EmptySet DEF Knows

LEMMA KnowsMore ==
  ASSUME NEW s \in Seq(Block), NEW i \in 1..Len(s), s[i].kind \in {"IDB", "header"},
         NEW p, Knows(s, p), p.next = i, p.dlts \in Seq(Nat),
         NEW q, q.next = i + 1, q.dlts = Append(p.dlts, s[i].dlt)
  PROVE  Knows(s, q)
<1>. DEFINE D == Described(s, i)
            n == Len(p.dlts)
<1>1. Len(s) \in Nat /\ i \in Nat /\ s[i].dlt \in Nat
  BY BlockFields
<1>2. Described(s, i + 1) = D \union {i}
  BY DescribedNext
<1>3. IsFiniteSet(D) /\ i \notin D /\ D \subseteq 1..(i - 1)
  BY <1>1, DescribedFinite
<1>4. n \in Nat /\ Len(q.dlts) = n + 1 /\ q.dlts[n + 1] = s[i].dlt
      /\ \A k \in 1..n : q.dlts[k] = p.dlts[k]
  BY <1>1
<1>5. n = Cardinality(D)
  BY DEF Knows
<1>6. Cardinality(Described(s, i + 1)) = n + 1
  BY <1>2, <1>3, <1>5, FS_AddElement
<1>7. Number(s, i + 1, i) = n
  <2>1. {k \in D \union {i} : k < i} = D
    BY <1>1, <1>3
  <2>. QED BY <1>2, <1>5, <2>1 DEF Number
<1>8. ASSUME NEW j \in D PROVE Number(s, i + 1, j) = Number(s, i, j)
  <2>1. j \in 1..(i - 1)
    BY <1>3
  <2>2. {k \in D \union {i} : k < j} = {k \in D : k < j}
    BY <1>1, <2>1
  <2>. QED BY <1>2, <2>2 DEF Number
<1>9. /\ \A j \in D : Number(s, i, j) + 1 \in 1..n /\ p.dlts[Number(s, i, j) + 1] = s[j].dlt
      /\ \A k \in 1..n : \E j \in D : Number(s, i, j) + 1 = k
  BY DEF Knows
<1>10. \A j \in D \union {i} : /\ Number(s, i + 1, j) + 1 \in 1..(n + 1)
                               /\ q.dlts[Number(s, i + 1, j) + 1] = s[j].dlt
  <2>1. \A k \in 1..n : k \in 1..(n + 1)
    BY <1>4
  <2>2. n + 1 \in 1..(n + 1)
    BY <1>4
  <2>. HIDE DEF D, n
  <2>. QED BY <1>4, <1>7, <1>8, <1>9, <2>1, <2>2
<1>11. \A k \in 1..(n + 1) : \E j \in D \union {i} : Number(s, i + 1, j) + 1 = k
  <2>1. \A k \in 1..(n + 1) : k = n + 1 \/ k \in 1..n
    BY <1>4
  <2>. HIDE DEF D, n
  <2>. QED BY <1>7, <1>8, <1>9, <2>1
<1>. QED BY <1>2, <1>4, <1>6, <1>10, <1>11 DEF Knows

LEMMA KnowsOn ==
  ASSUME NEW s, NEW p, Knows(s, p), NEW q, q.dlts = p.dlts,
         Described(s, q.next) = Described(s, p.next)
  PROVE  Knows(s, q)
BY DEF Knows, Number

\* The link type of a packet is that of its interface.
LEMMA LinkTypeRight ==
  ASSUME NEW s \in Seq(Block), NEW p, p.next \in 1..Len(s), p.dlts \in Seq(Nat), Knows(s, p)
  PROVE  IsEthernet(s, p.next) <=> LinkType(p, InterfaceOf(s[p.next])) = 1
<1>. DEFINE id == InterfaceOf(s[p.next])
            D == Described(s, p.next)
            num(j) == Number(s, p.next, j)
            n == Len(p.dlts)
<1>1. id \in Nat
  BY BlockFields DEF InterfaceOf
<1>2. n \in Nat /\ DOMAIN p.dlts = 1..n
  OBVIOUS
<1>3. /\ \A j \in D : num(j) + 1 \in 1..n /\ p.dlts[num(j) + 1] = s[j].dlt
      /\ \A k \in 1..n : \E j \in D : num(j) + 1 = k
  BY DEF Knows
<1>4. \A j \in D : num(j) \in Nat
  <2>1. p.next \in Nat
    OBVIOUS
  <2>. QED BY <2>1, DescribedFinite
<1>5. IsEthernet(s, p.next) <=> \E j \in D : num(j) = id /\ s[j].dlt = 1
  BY DEF IsEthernet
<1>6. LinkType(p, id) = IF id + 1 \in 1..n THEN p.dlts[id + 1] ELSE 0
  BY <1>2 DEF LinkType
<1>. HIDE DEF id, D, num, n
<1>7. ASSUME NEW j \in D, num(j) = id, s[j].dlt = 1 PROVE LinkType(p, id) = 1
  BY <1>3, <1>6, <1>7
<1>8. ASSUME LinkType(p, id) = 1 PROVE \E j \in D : num(j) = id /\ s[j].dlt = 1
  <2>1. id + 1 \in 1..n /\ p.dlts[id + 1] = 1
    BY <1>6, <1>8
  <2>2. PICK j \in D : num(j) + 1 = id + 1
    BY <1>3, <2>1
  <2>3. num(j) = id
    BY <1>1, <1>4, <2>2
  <2>. QED BY <1>3, <2>1, <2>3
<1>. QED BY <1>5, <1>7, <1>8 DEF id

LEMMA GivenOn ==
  ASSUME NEW s \in Seq(Block), NEW p, p.next \in 1..Len(s), Given(s, p), ~IsPacket(s[p.next]),
         NEW q, q.next = p.next + 1, q.frames = p.frames
  PROVE  Given(s, q)
<1>1. \A j \in 1..(q.next - 1) : j = p.next \/ j \in 1..(p.next - 1)
  OBVIOUS
<1>2. \A j \in 1..(p.next - 1) : j \in 1..(q.next - 1)
  OBVIOUS
<1>. QED BY <1>1, <1>2 DEF Given

LEMMA GivenMore ==
  ASSUME NEW s \in Seq(Block), NEW p, p.next \in 1..Len(s), Given(s, p), IsPacket(s[p.next]),
         p.frames \in Seq([block : Nat, ethernet : BOOLEAN]),
         NEW e \in BOOLEAN, e = IsEthernet(s, p.next),
         NEW q, q.next = p.next + 1,
         q.frames = Append(p.frames, [block |-> p.next, ethernet |-> e])
  PROVE  Given(s, q)
<1>. DEFINE F == p.frames
            G == q.frames
            n == Len(F)
            i == p.next
            f == [block |-> i, ethernet |-> e]
<1>1. i \in Nat /\ i >= 1 /\ n \in Nat
  OBVIOUS
<1>2. /\ DOMAIN F = 1..n /\ DOMAIN G = 1..(n + 1) /\ G[n + 1] = f
      /\ \A k \in 1..n : G[k] = F[k]
  OBVIOUS
<1>3. /\ \A k, l \in 1..n : k < l => F[k].block < F[l].block
      /\ \A k \in 1..n : /\ F[k].block \in 1..(i - 1) /\ IsPacket(s[F[k].block])
                         /\ F[k].ethernet = IsEthernet(s, F[k].block)
      /\ \A j \in 1..(i - 1) : IsPacket(s[j]) => \E k \in 1..n : F[k].block = j
  BY <1>2 DEF Given
<1>4. f.block = i /\ f.ethernet = IsEthernet(s, i)
  OBVIOUS
<1>5. IsPacket(s[i])
  OBVIOUS
<1>6. q.next = i + 1
  OBVIOUS
<1>. HIDE DEF F, G, n, i, f
<1>7. \A k \in 1..(n + 1) : k = n + 1 \/ k \in 1..n
  BY <1>1
<1>8. \A k \in 1..n : k \in 1..(n + 1) /\ k < n + 1 /\ ~(n + 1 < k)
  BY <1>1
<1>9. n + 1 \in 1..(n + 1) /\ ~(n + 1 < n + 1)
  BY <1>1
<1>10. q.next - 1 = i /\ i \in 1..i /\ \A j \in 1..(i - 1) : j \in 1..i /\ j < i
  BY <1>1, <1>6
<1>11. ASSUME NEW k \in DOMAIN G, NEW l \in DOMAIN G, k < l PROVE G[k].block < G[l].block
  <2>1. k \in 1..n
    BY <1>1, <1>2, <1>7, <1>11
  <2>2. CASE l \in 1..n
    BY <1>2, <1>3, <1>11, <2>1, <2>2
  <2>3. CASE l = n + 1
    BY <1>2, <1>3, <1>4, <1>10, <2>1, <2>3
  <2>. QED BY <1>2, <1>7, <2>2, <2>3
<1>12. ASSUME NEW k \in DOMAIN G
       PROVE  /\ G[k].block \in 1..i /\ IsPacket(s[G[k].block])
              /\ G[k].ethernet = IsEthernet(s, G[k].block)
  <2>1. CASE k \in 1..n
    BY <1>2, <1>3, <1>10, <2>1
  <2>2. CASE k = n + 1
    BY <1>2, <1>4, <1>5, <1>10, <2>2
  <2>. QED BY <1>2, <1>7, <2>1, <2>2
<1>13. ASSUME NEW j \in 1..i, IsPacket(s[j]) PROVE \E k \in DOMAIN G : G[k].block = j
  <2>1. CASE j = i
    BY <1>2, <1>4, <1>9, <2>1
  <2>2. CASE j # i
    <3>1. j \in 1..(i - 1)
      BY <1>1, <2>2
    <3>2. PICK k \in 1..n : F[k].block = j
      BY <1>3, <1>13, <3>1
    <3>. QED BY <1>2, <1>8, <3>2
  <2>. QED BY <2>1, <2>2
<1>. QED BY <1>10, <1>11, <1>12, <1>13 DEF Given, G

\* Consuming a block keeps all of it.
LEMMA PassContent ==
  ASSUME NEW s, WellBegun(s), NEW n \in Nat, NEW p, Content(s, p, n), p.next <= Len(s),
         p.format = Format(s[1]), NEW q, Passes(p, q, s[p.next])
  PROVE  Content(s, q, n)
<1>. DEFINE b == s[p.next]
<1>1. /\ s \in Seq(Block) /\ p \in Parser /\ p.next \in 1..Len(s)
      /\ p.buffered = n - SizeUpTo(s, p.next - 1)
  BY DEF WellBegun, Content, Placed
<1>2. /\ q \in Parser /\ q.next = p.next + 1 /\ q.buffered = p.buffered - b.size
      /\ b.size <= p.buffered /\ q.format = p.format /\ q.started
      /\ b.kind # "header" => q.order = p.order
  BY DEF Passes
<1>3. b \in Block /\ b.size \in Nat /\ SizeUpTo(s, p.next) = SizeUpTo(s, p.next - 1) + b.size
      /\ SizeUpTo(s, p.next - 1) \in Nat /\ Len(s) \in Nat
  BY <1>1, BlockSize, SizeOf
<1>4. /\ s[1].kind = "SHB" => b.kind \in {"SHB", "IDB", "EPB", "SPB", "other"}
      /\ s[1].kind = "header" => b.kind = IF p.next = 1 THEN "header" ELSE "record"
  BY <1>1 DEF WellBegun
<1>5. Knows(s, p) /\ Given(s, p) /\ Begun(s, p)
  BY DEF Content
<1>6. p.dlts \in Seq(Nat) /\ p.frames \in Seq([block : Nat, ethernet : BOOLEAN])
  BY <1>1, ParserFields
<1>7. \/ b.kind = "SHB" /\ q.dlts = <<>> /\ q.frames = p.frames
      \/ b.kind = "IDB" /\ q.dlts = Append(p.dlts, b.dlt) /\ q.frames = p.frames
      \/ b.kind = "header" /\ p.next = 1 /\ q.dlts = <<b.dlt>> /\ q.frames = p.frames
      \/ b.kind = "other" /\ q.dlts = p.dlts /\ q.frames = p.frames
      \/ /\ IsPacket(b) /\ q.dlts = p.dlts
         /\ q.frames = Append(p.frames, Frame(p.next, LinkType(p, InterfaceOf(b))))
  BY DEF Passes
<1>8. Placed(s, q, n)
  <2>1. (p.next + 1) - 1 = p.next /\ p.next + 1 \in 1..(Len(s) + 1)
    BY <1>1, <1>3
  <2>2. p.buffered \in Int
    BY <1>1, ParserFields
  <2>. HIDE DEF b
  <2>3. q.buffered >= 0
    BY <1>2, <1>3, <2>2
  <2>4. q.buffered = n - SizeUpTo(s, p.next)
    BY <1>1, <1>2, <1>3, <2>2
  <2>. QED BY <1>2, <2>1, <2>3, <2>4 DEF Placed
<1>9. Begun(s, q)
  <2>1. q.format = Format(s[1]) /\ Format(s[1]) # "unknown" /\ q.next > 1
    BY <1>1, <1>2 DEF Format
  <2>2. s[1].kind = "SHB" => q.order = "le"
    BY <1>2, <1>4, <1>5 DEF Begun
  <2>3. ASSUME s[1].kind = "header" PROVE Len(q.dlts) = 1
    <3>1. CASE p.next = 1
      <4>1. q.dlts = <<b.dlt>>
        BY <1>4, <1>7, <2>3, <3>1 DEF IsPacket
      <4>. QED BY <4>1
    <3>2. CASE p.next # 1
      <4>1. q.dlts = p.dlts /\ p.next > 1
        BY <1>1, <1>4, <1>7, <2>3, <3>2
      <4>. QED BY <1>5, <2>3, <4>1 DEF Begun
    <3>. QED BY <3>1, <3>2
  <2>. QED BY <1>2, <2>1, <2>2, <2>3 DEF Begun
<1>10. Knows(s, q)
  <2>1. CASE b.kind = "SHB"
    <3>1. Described(s, q.next) = {} /\ q.dlts = <<>>
      BY <1>1, <1>2, <1>7, <2>1, DescribedNext DEF IsPacket
    <3>. QED BY <3>1, KnowsNone
  <2>2. CASE b.kind = "IDB"
    <3>1. q.dlts = Append(p.dlts, b.dlt)
      BY <1>7, <2>2 DEF IsPacket
    <3>. QED BY <1>1, <1>2, <1>5, <1>6, <2>2, <3>1, KnowsMore
  <2>3. CASE b.kind = "header"
    <3>1. p.next = 1 /\ q.dlts = <<b.dlt>>
      BY <1>7, <2>3 DEF IsPacket
    <3>2. Described(s, 1) = {}
      BY DEF Described
    <3>3. p.dlts = <<>>
      <4>1. Len(p.dlts) = 0
        BY <1>5, <3>1, <3>2, FS_EmptySet DEF Knows
      <4>. QED BY <1>6, <4>1
    <3>4. q.dlts = Append(p.dlts, b.dlt)
      BY <3>1, <3>3
    <3>. QED BY <1>1, <1>2, <1>5, <1>6, <2>3, <3>4, KnowsMore
  <2>4. CASE b.kind \notin {"SHB", "IDB", "header"}
    <3>1. q.dlts = p.dlts
      BY <1>7, <2>4
    <3>2. Described(s, q.next) = Described(s, p.next)
      BY <1>1, <1>2, <2>4, DescribedNext
    <3>. QED BY <1>5, <3>1, <3>2, KnowsOn
  <2>. QED BY <2>1, <2>2, <2>3, <2>4
<1>11. Given(s, q)
  <2>1. CASE IsPacket(b)
    <3>. DEFINE e == LinkType(p, InterfaceOf(b)) = 1
    <3>1. q.frames = Append(p.frames, [block |-> p.next, ethernet |-> e])
      BY <1>7, <2>1 DEF IsPacket, Frame
    <3>2. e \in BOOLEAN /\ e = IsEthernet(s, p.next)
      <4>1. e <=> IsEthernet(s, p.next)
        BY <1>1, <1>5, <1>6, LinkTypeRight
      <4>. QED BY <4>1 DEF IsEthernet
    <3>. HIDE DEF e
    <3>. QED BY <1>1, <1>2, <1>5, <1>6, <2>1, <3>1, <3>2, GivenMore
  <2>2. CASE ~IsPacket(b)
    <3>1. q.frames = p.frames
      BY <1>7, <2>2
    <3>. QED BY <1>1, <1>2, <1>5, <2>2, <3>1, GivenOn
  <2>. QED BY <2>1, <2>2
<1>. QED BY <1>2, <1>8, <1>9, <1>10, <1>11 DEF Content

-----------------------------------------------------------------------------
(* One chunk *)

\* The fields that Content reads.
LEMMA SameContent ==
  ASSUME NEW s, NEW n, NEW p, Content(s, p, n), NEW q \in Parser,
         q.next = p.next, q.buffered = p.buffered, q.format = p.format, q.order = p.order,
         q.started = p.started, q.dlts = p.dlts, q.frames = p.frames
  PROVE  Content(s, q, n)
<1>1. Placed(s, q, n)
  BY DEF Content, Placed
<1>2. Begun(s, q)
  BY DEF Content, Begun
<1>3. Knows(s, q)
  BY DEF Content, Knows
<1>4. Given(s, q)
  BY DEF Content, Given
<1>. QED BY <1>1, <1>2, <1>3, <1>4 DEF Content

\* Where draining is after it has looked at block i, for a chunk that found
\* the parser at block `first'.
Drained(s, first, p, n, i) ==
  /\ Content(s, p, n) /\ p.format = Format(s[1])
  /\ p.stuck => Stalled(s, p, n)
  /\ ~p.stuck => p.next = IF i < first THEN first ELSE i + 1

LEMMA Turn ==
  ASSUME NEW s, WellBegun(s), NEW n \in Nat, NEW i \in 1..Len(s), NEW p,
         Content(s, p, n), p.format = Format(s[1]), ~p.stuck, p.next = i
  PROVE  LET q == Parse(p, s[i])
         IN /\ Content(s, q, n) /\ q.format = Format(s[1])
            /\ q.stuck => Stalled(s, q, n)
            /\ ~q.stuck => q.next = i + 1
<1>. DEFINE q == Parse(p, s[i])
<1>0. p \in Parser /\ Format(s[1]) \in {"pcapng", "classic"} /\ p.next <= Len(s)
  BY DEF Content, Format, WellBegun
<1>1. (q = Stop(p) /\ Stalled(s, p, n)) \/ Passes(p, q, s[i])
  <2>1. CASE p.format = "pcapng"
    <3>1. q = PcapngBlock(p, s[i])
      BY <2>1 DEF Parse
    <3>. QED BY <1>0, <2>1, <3>1, PcapngTurn
  <2>2. CASE p.format = "classic"
    <3>1. q = ClassicBlock(p, s[i])
      BY <2>2 DEF Parse
    <3>. QED BY <1>0, <2>2, <3>1, ClassicTurn
  <2>. QED BY <1>0, <2>1, <2>2
<1>. HIDE DEF q
<1>2. CASE q = Stop(p) /\ Stalled(s, p, n)
  <2>1. /\ q \in Parser /\ q.next = p.next /\ q.buffered = p.buffered /\ q.format = p.format
        /\ q.order = p.order /\ q.started = p.started /\ q.dlts = p.dlts /\ q.frames = p.frames
        /\ q.stuck = TRUE
    BY <1>0, <1>2 DEF Stop, Parser
  <2>2. Content(s, q, n)
    BY <2>1, SameContent
  <2>. QED BY <1>2, <2>1, <2>2 DEF Stalled, q
<1>3. CASE Passes(p, q, s[i])
  <2>1. Content(s, q, n)
    BY <1>0, <1>3, PassContent
  <2>2. q.next = i + 1 /\ q.stuck = p.stuck /\ q.format = p.format
    BY <1>3 DEF Passes
  <2>. QED BY <2>1, <2>2 DEF q
<1>. QED BY <1>1, <1>2, <1>3

\* The parser takes in a chunk and drains what it can.
LEMMA PushContent ==
  ASSUME NEW s, WellBegun(s), NEW n \in Nat, NEW m \in Nat, NEW p, Content(s, p, n), ~p.stuck
  PROVE  LET q == Push(p, s, m)
         IN Content(s, q, n + m) /\ ~q.stuck /\ Stalled(s, q, n + m)
<1>. DEFINE N == Len(s)
            q == [p EXCEPT !.format = IF @ = "unknown" THEN Format(s[1]) ELSE @,
                           !.buffered = @ + m]
            Is(f) == f = [i \in 0..N |-> IF i < q.next THEN q ELSE Parse(f[i - 1], s[i])]
            drained == CHOOSE f : Is(f)
            step == [i \in 1..N |-> [v \in Parser |-> IF i < q.next THEN q ELSE Parse(v, s[i])]]
            S == {k \in Nat : k <= N => Drained(s, q.next, drained[k], n + m, k)}
<1>0. /\ N \in Nat /\ s \in Seq(Block) /\ \A i \in 1..N : s[i] \in Block
      /\ Format(s[1]) \in {"pcapng", "classic"} /\ p \in Parser /\ p.next \in 1..(N + 1)
  BY BlockSize DEF WellBegun, Content, Placed, Format
<1>1. /\ q \in Parser /\ q.next = p.next /\ q.order = p.order /\ q.started = p.started
      /\ q.dlts = p.dlts /\ q.frames = p.frames /\ q.stuck = FALSE
      /\ q.format = Format(s[1]) /\ q.buffered = p.buffered + m
  <2>1. p.format \in {"unknown", Format(s[1])} /\ p.buffered + m \in Int
    BY <1>0, ParserFields DEF Content, Begun
  <2>. QED BY <1>0, <2>1, ParserFields DEF Parser
<1>. HIDE DEF N, q
<1>2. Content(s, q, n + m)
  <2>1. Placed(s, q, n + m)
    <3>1. SizeUpTo(s, p.next - 1) \in Nat
      BY <1>0, SizeOf DEF N
    <3>. QED BY <1>0, <1>1, <3>1, ParserFields DEF Content, Placed
  <2>2. Begun(s, q)
    BY <1>0, <1>1 DEF Content, Begun
  <2>3. Knows(s, q)
    BY <1>1 DEF Content, Knows
  <2>4. Given(s, q)
    BY <1>1 DEF Content, Given
  <2>. QED BY <1>1, <2>1, <2>2, <2>3, <2>4 DEF Content
<1>3. Is(drained)
  <2>1. step \in [1..N -> [Parser -> Parser]]
    BY <1>0, <1>1, ParseType
  <2>2. \A i \in 1..N, v \in Parser : step[i][v] = IF i < q.next THEN q ELSE Parse(v, s[i])
    OBVIOUS
  <2>. HIDE DEF step
  <2>. PICK f : Recurs(Parser, N, q, step, f)
    BY <1>0, <1>1, <2>1, Recursion
  <2>3. f \in [0..N -> Parser]
    BY DEF Recurs
  <2>4. ASSUME NEW i \in 0..N PROVE f[i] = IF i < q.next THEN q ELSE Parse(f[i - 1], s[i])
    <3>1. CASE i = 0
      BY <1>0, <1>1, <3>1 DEF Recurs
    <3>2. CASE i # 0
      <4>1. i \in 1..N /\ i - 1 \in 0..N
        BY <1>0, <3>2
      <4>2. f[i - 1] \in Parser /\ f[i] = step[i][f[i - 1]]
        BY <2>3, <4>1 DEF Recurs
      <4>. QED BY <2>2, <4>1, <4>2
    <3>. QED BY <3>1, <3>2
  <2>5. Is(f)
    BY <2>3, <2>4
  <2>. QED BY <2>5
<1>4. Push(p, s, m) = [drained[N] EXCEPT !.stuck = FALSE]
  BY DEF Push, N, q
<1>. HIDE DEF drained
<1>5. \A i \in 0..N : drained[i] = IF i < q.next THEN q ELSE Parse(drained[i - 1], s[i])
  BY <1>3
<1>6. 0 \in S
  <2>1. drained[0] = q
    BY <1>0, <1>1, <1>5
  <2>. QED BY <1>0, <1>1, <1>2, <2>1 DEF Drained
<1>7. ASSUME NEW k \in Nat, k \in S PROVE k + 1 \in S
  <2>. SUFFICES ASSUME k + 1 <= N PROVE Drained(s, q.next, drained[k + 1], n + m, k + 1)
    OBVIOUS
  <2>1. k + 1 \in 1..N /\ k + 1 \in 0..N /\ (k + 1) - 1 = k /\ q.next \in 1..(N + 1)
    BY <1>0, <1>1
  <2>2. Drained(s, q.next, drained[k], n + m, k)
    BY <1>0, <1>7, <2>1
  <2>3. CASE k + 1 < q.next
    <3>1. drained[k + 1] = q
      BY <1>5, <2>1, <2>3
    <3>. QED BY <1>1, <1>2, <2>3, <3>1 DEF Drained
  <2>4. CASE ~(k + 1 < q.next)
    <3>. DEFINE v == drained[k]
    <3>1. drained[k + 1] = Parse(v, s[k + 1])
      BY <1>5, <2>1, <2>4
    <3>. HIDE DEF v
    <3>2. CASE v.stuck
      <4>1. drained[k + 1] = v
        BY <3>1, <3>2 DEF Parse
      <4>. QED BY <2>2, <3>2, <4>1 DEF Drained, v
    <3>3. CASE ~v.stuck
      <4>1. v.next = k + 1 /\ Content(s, v, n + m) /\ v.format = Format(s[1])
        BY <2>1, <2>2, <2>4, <3>3 DEF Drained, v
      <4>2. /\ Content(s, drained[k + 1], n + m) /\ drained[k + 1].format = Format(s[1])
            /\ drained[k + 1].stuck => Stalled(s, drained[k + 1], n + m)
            /\ ~drained[k + 1].stuck => drained[k + 1].next = (k + 1) + 1
        <5>1. n + m \in Nat /\ k + 1 \in 1..Len(s)
          BY <2>1 DEF N
        <5>. QED BY <3>1, <3>3, <4>1, <5>1, Turn
      <4>. QED BY <2>4, <4>2 DEF Drained
    <3>. QED BY <3>2, <3>3
  <2>. QED BY <2>3, <2>4
<1>8. Drained(s, q.next, drained[N], n + m, N)
  <2>1. Nat \subseteq S
    <3>. HIDE DEF S
    <3>. QED BY <1>6, <1>7, Induction
  <2>. QED BY <1>0, <2>1
<1>. DEFINE v == drained[N]
            w == [v EXCEPT !.stuck = FALSE]
<1>9. v \in Parser /\ Content(s, v, n + m)
  BY <1>8 DEF Drained, Content
<1>10. Stalled(s, v, n + m)
  <2>1. ~v.stuck => v.next > N
    BY <1>0, <1>1, <1>8 DEF Drained
  <2>2. v.stuck => Stalled(s, v, n + m)
    BY <1>8 DEF Drained
  <2>. HIDE DEF v
  <2>3. v.next > N => ~(v.next <= Len(s))
    BY <1>0, <1>9, ParserFields DEF N
  <2>. QED BY <2>1, <2>2, <2>3 DEF Stalled
<1>. HIDE DEF v
<1>11. /\ w \in Parser /\ w.next = v.next /\ w.buffered = v.buffered /\ w.format = v.format
       /\ w.order = v.order /\ w.started = v.started /\ w.dlts = v.dlts /\ w.frames = v.frames
       /\ w.stuck = FALSE
  BY <1>9 DEF Parser
<1>12. Push(p, s, m) = w
  BY <1>4 DEF v
<1>. HIDE DEF w
<1>13. Content(s, w, n + m)
  BY <1>9, <1>11, SameContent
<1>14. Stalled(s, w, n + m)
  BY <1>10, <1>11 DEF Stalled
<1>. QED BY <1>11, <1>12, <1>13, <1>14

LEMMA FreshContent ==
  ASSUME NEW s, WellBegun(s)
  PROVE  Content(s, Fresh, 0) /\ ~Fresh.stuck /\ Stalled(s, Fresh, 0)
<1>1. s \in Seq(Block) /\ Len(s) \in Nat /\ 1 \in 1..Len(s)
  BY DEF WellBegun
<1>2. Fresh \in Parser
  <2>1. <<>> \in Seq(Nat) /\ <<>> \in Seq([block : Nat, ethernet : BOOLEAN])
    OBVIOUS
  <2>. QED BY <2>1 DEF Fresh, Parser, Order
<1>3. Fresh.next = 1 /\ Fresh.buffered = 0 /\ Fresh.dlts = <<>> /\ Fresh.frames = <<>>
  BY DEF Fresh
<1>4. Placed(s, Fresh, 0)
  <2>1. SizeUpTo(s, 0) = 0
    BY <1>1, SizeOf
  <2>. QED BY <1>1, <1>3, <2>1 DEF Placed
<1>5. Begun(s, Fresh)
  BY DEF Begun, Fresh
<1>6. Knows(s, Fresh)
  <2>1. Described(s, 1) = {}
    BY DEF Described
  <2>. QED BY <1>3, <2>1, KnowsNone
<1>7. Given(s, Fresh)
  BY <1>3 DEF Given
<1>8. Stalled(s, Fresh, 0)
  <2>. SUFFICES ASSUME Understood(s) PROVE 0 < SizeUpTo(s, 1)
    BY <1>3 DEF Stalled
  <2>1. s[1].size > 0 /\ s[1].size \in Nat
    BY <1>1, BlockSize
      DEF Understood, LeastBytes, ClassicHeaderBytes, ClassicRecordHeaderBytes, MinBlockBytes
  <2>2. SizeUpTo(s, 1) = SizeUpTo(s, 1 - 1) + s[1].size /\ SizeUpTo(s, 0) = 0
    BY <1>1, SizeOf
  <2>. QED BY <2>1, <2>2
<1>. QED BY <1>2, <1>4, <1>5, <1>6, <1>7, <1>8 DEF Content, Fresh

-----------------------------------------------------------------------------
(* The capture *)

\* The parser has taken in what was read.
Parsed ==
  /\ stream \in Streams /\ sent \in Nat
  /\ Content(stream, parser, sent) /\ ~parser.stuck /\ Stalled(stream, parser, sent)

LEMMA ReadSome ==
  ASSUME Read, sent \in Nat, written \in Nat
  PROVE  sent' \in sent..written /\ sent' - sent \in Nat
<1>. PICK n \in {k \in Chunk : k < written - sent} \union {written - sent} : sent' = sent + n
  BY DEF Read
<1>1. n \in Nat /\ n <= written - sent
  <2>1. CASE n \in Chunk /\ n < written - sent
    BY <2>1, ChunkAssumption
  <2>2. CASE n = written - sent
    BY <2>2 DEF Read
  <2>. QED BY <2>1, <2>2
<1>. QED BY <1>1

\* The child writes no more than the stream, block by block, and no more is
\* read than was written.
Piped ==
  /\ stream \in Streams
  /\ written \in 0..StreamBytes(stream) /\ sent \in 0..written

LEMMA PipedNat == Piped => written \in Nat /\ sent \in Nat /\ StreamBytes(stream) \in Nat
<1>. SUFFICES ASSUME Piped PROVE written \in Nat /\ sent \in Nat /\ StreamBytes(stream) \in Nat
  OBVIOUS
<1>1. stream \in Seq(Block)
  BY StreamsAssumption DEF Piped, WellBegun
<1>2. StreamBytes(stream) \in Nat
  <2>1. Len(stream) \in 0..Len(stream)
    BY <1>1
  <2>. QED BY <1>1, <2>1, SizeOf DEF StreamBytes
<1>. QED BY <1>2 DEF Piped

LEMMA PipedStep == Piped /\ [Next]_vars => Piped'
<1>. SUFFICES ASSUME Piped, [Next]_vars PROVE Piped'
  OBVIOUS
<1>0. written \in Nat /\ sent \in Nat /\ StreamBytes(stream) \in Nat
  BY PipedNat
<1>1. CASE UNCHANGED <<stream, written, sent>>
  BY <1>1 DEF Piped
<1>2. CASE Writes
  <2>1. stream \in Seq(Block) /\ stream' = stream /\ sent' = sent
    BY <1>2, StreamsAssumption DEF Piped, WellBegun, Writes
  <2>2. PICK i \in 1..Len(stream) :
          written = SizeUpTo(stream, i - 1) /\ written' = SizeUpTo(stream, i)
    BY <1>2, <2>1 DEF Writes
  <2>3. /\ Len(stream) \in Nat /\ i \in 0..Len(stream) /\ i - 1 \in 0..Len(stream)
        /\ i \in (i - 1)..Len(stream) /\ Len(stream) \in i..Len(stream)
    BY <2>1
  <2>4. written' \in Nat /\ written <= written' /\ written' <= StreamBytes(stream)
    BY <2>1, <2>2, <2>3, SizeOf, SizeGrows DEF StreamBytes
  <2>. QED BY <1>0, <2>1, <2>4 DEF Piped
<1>3. CASE Data
  <2>1. sent' \in sent..written
    BY <1>0, <1>3, ReadSome DEF Data
  <2>. QED BY <1>0, <1>3, <2>1 DEF Piped, Data
<1>. QED BY <1>1, <1>2, <1>3
     DEF Next, vars, calls, Start, SpawnFails, Ends, Close, StopCalled, StopTimesOut

LEMMA ParsedStep == Piped /\ Parsed /\ [Next]_vars => Parsed'
<1>. SUFFICES ASSUME Piped, Parsed, [Next]_vars PROVE Parsed'
  OBVIOUS
<1>1. CASE UNCHANGED <<stream, sent, parser>>
  BY <1>1 DEF Parsed
<1>2. CASE Data
  <2>1. sent \in Nat /\ sent' - sent \in Nat /\ sent' \in Nat /\ sent + (sent' - sent) = sent'
    BY <1>2, ReadSome, PipedNat DEF Data
  <2>2. stream' = stream /\ parser' = Push(parser, stream, sent' - sent)
    BY <1>2 DEF Data
  <2>3. WellBegun(stream)
    BY StreamsAssumption DEF Parsed
  <2>. QED BY <2>1, <2>2, <2>3, PushContent DEF Parsed
<1>. QED BY <1>1, <1>2
     DEF Next, vars, calls, Start, SpawnFails, Writes, Ends, Close, StopCalled, StopTimesOut

LEMMA ParsedInit == Init => Piped /\ Parsed
<1>. SUFFICES ASSUME Init PROVE Piped /\ Parsed
  OBVIOUS
<1>1. WellBegun(stream) /\ stream \in Streams /\ written = 0 /\ sent = 0 /\ parser = Fresh
  BY StreamsAssumption DEF Init
<1>2. StreamBytes(stream) \in Nat
  <2>1. Len(stream) \in 0..Len(stream) /\ stream \in Seq(Block)
    BY <1>1 DEF WellBegun
  <2>. QED BY <2>1, SizeOf DEF StreamBytes
<1>. QED BY <1>1, <1>2, FreshContent DEF Piped, Parsed

LEMMA ParsedAlways == Spec => [](Piped /\ Parsed)
BY ParsedInit, PipedStep, ParsedStep, PTL DEF Spec

\* The process and its calls keep to their states.
Staged ==
  /\ child \in {"none", "refused", "unspawned", "running", "exited", "closed"}
  /\ code \in {"none", "zero", "failed", "signal"}
  /\ {held, stopping, reported} \subseteq BOOLEAN

LEMMA StagedStep == Staged /\ [Next]_vars => Staged'
BY DEF Staged, Next, vars, calls, Start, SpawnFails, Writes, Data, Ends, Close, EndOf, Report,
       Quiet, StopCalled, Wait, StopTimesOut, Killed

\* The variables keep to their types, and the buffer holds exactly the bytes
\* that were read and not consumed, for every stream of the two formats and
\* however it is cut into chunks.
THEOREM TypeCorrect == Spec => []TypeOK
<1>1. Init => Staged /\ ToldOnce /\ StopsType
  <2>1. Init => Staged
    BY DEF Init, Staged
  <2>2. Init => ToldOnce
    BY DEF Init, ToldOnce
  <2>3. Init => StopsType
    BY DEF Init, StopsType, StopState
  <2>. QED BY <2>1, <2>2, <2>3
<1>2. Staged /\ ToldOnce /\ StopsType /\ Piped /\ Parsed => TypeOK
  <2>. SUFFICES ASSUME Staged, ToldOnce, StopsType, Piped, Parsed PROVE TypeOK
    OBVIOUS
  <2>1. /\ parser.next \in 1..(Len(stream) + 1) /\ parser.buffered \in Int
        /\ parser.buffered = sent - SizeUpTo(stream, parser.next - 1) /\ parser.buffered >= 0
    BY ParserFields DEF Parsed, Content, Placed
  <2>. QED BY <2>1 DEF TypeOK, Staged, ToldOnce, StopsType, StopState, Piped
<1>3. Spec => [](Piped /\ Parsed)
  BY ParsedAlways
<1>. QED BY <1>1, <1>2, <1>3, StagedStep, ToldOnceStep, StopsTypeStep, PTL DEF Spec

\* However the output is cut, subscribers get the packets of the stream, in
\* their order and each once, with the link type of their section's interface:
\* all that have arrived if the parser understands the stream, else the first.
THEOREM FramesAlwaysInOrder == Spec => []FramesInOrder
<1>1. Parsed => FramesInOrder
  <2>. SUFFICES ASSUME Parsed PROVE FramesInOrder
    OBVIOUS
  <2>. DEFINE F == parser.frames
              next == parser.next
              taken == {F[k].block : k \in DOMAIN F}
              received == PacketsWithin(stream, sent)
  <2>1. /\ stream \in Seq(Block) /\ Len(stream) \in Nat /\ next \in 1..(Len(stream) + 1)
        /\ sent \in Nat /\ parser.buffered \in Int /\ Given(stream, parser)
        /\ SizeUpTo(stream, next - 1) \in Nat /\ SizeUpTo(stream, next - 1) <= sent
    <3>1. stream \in Seq(Block) /\ next \in 1..(Len(stream) + 1) /\ Len(stream) \in Nat
      BY StreamsAssumption DEF Parsed, Content, Placed, WellBegun
    <3>2. parser.buffered \in Int /\ parser.buffered = sent - SizeUpTo(stream, next - 1)
          /\ parser.buffered >= 0
      BY ParserFields DEF Parsed, Content, Placed
    <3>3. SizeUpTo(stream, next - 1) \in Nat
      BY <3>1, SizeOf
    <3>. QED BY <3>1, <3>2, <3>3 DEF Parsed, Content
  <2>. HIDE DEF next
  <2>2. ASSUME NEW i \in taken PROVE i \in 1..(next - 1) /\ IsPacket(stream[i])
    BY <2>1 DEF Given, next
  <2>3. ASSUME NEW i \in 1..(next - 1), IsPacket(stream[i]) PROVE i \in taken
    BY <2>1, <2>3 DEF Given, next
  <2>. HIDE DEF taken
  <2>4. \A i \in received : i \in 1..Len(stream) /\ IsPacket(stream[i]) /\ SizeUpTo(stream, i) <= sent
    BY <2>1 DEF PacketsWithin
  <2>5. \A i \in 1..Len(stream) : IsPacket(stream[i]) /\ SizeUpTo(stream, i) <= sent => i \in received
    BY <2>1 DEF PacketsWithin
  <2>. HIDE DEF received
  <2>6. taken \subseteq received
    <3>. SUFFICES ASSUME NEW i \in taken PROVE i \in received
      OBVIOUS
    <3>1. i \in 1..Len(stream) /\ i \in 0..Len(stream) /\ next - 1 \in i..Len(stream)
      BY <2>1, <2>2
    <3>2. SizeUpTo(stream, i) <= SizeUpTo(stream, next - 1) /\ SizeUpTo(stream, i) \in Nat
      BY <2>1, <3>1, SizeGrows, SizeOf
    <3>. QED BY <2>1, <2>2, <2>5, <3>1, <3>2
  <2>7. ASSUME NEW i \in taken, NEW j \in received, j < i PROVE j \in taken
    BY <2>1, <2>2, <2>3, <2>4, <2>7
  <2>8. ASSUME Understood(stream), NEW j \in received PROVE j \in taken
    <3>1. ~(j >= next)
      <4>. SUFFICES ASSUME j >= next PROVE FALSE
        OBVIOUS
      <4>1. next \in 0..Len(stream) /\ j \in next..Len(stream) /\ next <= Len(stream)
        BY <2>1, <2>4
      <4>2. SizeUpTo(stream, next) <= SizeUpTo(stream, j) /\ SizeUpTo(stream, next) \in Nat
            /\ SizeUpTo(stream, j) \in Nat
        BY <2>1, <2>4, <4>1, SizeGrows, SizeOf
      <4>3. sent < SizeUpTo(stream, next)
        BY <2>8, <4>1 DEF Parsed, Stalled, next
      <4>. QED BY <2>1, <2>4, <4>2, <4>3
    <3>. QED BY <2>1, <2>3, <2>4, <3>1
  <2>. QED BY <2>1, <2>6, <2>7, <2>8 DEF FramesInOrder, Given, taken, received
<1>. QED BY <1>1, ParsedAlways, PTL
=============================================================================
