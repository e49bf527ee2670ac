---------------------------- MODULE PacketCapture ----------------------------
(***************************************************************************)
(* SubprocessPacketSource: a capture process is started, read and stopped. *)
(* The child may fail to start, write, end by itself, or ignore SIGTERM;   *)
(* its end (exitCode) and the end of its output (close) come apart.        *)
(***************************************************************************)
EXTENDS CaptureStream

CONSTANTS
  Streams,   \* what the capture program may write
  StopCall,  \* calls of stop()
  Chunk      \* lengths in which the output is read, besides all there is

ASSUME StreamsAssumption == \A s \in Streams : WellBegun(s)
ASSUME ChunkAssumption == Chunk \subseteq Nat \ {0}

VARIABLES
  stream,    \* what the program writes in this session
  child,     \* the process, from the program's side
  held,      \* #child is set
  code,      \* exitCode or signalCode, once set
  written,   \* bytes the child has written
  sent,      \* bytes that were read from it
  parser,    \* #parser
  stopping,  \* #stopping
  reported,  \* #errorReported
  errors,    \* what onError was told
  stops      \* stops[c]: the call c of stop()

vars == <<stream, child, held, code, written, sent, parser, stopping, reported, errors, stops>>
calls == <<stopping, stops>>

Errors == {"not started", "missing", "ended", "failed"}

Init ==
  /\ stream \in Streams
  /\ child = "none" /\ held = FALSE /\ code = "none"
  /\ written = 0 /\ sent = 0 /\ parser = Fresh
  /\ stopping = FALSE /\ reported = FALSE /\ errors = <<>>
  /\ stops = [c \in StopCall |-> "idle"]

\* Mutant: what follows a failed spawn is reported too.
ReportAgain(e) == errors' = Append(errors, e) /\ reported' = TRUE
\* Only the first error is reported.
Report(e) ==
  /\ errors' = IF reported THEN errors ELSE Append(errors, e)
  /\ reported' = TRUE

Quiet == UNCHANGED <<reported, errors>>

-----------------------------------------------------------------------------
\* start(): spawn returns a process, or one that will turn out not to exist,
\* or throws.
Start ==
  /\ child = "none"
  /\ \/ child' \in {"running", "unspawned"} /\ held' = TRUE /\ Quiet
     \/ child' = "refused" /\ Report("not started") /\ UNCHANGED held
  /\ UNCHANGED <<stream, code, written, sent, parser, calls>>

\* The event "error": the program does not exist, or cannot be run.
SpawnFails ==
  /\ child = "unspawned"
  /\ child' = "exited" /\ code' = "failed"
  /\ \E e \in {"missing", "not started"} : Report(e)
  /\ UNCHANGED <<stream, held, written, sent, parser, calls>>

\* The child writes the next block.
Writes ==
  /\ child = "running"
  /\ \E i \in DOMAIN stream :
       written = SizeUpTo(stream, i - 1) /\ written' = SizeUpTo(stream, i)
  /\ UNCHANGED <<stream, child, held, code, sent, parser, calls, reported, errors>>

\* Any part of what is in the pipe.
Read ==
  /\ child \in {"running", "exited"}
  /\ written > sent
  /\ \E n \in {k \in Chunk : k < written - sent} \union {written - sent} : sent' = sent + n

\* The event "data".  What the parser throws is caught.
Data ==
  /\ Read
  /\ parser' = Push(parser, stream, sent' - sent)
  /\ UNCHANGED <<stream, child, held, code, written, calls, reported, errors>>

\* The child ends by itself, or obeys SIGTERM.
Ends ==
  /\ child = "running"
  /\ child' = "exited"
  /\ code' \in {"zero", "failed", "signal"}
  /\ UNCHANGED <<stream, held, written, sent, parser, calls, reported, errors>>

\* Mutant: an exit code of zero is no error.
EndOfZeroIgnored ==
  IF code = "failed" THEN Report("failed") ELSE Quiet
\* The child's end, if nobody has asked for it.
EndOf ==
  Report(IF code = "failed" THEN "failed" ELSE "ended")

\* The event "close": the child has ended and its output is read.  A stop()
\* that waits for it goes on at once.
Close ==
  /\ child = "exited"
  /\ sent = written
  /\ child' = "closed"
  /\ IF stopping THEN Quiet ELSE EndOf
  /\ stopping' = (stopping /\ \A c \in StopCall : stops[c] # "waiting")
  /\ stops' = [c \in StopCall |-> IF stops[c] = "waiting" THEN "closed" ELSE stops[c]]
  /\ UNCHANGED <<stream, held, code, written, sent, parser>>

-----------------------------------------------------------------------------
\* Mutant: stop() does not say that it is stopping.
WaitUnmarked(c) == stops' = [stops EXCEPT ![c] = "waiting"] /\ UNCHANGED stopping
Wait(c) == stops' = [stops EXCEPT ![c] = "waiting"] /\ stopping' = TRUE

\* stop() up to its await, if it has one: without a child, or with one that
\* has ended, it returns.
StopCalled(c) ==
  /\ stops[c] = "idle"
  /\ child # "none"
  /\ held' = FALSE
  /\ CASE ~held -> stops' = [stops EXCEPT ![c] = "nothing"] /\ stopping' = TRUE
       [] held /\ code # "none" -> stops' = [stops EXCEPT ![c] = "ended"] /\ stopping' = FALSE
       [] held /\ code = "none" -> Wait(c)
  /\ UNCHANGED <<stream, child, code, written, sent, parser, reported, errors>>

\* SIGKILL, which is not ignored.
Killed ==
  IF child = "running" THEN child' = "exited" /\ code' = "signal" ELSE UNCHANGED <<child, code>>

\* Mutant: the timeout is never due.
Never(c) == FALSE
Due(c) == stops[c] = "waiting"

\* Two seconds have passed: kill, and return without waiting for the end.
StopTimesOut(c) ==
  /\ Due(c)
  /\ Killed
  /\ stopping' = FALSE
  /\ stops' = [stops EXCEPT ![c] = "late"]
  /\ UNCHANGED <<stream, held, written, sent, parser, reported, errors>>

Next ==
  \/ Start
  \/ SpawnFails
  \/ Writes
  \/ Data
  \/ Ends
  \/ Close
  \/ \E c \in StopCall : StopCalled(c) \/ StopTimesOut(c)

Spec == Init /\ [][Next]_vars

\* Events arrive and timers fire.  The child owes nothing: it may ignore
\* SIGTERM, and need not write or end.
Fairness ==
  /\ WF_vars(SpawnFails)
  /\ WF_sent(Read)
  /\ WF_vars(Close)
  /\ \A c \in StopCall : WF_vars(StopTimesOut(c))

FairSpec == Spec /\ Fairness

-----------------------------------------------------------------------------
(* Properties *)

\* The variables keep to their types; the buffer holds what was read and has
\* not been consumed.
TypeOK ==
  /\ stream \in Streams
  /\ child \in {"none", "refused", "unspawned", "running", "exited", "closed"}
  /\ code \in {"none", "zero", "failed", "signal"}
  /\ {held, stopping, reported} \subseteq BOOLEAN
  /\ written \in 0..StreamBytes(stream) /\ sent \in 0..written
  /\ parser.next \in 1..(Len(stream) + 1)
  /\ parser.buffered \in Nat /\ parser.buffered = sent - SizeUpTo(stream, parser.next - 1)
  /\ errors \in Seq(Errors)
  /\ stops \in [StopCall -> {"idle", "waiting", "closed", "nothing", "ended", "late"}]

\* However the output is cut, the frames are the packets that the stream
\* contains so far, in their order and each once, with the link type of their
\* section's interface; none is held back once its last byte has been read.  Of
\* a stream that the parser does not understand, they are the first ones.
FramesInOrder ==
  LET frames == parser.frames
      taken == {frames[k].block : k \in DOMAIN frames}
      received == PacketsWithin(stream, sent)
  IN /\ \A k, l \in DOMAIN frames : k < l => frames[k].block < frames[l].block
     /\ \A k \in DOMAIN frames : frames[k].ethernet = IsEthernet(stream, frames[k].block)
     /\ taken \subseteq received
     /\ \A i \in taken, j \in received : j < i => j \in taken
     /\ Understood(stream) => taken = received

\* A failed spawn emits both "error" and "close"; one of them is reported.
ErrorOnce == Len(errors) <= 1

\* A stop that was asked for is not reported as a failure of the capture,
\* unless the child had ended before, could not be started, or let stop()
\* time out (then the flag is reset before the end comes).
StoppedQuietly ==
  [][errors' # errors /\ (\E c \in StopCall : stops[c] # "idle") =>
       child = "unspawned" \/ \E c \in StopCall : stops[c] \in {"ended", "late"}]_vars

\* stop() returns and the child goes, even one that ignores SIGTERM.
StopEnds ==
  \A c \in StopCall : stops[c] = "waiting" ~> (stops[c] # "waiting" /\ child = "closed")

\* An end that nobody has asked for is reported.
EndReported ==
  child = "exited" ~> (errors # <<>> \/ \E c \in StopCall : stops[c] # "idle")
=============================================================================
