----------------------------- MODULE LinkMonitor -----------------------------
(***************************************************************************)
(* PollingLinkMonitor: one monitor, started, disposed and started again by *)
(* the engine, while reads of the link state are under way.  A read is     *)
(* asynchronous: reads may overlap, fail and be answered in any order.     *)
(***************************************************************************)
EXTENDS Naturals, FiniteSets

CONSTANTS
  Read,      \* reads of the link state that may be under way together
  Interval,  \* interval timers that may run together
  MaxFlips,  \* bound: changes of the physical link
  MaxFaults, \* bound: reads that fail or learn nothing
  MaxDisposals, \* bound: calls of dispose()
  NoTimer    \* #timer is undefined

ASSUME BoundsAssumption == {MaxFlips, MaxFaults, MaxDisposals} \subseteq Nat
ASSUME NoTimerAssumption == NoTimer \notin Interval
ASSUME FiniteAssumption == IsFiniteSet(Interval) /\ IsFiniteSet(Read)

LinkState == {"up", "down", "unknown"}

VARIABLES
  link,       \* the physical link
  state,      \* #state
  polling,    \* #polling
  timer,      \* #timer
  intervals,  \* the interval timers that run
  reads,      \* reads[r]: who waits for read r, and what it found
  listening,  \* the engine is subscribed
  heard,      \* the last state its listener was told, if any
  flips, faults, disposals,
  overtaken   \* how many first polls a dispose() did not wait for

vars == <<link, state, polling, timer, intervals, reads, listening, heard, flips, faults,
          disposals, overtaken>>
bounds == <<flips, faults, disposals>>

Idle == [for |-> "nobody", found |-> "unknown"]
\* A start() waits for its first poll; "disposed" is one that a dispose() has
\* overtaken, which neither of them notices.
Waiter == {"nobody", "start", "disposed", "interval"}
Result == LinkState \union {"failed"}

Init ==
  /\ link \in {"up", "down"}
  /\ state = "unknown" /\ polling = FALSE
  /\ timer = NoTimer /\ intervals = {}
  /\ reads = [r \in Read |-> Idle]
  /\ listening = FALSE /\ heard = "nothing"
  /\ flips = 0 /\ faults = 0 /\ disposals = 0 /\ overtaken = 0

FirstPolls == {r \in Read : reads[r].for = "start"}

\* A read begins, for w.  What it finds is the link as it is now, nothing the
\* platform can name, or an error.
ReadBegins(r, w) ==
  /\ reads[r] = Idle
  /\ \E found \in Result :
       /\ found # link => faults < MaxFaults /\ found \in {"unknown", "failed"}
       /\ faults' = IF found = link THEN faults ELSE faults + 1
       /\ reads' = [reads EXCEPT ![r] = [for |-> w, found |-> found]]

-----------------------------------------------------------------------------
\* The engine starts the monitor and subscribes; a running one is not started
\* again.
Watch ==
  /\ listening' = TRUE
  /\ heard' = IF listening THEN heard ELSE "nothing"
  /\ IF polling
     THEN UNCHANGED <<polling, reads, faults>>
     ELSE polling' = TRUE /\ \E r \in Read : ReadBegins(r, "start")
  /\ UNCHANGED <<link, state, timer, intervals, flips, disposals, overtaken>>

\* Mutant: the state is told but not kept.
TellOnly(found) ==
  /\ heard' = IF listening THEN found ELSE heard
  /\ UNCHANGED state

\* The state has changed: keep it and tell the subscribers.
Tell(found) ==
  /\ state' = found
  /\ heard' = IF listening THEN found ELSE heard

\* Mutant: start() does not remember its timer.
NewIntervalUnheld ==
  /\ \E i \in Interval \ intervals : intervals' = intervals \union {i}
  /\ UNCHANGED timer

\* start() goes on after its first poll: #timer now holds the new interval,
\* whatever it held and whatever has been disposed.
NewInterval ==
  \E i \in Interval \ intervals :
    /\ intervals' = intervals \union {i}
    /\ timer' = i

\* A failed read keeps the previous state.
NoNews(r) == reads[r].found \in {"failed", state}

\* A read is answered.
Answer(r) ==
  /\ reads[r].for # "nobody"
  /\ IF NoNews(r)
     THEN UNCHANGED <<state, heard>>
     ELSE Tell(reads[r].found)
  /\ IF reads[r].for \in {"start", "disposed"}
     THEN NewInterval
     ELSE UNCHANGED <<timer, intervals>>
  /\ reads' = [reads EXCEPT ![r] = Idle]
  /\ UNCHANGED <<link, polling, listening, bounds, overtaken>>

\* An interval fires: another poll, whether the last one was answered or not.
Tick ==
  /\ intervals # {}
  /\ \E r \in Read : ReadBegins(r, "interval")
  /\ UNCHANGED <<link, state, polling, timer, intervals, listening, heard, flips, disposals,
                 overtaken>>

\* Mutant: a disposed monitor takes itself for a polling one.
StillPolling == UNCHANGED polling
StopsPolling == polling' = FALSE

Dispose ==
  /\ disposals < MaxDisposals
  /\ disposals' = disposals + 1
  /\ intervals' = intervals \ {timer}
  /\ timer' = NoTimer
  /\ StopsPolling
  /\ listening' = FALSE
  /\ overtaken' = overtaken + Cardinality(FirstPolls)
  /\ reads' = [r \in Read |-> IF r \in FirstPolls THEN [reads[r] EXCEPT !.for = "disposed"]
                             ELSE reads[r]]
  /\ UNCHANGED <<link, state, heard, flips, faults>>

LinkChanges ==
  /\ flips < MaxFlips
  /\ flips' = flips + 1
  /\ link' = IF link = "up" THEN "down" ELSE "up"
  /\ UNCHANGED <<state, polling, timer, intervals, reads, listening, heard, faults, disposals,
                 overtaken>>

Next ==
  \/ Watch
  \/ \E r \in Read : Answer(r)
  \/ Tick
  \/ Dispose
  \/ LinkChanges

Spec == Init /\ [][Next]_vars

\* Timers fire and reads are answered.
Fairness == WF_vars(Tick) /\ \A r \in Read : WF_vars(Answer(r))

FairSpec == Spec /\ Fairness

-----------------------------------------------------------------------------
(* Properties *)

\* The variables keep to their types.
TypeOK ==
  /\ link \in {"up", "down"} /\ state \in LinkState
  /\ polling \in BOOLEAN /\ listening \in BOOLEAN
  /\ timer \in Interval \union {NoTimer} /\ intervals \subseteq Interval
  /\ reads \in [Read -> [for : Waiter, found : Result]]
  /\ heard \in LinkState \union {"nothing"}
  /\ flips \in 0..MaxFlips /\ faults \in 0..MaxFaults /\ disposals \in 0..MaxDisposals
  /\ overtaken \in Nat

\* start() is idempotent and dispose() ends what it started: the monitor runs
\* one interval while it polls and none otherwise.  Only a dispose() during a
\* first poll leaves one behind, which nothing clears and which keeps the
\* process from ending; there are never more of them than such calls.
IntervalsAccounted ==
  Cardinality(intervals) <= (IF polling /\ FirstPolls = {} THEN 1 ELSE 0) + overtaken

\* What the engine was told last is what the monitor holds, however reads
\* overlap: it never waits for a change that the monitor has already seen.
ToldWhatItHolds == listening /\ heard # "nothing" => heard = state

\* The states the link has had.
Had == {link} \union (IF flips > 0 THEN {"up", "down"} ELSE {})

Port == INSTANCE LinkWatch WITH had <- Had, held <- state, watching <- listening, told <- heard

\* The monitor keeps the promises of its port, however reads overlap, fail and
\* are answered, and however often the engine disposes of it and starts it
\* again: a late answer of a read from before a dispose() included, and a
\* change of the link during the last poll.
ImplementsPort == Port!Promise
=============================================================================
