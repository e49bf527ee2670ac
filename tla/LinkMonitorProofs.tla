-------------------------- MODULE LinkMonitorProofs --------------------------
(***************************************************************************)
(* Proofs about LinkMonitor, for any number of overlapping reads, failures *)
(* and disposals: type correctness, that the engine was told what the      *)
(* monitor holds, and that every interval timer is accounted for.          *)
(***************************************************************************)
EXTENDS LinkMonitor, FiniteSetTheorems, TLAPS

USE BoundsAssumption, NoTimerAssumption, FiniteAssumption

\* First polls that a dispose() has overtaken.
Overtaken == {r \in Read : reads[r].for = "disposed"}

\* What the monitor owes, now or once its first poll is answered: its own
\* timer, and one for each start() that was disposed of.
Owed == (IF polling /\ FirstPolls = {} THEN 1 ELSE 0) + overtaken

\* IntervalsAccounted is not inductive: a disposed start() has yet to make its
\* interval, a dispose() clears the timer that is held only if it is one that
\* runs, and a second first poll would make an interval too many.
Accounts ==
  /\ Cardinality(intervals) + Cardinality(Overtaken) <= Owed
  /\ polling /\ FirstPolls = {} => timer \in intervals
  /\ FirstPolls # {} => polling
  /\ \A r, q \in FirstPolls : r = q

-----------------------------------------------------------------------------
(* Type correctness *)

\* A read that begins is well formed and the only one that changes.
LEMMA ReadType ==
  ASSUME TypeOK, NEW r \in Read, NEW w \in Waiter \ {"nobody"}, ReadBegins(r, w)
  PROVE  /\ reads' \in [Read -> [for : Waiter, found : Result]]
         /\ reads'[r].for = w /\ reads[r].for = "nobody"
         /\ \A q \in Read \ {r} : reads'[q] = reads[q]
         /\ faults' \in 0..MaxFaults
<1>. PICK found \in Result :
       /\ found # link => faults < MaxFaults /\ found \in {"unknown", "failed"}
       /\ faults' = IF found = link THEN faults ELSE faults + 1
       /\ reads' = [reads EXCEPT ![r] = [for |-> w, found |-> found]]
  BY DEF ReadBegins
<1>1. [for |-> w, found |-> found] \in [for : Waiter, found : Result]
  OBVIOUS
<1>2. reads[r].for = "nobody"
  BY DEF ReadBegins, Idle
<1>. QED BY <1>1, <1>2 DEF TypeOK

LEMMA Bounds == MaxFlips \in Nat /\ MaxFaults \in Nat /\ MaxDisposals \in Nat
  BY DEF BoundsAssumption

LEMMA TypeInit == Init => TypeOK
<1>. SUFFICES ASSUME Init PROVE TypeOK
  OBVIOUS
<1>1. Idle \in [for : Waiter, found : Result]
  BY DEF Idle, Waiter, Result, LinkState
<1>2. reads \in [Read -> [for : Waiter, found : Result]]
  BY <1>1 DEF Init
<1>3. flips \in 0..MaxFlips /\ faults \in 0..MaxFaults /\ disposals \in 0..MaxDisposals
  BY Bounds DEF Init
<1>4. overtaken \in Nat
  BY DEF Init
<1>. QED BY <1>2, <1>3, <1>4 DEF Init, TypeOK, LinkState

LEMMA TypeStep == TypeOK /\ [Next]_vars => TypeOK'
<1>. SUFFICES ASSUME TypeOK, [Next]_vars PROVE TypeOK'
  OBVIOUS
<1>1. CASE Watch
  <2>1. CASE polling
    BY <1>1, <2>1 DEF Watch, TypeOK
  <2>2. CASE ~polling
    <3>. PICK r \in Read : ReadBegins(r, "start")
      BY <1>1, <2>2 DEF Watch
    <3>. QED BY <1>1, <2>2, ReadType DEF Watch, TypeOK, Waiter
  <2>. QED BY <2>1, <2>2
<1>2. ASSUME NEW r \in Read, Answer(r) PROVE TypeOK'
  <2>1. reads' \in [Read -> [for : Waiter, found : Result]]
    BY <1>2 DEF Answer, TypeOK, Idle, Waiter, Result, LinkState
  <2>2. state' \in LinkState /\ heard' \in LinkState \union {"nothing"}
    BY <1>2 DEF Answer, NoNews, Tell, TypeOK, Result
  <2>3. timer' \in Interval \union {NoTimer} /\ intervals' \subseteq Interval
    BY <1>2 DEF Answer, NewInterval, TypeOK
  <2>. QED BY <1>2, <2>1, <2>2, <2>3 DEF Answer, bounds, TypeOK
<1>3. CASE Tick
  <2>. PICK r \in Read : ReadBegins(r, "interval")
    BY <1>3 DEF Tick
  <2>. QED BY <1>3, ReadType DEF Tick, TypeOK, Waiter
<1>4. CASE Dispose
  <2>1. reads' \in [Read -> [for : Waiter, found : Result]]
    BY <1>4 DEF Dispose, TypeOK, Waiter
  <2>2. IsFiniteSet(FirstPolls)
    BY FS_Subset DEF FirstPolls
  <2>3. overtaken' \in Nat
    BY <1>4, <2>2, FS_CardinalityType DEF Dispose, TypeOK
  <2>4. disposals' \in 0..MaxDisposals
    BY <1>4, Bounds DEF Dispose, TypeOK
  <2>5. timer' \in Interval \union {NoTimer} /\ intervals' \subseteq Interval
    BY <1>4 DEF Dispose, TypeOK
  <2>. QED BY <1>4, <2>1, <2>3, <2>4, <2>5 DEF Dispose, StopsPolling, TypeOK
<1>5. CASE LinkChanges
  BY <1>5 DEF LinkChanges, TypeOK
<1>6. CASE UNCHANGED vars
  BY <1>6 DEF vars, bounds, TypeOK
<1>. QED BY <1>1, <1>2, <1>3, <1>4, <1>5, <1>6 DEF Next

\* The variables of the monitor keep to their types.
THEOREM TypeCorrect == Spec => []TypeOK
  BY TypeInit, TypeStep, PTL DEF Spec

-----------------------------------------------------------------------------
(* What the engine was told *)

LEMMA ToldStep == ToldWhatItHolds /\ [Next]_vars => ToldWhatItHolds'
  BY DEF ToldWhatItHolds, Next, vars, bounds, Watch, Answer, Tell, Tick, Dispose, LinkChanges

\* However reads overlap, fail and are answered, the engine was last told the
\* state that the monitor holds: a restarted monitor never takes for known
\* what its new listener has not heard since it last heard anything.
THEOREM ToldAlways == Spec => []ToldWhatItHolds
<1>1. Init => ToldWhatItHolds
  BY DEF Init, ToldWhatItHolds
<1>. QED BY <1>1, ToldStep, PTL DEF Spec

-----------------------------------------------------------------------------
(* The interval timers *)

LEMMA Finite ==
  ASSUME TypeOK
  PROVE  /\ IsFiniteSet(intervals) /\ Cardinality(intervals) \in Nat
         /\ IsFiniteSet(FirstPolls) /\ Cardinality(FirstPolls) \in Nat
         /\ IsFiniteSet(Overtaken) /\ Cardinality(Overtaken) \in Nat
  BY FS_Subset, FS_CardinalityType DEF TypeOK, FirstPolls, Overtaken

\* An answered first poll, or disposed one, leaves one interval more.
LEMMA NewIntervalCounts ==
  ASSUME TypeOK, NewInterval
  PROVE  Cardinality(intervals') = Cardinality(intervals) + 1 /\ timer' \in intervals'
  BY Finite, FS_AddElement DEF NewInterval

LEMMA AccountsInit == Init => Accounts
<1>. SUFFICES ASSUME Init PROVE Accounts
  OBVIOUS
<1>1. FirstPolls = {} /\ Overtaken = {}
  BY DEF Init, FirstPolls, Overtaken, Idle
<1>. QED BY <1>1, FS_EmptySet DEF Init, Accounts, Owed

\* A read begins for w: no start() is forgotten, none is overtaken.
LEMMA ReadPolls ==
  ASSUME TypeOK, NEW r \in Read, NEW w \in {"start", "interval"}, ReadBegins(r, w)
  PROVE  /\ Overtaken' = Overtaken
         /\ FirstPolls' = IF w = "start" THEN FirstPolls \union {r} ELSE FirstPolls
  BY ReadType DEF Overtaken, FirstPolls, Waiter

LEMMA AccountsWatch ==
  ASSUME TypeOK, Accounts, Watch
  PROVE  Accounts'
<1>1. CASE polling
  BY <1>1 DEF Watch, Accounts, Owed, FirstPolls, Overtaken
<1>2. CASE ~polling
  <2>. PICK r \in Read : ReadBegins(r, "start")
    BY <1>2 DEF Watch
  <2>1. FirstPolls' = {r} /\ Overtaken' = Overtaken
    BY <1>2, ReadPolls DEF Accounts
  <2>2. Owed' = Owed
    BY <1>2, <2>1 DEF Watch, Owed
  <2>. QED BY <1>2, <2>1, <2>2 DEF Watch, Accounts
<1>. QED BY <1>1, <1>2

LEMMA AccountsAnswer ==
  ASSUME TypeOK, Accounts, NEW r \in Read, Answer(r)
  PROVE  Accounts'
<1>1. /\ FirstPolls' = FirstPolls \ {r}
      /\ Overtaken' = Overtaken \ {r}
  BY DEF Answer, TypeOK, FirstPolls, Overtaken, Idle
<1>. UNCHANGED <<polling, overtaken>>
  BY DEF Answer
<1>2. CASE reads[r].for = "interval"
  <2>1. r \notin FirstPolls /\ r \notin Overtaken
    BY <1>2 DEF FirstPolls, Overtaken
  <2>. QED BY <1>1, <1>2, <2>1 DEF Answer, Accounts, Owed
<1>3. CASE reads[r].for = "start"
  <2>1. r \in FirstPolls /\ r \notin Overtaken
    BY <1>3 DEF FirstPolls, Overtaken
  <2>2. polling /\ FirstPolls' = {} /\ Overtaken' = Overtaken
    BY <1>1, <2>1 DEF Accounts
  <2>3. Owed = overtaken /\ Owed' = 1 + overtaken
    BY <2>1, <2>2 DEF Owed, TypeOK
  <2>. QED BY <1>3, <2>2, <2>3, NewIntervalCounts, Finite DEF Answer, Accounts, TypeOK
<1>4. CASE reads[r].for = "disposed"
  <2>1. r \notin FirstPolls /\ r \in Overtaken
    BY <1>4 DEF FirstPolls, Overtaken
  <2>2. FirstPolls' = FirstPolls /\ Owed' = Owed
    BY <1>1, <2>1 DEF Owed
  <2>3. Cardinality(Overtaken') = Cardinality(Overtaken) - 1
    BY <1>1, <2>1, Finite, FS_RemoveElement
  <2>4. Cardinality(intervals') = Cardinality(intervals) + 1 /\ timer' \in intervals'
    BY <1>4, NewIntervalCounts DEF Answer
  <2>. QED BY <2>2, <2>3, <2>4, Finite DEF Accounts
<1>. QED BY <1>2, <1>3, <1>4 DEF Answer, TypeOK, Waiter

LEMMA AccountsDispose ==
  ASSUME TypeOK, Accounts, Dispose
  PROVE  Accounts'
<1>1. FirstPolls' = {} /\ Overtaken' = Overtaken \union FirstPolls
  BY DEF Dispose, FirstPolls, Overtaken, TypeOK
<1>2. Owed' = overtaken + Cardinality(FirstPolls)
  BY Finite DEF Dispose, StopsPolling, Owed, TypeOK
<1>3. Cardinality(intervals') =
        IF timer \in intervals THEN Cardinality(intervals) - 1 ELSE Cardinality(intervals)
  <2>1. Cardinality(intervals \ {timer}) =
          IF timer \in intervals THEN Cardinality(intervals) - 1 ELSE Cardinality(intervals)
    BY Finite, FS_RemoveElement
  <2>. QED BY <2>1 DEF Dispose
<1>4. CASE FirstPolls = {}
  <2>1. Cardinality(FirstPolls) = 0 /\ Overtaken' = Overtaken
    BY <1>1, <1>4, FS_EmptySet
  <2>2. Owed' = overtaken
    BY <1>2, <2>1 DEF TypeOK
  <2>3. Cardinality(intervals') + Cardinality(Overtaken) <= overtaken
    <3>1. CASE polling
      BY <1>3, <1>4, <3>1, Finite DEF Accounts, Owed, TypeOK
    <3>2. CASE ~polling
      BY <1>3, <3>2, Finite DEF Accounts, Owed, TypeOK
    <3>. QED BY <3>1, <3>2
  <2>. QED BY <1>1, <2>1, <2>2, <2>3 DEF Accounts, Dispose, StopsPolling
<1>5. CASE FirstPolls # {}
  <2>. PICK r \in FirstPolls : TRUE
    BY <1>5
  <2>. FirstPolls = {r}
    BY DEF Accounts
  <2>1. Cardinality(FirstPolls) = 1
    BY FS_Singleton
  <2>2. r \notin Overtaken
    BY DEF FirstPolls, Overtaken
  <2>3. Cardinality(Overtaken') = Cardinality(Overtaken) + 1
    BY <1>1, <2>2, Finite, FS_AddElement
  <2>4. Owed = overtaken /\ Owed' = overtaken + 1
    BY <1>2, <1>5, <2>1 DEF Owed, TypeOK
  <2>5. Cardinality(intervals') + Cardinality(Overtaken') <= Owed'
    BY <1>3, <2>3, <2>4, Finite DEF Accounts, TypeOK
  <2>. QED BY <1>1, <2>5 DEF Accounts, Dispose, StopsPolling
<1>. QED BY <1>4, <1>5

LEMMA AccountsStep == TypeOK /\ Accounts /\ [Next]_vars => Accounts'
<1>. SUFFICES ASSUME TypeOK, Accounts, [Next]_vars PROVE Accounts'
  OBVIOUS
<1>1. CASE Tick
  <2>. PICK r \in Read : ReadBegins(r, "interval")
    BY <1>1 DEF Tick
  <2>1. FirstPolls' = FirstPolls /\ Overtaken' = Overtaken
    BY ReadPolls
  <2>. QED BY <1>1, <2>1 DEF Tick, Accounts, Owed
<1>2. CASE LinkChanges
  BY <1>2 DEF LinkChanges, Accounts, Owed, FirstPolls, Overtaken
<1>3. CASE UNCHANGED vars
  BY <1>3 DEF vars, Accounts, Owed, FirstPolls, Overtaken
<1>. QED BY <1>1, <1>2, <1>3, AccountsWatch, AccountsAnswer, AccountsDispose DEF Next

\* The monitor runs no interval but the one it polls with and those of first
\* polls that a dispose() did not wait for, whatever order of starts, answers
\* and disposals led there.
THEOREM IntervalsAlwaysAccounted == Spec => []IntervalsAccounted
<1>1. TypeOK /\ Accounts => IntervalsAccounted
  BY Finite DEF Accounts, Owed, IntervalsAccounted, TypeOK
<1>. QED BY <1>1, TypeCorrect, AccountsInit, AccountsStep, PTL DEF Spec

-----------------------------------------------------------------------------
(* The monitor implements its port, as far as safety goes *)

\* What a read has found, if anything, is a state that the link has had.
FoundHad == \A r \in Read : reads[r].found \in Had \union {"unknown", "failed"}

LEMMA FoundInit == Init => FoundHad
  BY DEF Init, FoundHad, Idle

LEMMA HadGrows ==
  ASSUME TypeOK, [Next]_vars
  PROVE  Had \subseteq Had'
<1>1. CASE LinkChanges
  <2>1. flips' > 0
    BY <1>1, Bounds DEF LinkChanges, TypeOK
  <2>2. QED BY <2>1 DEF Had, TypeOK
<1>2. CASE ~LinkChanges
  <2>1. link' = link /\ flips' = flips
    BY <1>2 DEF Next, vars, bounds, Watch, Answer, Tick, Dispose
  <2>2. QED BY <2>1 DEF Had
<1>3. QED BY <1>1, <1>2

LEMMA FoundStep == TypeOK /\ FoundHad /\ [Next]_vars => FoundHad'
<1>. SUFFICES ASSUME TypeOK, FoundHad, [Next]_vars PROVE FoundHad'
  OBVIOUS
<1>. DEFINE Known(h) == h \union {"unknown", "failed"}
<1>1. Had \subseteq Had'
  BY HadGrows
<1>2. ASSUME NEW r \in Read, NEW w \in Waiter \ {"nobody"}, ReadBegins(r, w)
      PROVE  FoundHad'
  <2>1. \A q \in Read \ {r} : reads'[q] = reads[q]
    BY <1>2, ReadType
  <2>2. reads'[r].found \in Known(Had)
    <3>. PICK found \in Result :
           /\ found # link => faults < MaxFaults /\ found \in {"unknown", "failed"}
           /\ reads' = [reads EXCEPT ![r] = [for |-> w, found |-> found]]
      BY <1>2 DEF ReadBegins
    <3>1. reads'[r].found = found
      BY DEF TypeOK
    <3>2. QED BY <3>1 DEF Had
  <2>3. QED BY <1>1, <2>1, <2>2 DEF FoundHad
<1>3. CASE Watch
  <2>1. CASE polling
    BY <1>1, <1>3, <2>1 DEF Watch, FoundHad
  <2>2. CASE ~polling
    <3>1. PICK r \in Read : ReadBegins(r, "start")
      BY <1>3, <2>2 DEF Watch
    <3>2. QED BY <1>2, <3>1 DEF Waiter
  <2>3. QED BY <2>1, <2>2
<1>4. CASE Tick
  <2>1. PICK r \in Read : ReadBegins(r, "interval")
    BY <1>4 DEF Tick
  <2>2. QED BY <1>2, <2>1 DEF Waiter
<1>5. ASSUME NEW r \in Read, Answer(r)
      PROVE  FoundHad'
  <2>1. reads' = [reads EXCEPT ![r] = Idle]
    BY <1>5 DEF Answer
  <2>2. QED BY <1>1, <2>1 DEF FoundHad, TypeOK, Idle
<1>6. CASE Dispose
  <2>1. \A r \in Read : reads'[r].found = reads[r].found
    BY <1>6 DEF Dispose, TypeOK
  <2>2. QED BY <1>1, <2>1 DEF FoundHad
<1>7. CASE LinkChanges \/ UNCHANGED vars
  BY <1>1, <1>7 DEF LinkChanges, FoundHad, vars
<1>8. QED
  BY <1>3, <1>4, <1>5, <1>6, <1>7 DEF Next

LEMMA PortInit == Init => Port!Init
  BY DEF Init, Port!Init, Had

\* A read is answered: the engine hears of a state the link has had, or nothing
\* happens that it could notice.
LEMMA PortAnswer ==
  ASSUME TypeOK, FoundHad, NEW r \in Read, Answer(r)
  PROVE  Port!Report \/ UNCHANGED Port!vars
<1>1. Had' = Had /\ link' = link /\ listening' = listening
  BY DEF Answer, bounds, Had
<1>2. CASE NoNews(r)
  BY <1>1, <1>2 DEF Answer, Port!vars
<1>3. CASE ~NoNews(r)
  <2>1. reads[r].found \in (Had \union {"unknown"}) \ {state}
    BY <1>3 DEF NoNews, FoundHad
  <2>2. Tell(reads[r].found)
    BY <1>3 DEF Answer
  <2>3. QED BY <1>1, <2>1, <2>2 DEF Tell, Port!Report
<1>4. QED BY <1>2, <1>3

LEMMA PortStep == TypeOK /\ FoundHad /\ [Next]_vars => [Port!Next]_(Port!vars)
<1>. SUFFICES ASSUME TypeOK, FoundHad, [Next]_vars
              PROVE  Port!Next \/ UNCHANGED Port!vars
  OBVIOUS
<1>1. CASE Watch
  <2>1. Had' = Had
    BY <1>1 DEF Watch, Had
  <2>2. QED BY <1>1, <2>1 DEF Watch, Port!Watch, Port!Next
<1>2. ASSUME NEW r \in Read, Answer(r)
      PROVE  Port!Next \/ UNCHANGED Port!vars
  BY <1>2, PortAnswer DEF Port!Next
<1>3. CASE Tick \/ UNCHANGED vars
  <2>1. Had' = Had
    BY <1>3 DEF Tick, Had, vars
  <2>2. QED BY <1>3, <2>1 DEF Tick, vars, Port!vars
<1>4. CASE Dispose
  <2>1. Had' = Had
    BY <1>4 DEF Dispose, Had
  <2>2. QED BY <1>4, <2>1 DEF Dispose, Port!Unwatch, Port!Next
<1>5. CASE LinkChanges
  <2>1. link' \in {"up", "down"} \ {link} /\ flips' > 0
    BY <1>5, Bounds DEF LinkChanges, TypeOK
  <2>2. Had' = Had \union {link'}
    BY <2>1 DEF Had, TypeOK
  <2>3. QED BY <1>5, <2>1, <2>2 DEF LinkChanges, Port!LinkChanges, Port!Next
<1>6. QED
  BY <1>1, <1>2, <1>3, <1>4, <1>5 DEF Next

\* Whatever the reads do, the engine is told changes and nothing else, and no
\* state the link never had: the monitor implements the safety part of its port.
THEOREM ImplementsPortSafely == Spec => Port!Spec
<1>1. Init => TypeOK /\ FoundHad /\ Port!Init
  BY TypeInit, FoundInit, PortInit
<1>2. TypeOK /\ FoundHad /\ [Next]_vars => (TypeOK /\ FoundHad)' /\ [Port!Next]_(Port!vars)
  BY TypeStep, FoundStep, PortStep
<1>3. QED
  BY <1>1, <1>2, PTL DEF Spec, Port!Spec
=============================================================================
