--------------------------- MODULE FrameReceptionProofs ---------------------------
(***************************************************************************)
(* Every frame that is well formed is decoded to what its sender said, and *)
(* a frame that is cut to nothing else.                                    *)
(*                                                                         *)
(* The senders' encoding of a message stands somewhere among the cells of  *)
(* a frame (Stands), and a buffer shows the first n of these cells         *)
(* (Shows).  Each decoder is taken through the message it reads: a name, a *)
(* question, a record, an option, a header, a packet, a frame.  The lemma  *)
(* of each says what it yields of the n cells that are there, so that the  *)
(* whole message is the case where n is all of them.                       *)
(***************************************************************************)
EXTENDS FrameReception, Recursion, SequenceTheorems, TLAPS

-----------------------------------------------------------------------------
(* Sequences whose elements have no common type *)

IsSeq(s) == \E S : s \in Seq(S)

\* A function on 1..n is a sequence.
LEMMA SeqOfFunction ==
  ASSUME NEW n \in Nat, NEW f, f = [i \in 1..n |-> f[i]]
  PROVE  IsSeq(f) /\ Len(f) = n
<1>. DEFINE S == {f[i] : i \in 1..n}
<1>1. f \in [1..n -> S]
  OBVIOUS
<1>. HIDE DEF S
<1>2. f \in Seq(S)
  BY <1>1, SeqDef
<1>3. Len(f) \in Nat /\ 1..Len(f) = 1..n
  BY <1>1, <1>2, LenProperties
<1>4. \A i \in Int : 1 <= i /\ i <= Len(f) <=> 1 <= i /\ i <= n
  <2>1. \A i \in Int : i \in 1..Len(f) <=> i \in 1..n
    BY <1>3
  <2>. QED BY <1>3, <2>1
<1>5. Len(f) = n
  BY <1>3, <1>4
<1>. QED BY <1>2, <1>5 DEF IsSeq

\* A sequence is the function of its elements.
LEMMA SeqIsFunction ==
  ASSUME NEW s, IsSeq(s)
  PROVE  Len(s) \in Nat /\ DOMAIN s = 1..Len(s) /\ s = [i \in 1..Len(s) |-> s[i]]
<1>. PICK S : s \in Seq(S)
  BY DEF IsSeq
<1>1. Len(s) \in Nat /\ s \in [1..Len(s) -> S] /\ DOMAIN s = 1..Len(s)
  BY LenProperties
<1>. QED BY <1>1

LEMMA SeqsEqual ==
  ASSUME NEW s, NEW t, IsSeq(s), IsSeq(t), Len(s) = Len(t), \A i \in 1..Len(s) : s[i] = t[i]
  PROVE  s = t
BY SeqIsFunction

\* Of the elements of a concatenation.
LEMMA SeqConcat ==
  ASSUME NEW s, NEW t, IsSeq(s), IsSeq(t)
  PROVE  /\ IsSeq(s \o t)
         /\ Len(s \o t) = Len(s) + Len(t)
         /\ \A i \in 1..Len(s) : (s \o t)[i] = s[i]
         /\ \A i \in 1..Len(t) : (s \o t)[Len(s) + i] = t[i]
<1>. PICK S : s \in Seq(S)
  BY DEF IsSeq
<1>. PICK T : t \in Seq(T)
  BY DEF IsSeq
<1>1. s \in Seq(S \union T) /\ t \in Seq(S \union T)
  BY SeqMonotonic
<1>2. Len(s) \in Nat /\ Len(t) \in Nat
  BY LenProperties
<1>. HIDE DEF IsSeq
<1>3. /\ s \o t \in Seq(S \union T)
      /\ Len(s \o t) = Len(s) + Len(t)
      /\ \A i \in 1..Len(s) + Len(t) : (s \o t)[i] = IF i <= Len(s) THEN s[i] ELSE t[i - Len(s)]
  BY <1>1, ConcatProperties
<1>4. \A i \in 1..Len(s) : (s \o t)[i] = s[i]
  BY <1>2, <1>3
<1>5. ASSUME NEW i \in 1..Len(t) PROVE (s \o t)[Len(s) + i] = t[i]
  BY <1>2, <1>3
<1>. QED BY <1>3, <1>4, <1>5 DEF IsSeq

LEMMA SeqEmpty == IsSeq(<<>>) /\ Len(<<>>) = 0
<1>1. <<>> \in Seq({})
  OBVIOUS
<1>. QED BY <1>1 DEF IsSeq

LEMMA ConcatEmpty ==
  ASSUME NEW s, IsSeq(s) PROVE s \o <<>> = s /\ <<>> \o s = s
BY ConcatEmptySeq DEF IsSeq

LEMMA SeqOne == ASSUME NEW a PROVE IsSeq(<<a>>) /\ Len(<<a>>) = 1 /\ <<a>>[1] = a
<1>1. <<a>> \in Seq({a})
  OBVIOUS
<1>. QED BY <1>1 DEF IsSeq

LEMMA SeqTwo ==
  ASSUME NEW a, NEW b
  PROVE IsSeq(<<a, b>>) /\ Len(<<a, b>>) = 2 /\ <<a, b>>[1] = a /\ <<a, b>>[2] = b
<1>1. <<a, b>> \in Seq({a, b})
  OBVIOUS
<1>. QED BY <1>1 DEF IsSeq

LEMMA SeqThree ==
  ASSUME NEW a, NEW b, NEW c
  PROVE /\ IsSeq(<<a, b, c>>) /\ Len(<<a, b, c>>) = 3
        /\ <<a, b, c>>[1] = a /\ <<a, b, c>>[2] = b /\ <<a, b, c>>[3] = c
<1>1. <<a, b, c>> \in Seq({a, b, c})
  OBVIOUS
<1>. QED BY <1>1 DEF IsSeq

LEMMA ConcatOnes == ASSUME NEW a, NEW b PROVE <<a>> \o <<b>> = <<a, b>>
<1>1. IsSeq(<<a>> \o <<b>>) /\ Len(<<a>> \o <<b>>) = 2
  BY SeqOne, SeqConcat
<1>2. (<<a>> \o <<b>>)[1] = a /\ (<<a>> \o <<b>>)[2] = b
  <2>1. (<<a>> \o <<b>>)[1 + 1] = b
    BY SeqOne, SeqConcat
  <2>. QED BY <2>1, SeqOne, SeqConcat
<1>. HIDE DEF IsSeq
<1>3. \A i \in 1..2 : i = 1 \/ i = 2
  OBVIOUS
<1>4. \A i \in 1..2 : (<<a>> \o <<b>>)[i] = <<a, b>>[i]
  BY <1>2, <1>3, SeqTwo
<1>5. IsSeq(<<a, b>>) /\ Len(<<a, b>>) = 2
  BY SeqTwo
<1>. QED BY <1>1, <1>4, <1>5, SeqsEqual

LEMMA SeqAppend ==
  ASSUME NEW s, NEW e, IsSeq(s)
  PROVE  /\ IsSeq(Append(s, e))
         /\ Len(Append(s, e)) = Len(s) + 1
         /\ \A i \in 1..Len(s) : Append(s, e)[i] = s[i]
         /\ Append(s, e)[Len(s) + 1] = e
<1>. PICK S : s \in Seq(S)
  BY DEF IsSeq
<1>1. s \in Seq(S \union {e}) /\ e \in S \union {e}
  BY SeqMonotonic
<1>2. /\ Append(s, e) \in Seq(S \union {e})
      /\ Len(Append(s, e)) = Len(s) + 1
      /\ \A i \in 1..Len(s) : Append(s, e)[i] = s[i]
      /\ Append(s, e)[Len(s) + 1] = e
  BY <1>1, AppendProperties
<1>. QED BY <1>2 DEF IsSeq

LEMMA SeqSubSeq ==
  ASSUME NEW s, NEW m \in Int, NEW n \in Int
  PROVE  /\ IsSeq(SubSeq(s, m, n))
         /\ Len(SubSeq(s, m, n)) = IF m <= n THEN n - m + 1 ELSE 0
         /\ \A i \in 1..(n - m + 1) : SubSeq(s, m, n)[i] = s[m + i - 1]
<1>. DEFINE S == {s[i] : i \in m..n}
<1>1. \A i \in m..n : s[i] \in S
  OBVIOUS
<1>. HIDE DEF S
<1>. QED BY <1>1, SubSeqProperties DEF IsSeq

-----------------------------------------------------------------------------
(* Where a part of a frame stands *)

Stands(s, o, cells) ==
  /\ o + Len(s) <= Len(cells) + 1
  /\ \A i \in 1..Len(s) : cells[o - 1 + i] = s[i]

\* Where a concatenation stands, so do its parts.
LEMMA ConcatStands ==
  ASSUME NEW s, NEW t, NEW o \in Nat, NEW cells, IsSeq(s), IsSeq(t), IsSeq(cells),
         Stands(s \o t, o, cells)
  PROVE  Stands(s, o, cells) /\ Stands(t, o + Len(s), cells)
<1>1. Len(s) \in Nat /\ Len(t) \in Nat /\ Len(cells) \in Nat
  BY SeqIsFunction
<1>2. Len(s \o t) = Len(s) + Len(t)
  BY SeqConcat
<1>3. ASSUME NEW i \in 1..Len(s) PROVE cells[o - 1 + i] = s[i]
  <2>1. i \in 1..Len(s \o t)
    BY <1>1, <1>2
  <2>. QED BY <2>1, SeqConcat DEF Stands
<1>4. ASSUME NEW i \in 1..Len(t) PROVE cells[o + Len(s) - 1 + i] = t[i]
  <2>1. Len(s) + i \in 1..Len(s \o t)
    BY <1>1, <1>2
  <2>2. cells[o - 1 + (Len(s) + i)] = (s \o t)[Len(s) + i]
    BY <2>1 DEF Stands
  <2>3. o - 1 + (Len(s) + i) = o + Len(s) - 1 + i
    BY <1>1
  <2>. QED BY <2>2, <2>3, SeqConcat
<1>. QED BY <1>1, <1>2, <1>3, <1>4 DEF Stands

LEMMA AppendStands ==
  ASSUME NEW s, NEW e, NEW o \in Nat, NEW cells, IsSeq(s), IsSeq(cells),
         Stands(Append(s, e), o, cells)
  PROVE  Stands(s, o, cells) /\ o + Len(s) <= Len(cells) /\ cells[o + Len(s)] = e
<1>1. Len(s) \in Nat /\ Len(cells) \in Nat
  BY SeqIsFunction
<1>2. Len(Append(s, e)) = Len(s) + 1
  BY SeqAppend
<1>3. ASSUME NEW i \in 1..Len(s) PROVE cells[o - 1 + i] = s[i]
  <2>1. i \in 1..Len(Append(s, e))
    BY <1>1, <1>2
  <2>. QED BY <2>1, SeqAppend DEF Stands
<1>4. cells[o + Len(s)] = e
  <2>1. Len(s) + 1 \in 1..Len(Append(s, e))
    BY <1>1, <1>2
  <2>2. cells[o - 1 + (Len(s) + 1)] = Append(s, e)[Len(s) + 1]
    BY <2>1 DEF Stands
  <2>3. o - 1 + (Len(s) + 1) = o + Len(s)
    BY <1>1
  <2>. QED BY <2>2, <2>3, SeqAppend
<1>. QED BY <1>1, <1>2, <1>3, <1>4 DEF Stands

\* The function that FlattenSeq takes its value from.
LEMMA Flattening ==
  ASSUME NEW N \in Nat, NEW ss
  PROVE  \E f : /\ f = [i \in 1..N |-> f[i]]
                /\ \A i \in 1..N : f[i] = IF i = 1 THEN ss[i] ELSE f[i - 1] \o ss[i]
<1>. DEFINE Is(f, n) == /\ f = [i \in 1..n |-> f[i]]
                        /\ \A i \in 1..n : f[i] = IF i = 1 THEN ss[i] ELSE f[i - 1] \o ss[i]
            S == {n \in Nat : \E f : Is(f, n)}
<1>1. 0 \in S
  <2>1. Is([i \in 1..0 |-> 0], 0)
    OBVIOUS
  <2>. QED BY <2>1
<1>2. ASSUME NEW n \in Nat, n \in S PROVE n + 1 \in S
  <2>1. PICK f : Is(f, n)
    BY <1>2
  <2>. DEFINE v == IF n = 0 THEN ss[n + 1] ELSE f[n] \o ss[n + 1]
              g == [i \in 1..(n + 1) |-> IF i = n + 1 THEN v ELSE f[i]]
  <2>2. \A i \in 1..(n + 1) : g[i] = IF i = n + 1 THEN v ELSE f[i]
    <3>. HIDE DEF v, Is
    <3>. QED OBVIOUS
  <2>3. g = [i \in 1..(n + 1) |-> g[i]]
    <3>. HIDE DEF v, Is
    <3>. QED OBVIOUS
  <2>4. \A i \in 1..n : f[i] = IF i = 1 THEN ss[i] ELSE f[i - 1] \o ss[i]
    BY <2>1
  <2>. HIDE DEF Is, g
  <2>5. ASSUME NEW i \in 1..(n + 1)
        PROVE  g[i] = IF i = 1 THEN ss[i] ELSE g[i - 1] \o ss[i]
    <3>1. CASE i = n + 1
      <4>1. g[i] = v
        BY <3>1, <2>2
      <4>2. CASE n = 0
        BY <4>1, <4>2, <3>1
      <4>3. CASE n # 0
        <5>1. g[n] = f[n]
          <6>. HIDE DEF v
          <6>1. n \in 1..(n + 1) /\ n # n + 1
            BY <4>3
          <6>. QED BY <6>1, <2>2
        <5>2. i # 1 /\ i - 1 = n
          BY <3>1, <4>3
        <5>. QED BY <4>1, <4>3, <3>1, <5>1, <5>2
      <4>. QED BY <4>2, <4>3
    <3>2. CASE i # n + 1
      <4>. HIDE DEF v
      <4>1. i \in 1..n
        BY <3>2
      <4>2. g[i] = f[i]
        BY <3>2, <2>2
      <4>3. ASSUME i # 1 PROVE g[i - 1] = f[i - 1]
        <5>1. i - 1 \in 1..(n + 1) /\ i - 1 # n + 1
          BY <4>3
        <5>. QED BY <5>1, <2>2
      <4>. QED BY <4>1, <4>2, <4>3, <2>4
    <3>. QED BY <3>1, <3>2
  <2>6. Is(g, n + 1)
    BY <2>3, <2>5 DEF Is
  <2>. QED BY <2>6
<1>3. N \in S
  <2>. HIDE DEF S
  <2>. QED BY <1>1, <1>2, Induction
<1>. QED BY <1>3

\* A sequence of sequences, one behind the other: where each of them stands.
Positions(pos, ss, o, cells) ==
  /\ pos \in [1..(Len(ss) + 1) -> Nat]
  /\ pos[1] = o
  /\ \A i \in 1..Len(ss) : pos[i + 1] = pos[i] + Len(ss[i]) /\ Stands(ss[i], pos[i], cells)

\* Where messages stand one behind the other, each has its place.
LEMMA FlattenStands ==
  ASSUME NEW ss, IsSeq(ss), \A i \in 1..Len(ss) : IsSeq(ss[i]),
         NEW o \in Nat, NEW cells, IsSeq(cells)
  PROVE  /\ IsSeq(FlattenSeq(ss))
         /\ Stands(FlattenSeq(ss), o, cells) =>
              \E pos : /\ Positions(pos, ss, o, cells)
                       /\ pos[Len(ss) + 1] = o + Len(FlattenSeq(ss))
<1>. DEFINE N == Len(ss)
            Is(f) == f = [i \in 1..N |-> IF i = 1 THEN ss[i] ELSE f[i - 1] \o ss[i]]
            flatten == CHOOSE f : Is(f)
<1>1. N \in Nat
  BY SeqIsFunction
<1>2. CASE N = 0
  <2>1. FlattenSeq(ss) = ss /\ IsSeq(ss)
    BY <1>2 DEF FlattenSeq
  <2>. DEFINE pos == [i \in 1..1 |-> o]
  <2>2. pos \in [1..1 -> Nat] /\ pos[1] = o
    OBVIOUS
  <2>. HIDE DEF pos
  <2>3. Positions(pos, ss, o, cells) /\ pos[Len(ss) + 1] = o + Len(ss)
    BY <1>2, <2>2 DEF Positions
  <2>. QED BY <2>1, <2>3
<1>3. CASE N # 0
  <2>1. Is(flatten)
    <3>1. PICK f : /\ f = [i \in 1..N |-> f[i]]
                   /\ \A i \in 1..N : f[i] = IF i = 1 THEN ss[i] ELSE f[i - 1] \o ss[i]
      BY <1>1, Flattening
    <3>2. Is(f)
      BY <3>1
    <3>. QED BY <3>2
  <2>2. FlattenSeq(ss) = flatten[N]
    BY <1>3 DEF FlattenSeq
  <2>. HIDE DEF flatten
  <2>3. \A i \in 1..N : flatten[i] = IF i = 1 THEN ss[i] ELSE flatten[i - 1] \o ss[i]
    BY <2>1
  <2>. HIDE DEF Is
  <2>. DEFINE L == {k \in Nat : k + 1 <= N => IsSeq(flatten[k + 1])}
  <2>4. 0 \in L
    BY <1>3, <1>1, <2>3
  <2>5. ASSUME NEW k \in Nat, k \in L PROVE k + 1 \in L
    <3>. SUFFICES ASSUME (k + 1) + 1 <= N PROVE IsSeq(flatten[(k + 1) + 1])
      OBVIOUS
    <3>1. IsSeq(flatten[k + 1]) /\ IsSeq(ss[(k + 1) + 1])
      BY <2>5, <1>1
    <3>2. flatten[(k + 1) + 1] = flatten[k + 1] \o ss[(k + 1) + 1]
      <4>1. (k + 1) + 1 \in 1..N /\ (k + 1) + 1 # 1 /\ ((k + 1) + 1) - 1 = k + 1
        BY <1>1
      <4>. QED BY <4>1, <2>3
    <3>. QED BY <3>1, <3>2, SeqConcat
  <2>6. Nat \subseteq L
    <3>. HIDE DEF L
    <3>. QED BY <2>4, <2>5, Induction
  <2>7. \A i \in 1..N : IsSeq(flatten[i])
    <3>. SUFFICES ASSUME NEW i \in 1..N PROVE IsSeq(flatten[i])
      OBVIOUS
    <3>1. i - 1 \in Nat /\ (i - 1) + 1 = i /\ i <= N
      BY <1>1
    <3>. QED BY <3>1, <2>6
  <2>. HIDE DEF L
  <2>8. ASSUME Stands(flatten[N], o, cells)
        PROVE  \E pos : Positions(pos, ss, o, cells) /\ pos[N + 1] = o + Len(flatten[N])
    <3>. DEFINE K == {k \in Nat : k < N => Stands(flatten[N - k], o, cells)}
    <3>1. 0 \in K
      BY <2>8, <1>1
    <3>2. ASSUME NEW k \in Nat, k \in K PROVE k + 1 \in K
      <4>. SUFFICES ASSUME k + 1 < N PROVE Stands(flatten[N - (k + 1)], o, cells)
        OBVIOUS
      <4>1. N - k \in 1..N /\ N - k # 1 /\ N - k - 1 = N - (k + 1) /\ N - (k + 1) \in 1..N
        BY <1>1
      <4>2. flatten[N - k] = flatten[N - (k + 1)] \o ss[N - k]
        BY <4>1, <2>3
      <4>3. Stands(flatten[N - k], o, cells)
        BY <3>2, <1>1
      <4>4. IsSeq(flatten[N - (k + 1)]) /\ IsSeq(ss[N - k])
        BY <4>1, <2>7
      <4>. QED BY <4>2, <4>3, <4>4, ConcatStands
    <3>3. Nat \subseteq K
      <4>. HIDE DEF K
      <4>. QED BY <3>1, <3>2, Induction
    <3>4. \A i \in 1..N : Stands(flatten[i], o, cells)
      <4>. SUFFICES ASSUME NEW i \in 1..N PROVE Stands(flatten[i], o, cells)
        OBVIOUS
      <4>1. N - i \in Nat /\ N - i < N /\ N - (N - i) = i
        BY <1>1
      <4>. QED BY <4>1, <3>3
    <3>. DEFINE pos == [i \in 1..(N + 1) |-> IF i = 1 THEN o ELSE o + Len(flatten[i - 1])]
    <3>5. \A i \in 1..N : Len(flatten[i]) \in Nat
      BY <2>7, SeqIsFunction
    <3>6. pos[1] = o /\ \A i \in 1..N : pos[i + 1] = o + Len(flatten[i])
      BY <1>1
    <3>7. pos \in [1..(N + 1) -> Nat]
      <4>1. \A i \in 1..(N + 1) : i # 1 => Len(flatten[i - 1]) \in Nat
        <5>. SUFFICES ASSUME NEW i \in 1..(N + 1), i # 1 PROVE Len(flatten[i - 1]) \in Nat
          OBVIOUS
        <5>1. i - 1 \in 1..N
          BY <1>1
        <5>. QED BY <5>1, <3>5
      <4>. QED BY <4>1
    <3>. HIDE DEF pos
    <3>8. ASSUME NEW i \in 1..N
          PROVE  pos[i + 1] = pos[i] + Len(ss[i]) /\ Stands(ss[i], pos[i], cells)
      <4>1. CASE i = 1
        BY <4>1, <2>3, <3>4, <3>6
      <4>2. CASE i # 1
        <5>1. i - 1 \in 1..N /\ (i - 1) + 1 = i
          BY <4>2, <1>1
        <5>2. pos[i] = o + Len(flatten[i - 1])
          BY <5>1, <3>6
        <5>3. flatten[i] = flatten[i - 1] \o ss[i]
          BY <4>2, <2>3
        <5>4. IsSeq(flatten[i - 1]) /\ IsSeq(ss[i])
          BY <5>1, <2>7
        <5>5. Stands(ss[i], o + Len(flatten[i - 1]), cells)
          BY <5>3, <5>4, <3>4, ConcatStands
        <5>6. Len(flatten[i]) = Len(flatten[i - 1]) + Len(ss[i])
          BY <5>3, <5>4, SeqConcat
        <5>7. Len(ss[i]) \in Nat /\ Len(flatten[i - 1]) \in Nat
          BY <5>4, SeqIsFunction
        <5>8. pos[i + 1] = o + Len(flatten[i])
          BY <3>6
        <5>9. pos[i + 1] = pos[i] + Len(ss[i])
          <6>. DEFINE a == Len(flatten[i - 1])
                      b == Len(ss[i])
          <6>1. a \in Nat /\ b \in Nat /\ pos[i] = o + a /\ pos[i + 1] = o + (a + b)
            BY <5>2, <5>6, <5>7, <5>8
          <6>. HIDE DEF a
          <6>2. o + (a + b) = (o + a) + b
            BY <6>1
          <6>. QED BY <6>1, <6>2
        <5>. QED BY <5>2, <5>5, <5>9
      <4>. QED BY <4>1, <4>2
    <3>9. pos[N + 1] = o + Len(flatten[N])
      BY <1>1, <1>3, <3>6
    <3>. QED BY <3>6, <3>7, <3>8, <3>9 DEF Positions
  <2>9. IsSeq(flatten[N])
    BY <1>1, <1>3, <2>7
  <2>. QED BY <2>2, <2>8, <2>9
<1>. QED BY <1>2, <1>3

\* They come one behind the other.
LEMMA PositionsGrow ==
  ASSUME NEW ss, IsSeq(ss), \A i \in 1..Len(ss) : IsSeq(ss[i]),
         NEW o \in Nat, NEW cells, NEW pos, Positions(pos, ss, o, cells),
         NEW i \in 1..(Len(ss) + 1), NEW j \in 1..(Len(ss) + 1), i <= j
  PROVE  pos[i] <= pos[j]
<1>. DEFINE S == {n \in Nat : i + n <= Len(ss) + 1 => pos[i] <= pos[i + n]}
<1>1. Len(ss) \in Nat /\ \A k \in 1..(Len(ss) + 1) : pos[k] \in Nat
  BY SeqIsFunction DEF Positions
<1>2. \A k \in 1..Len(ss) : pos[k + 1] = pos[k] + Len(ss[k]) /\ Len(ss[k]) \in Nat
  BY SeqIsFunction DEF Positions
<1>3. 0 \in S
  BY <1>1
<1>4. ASSUME NEW n \in Nat, n \in S PROVE n + 1 \in S
  <2>. SUFFICES ASSUME i + (n + 1) <= Len(ss) + 1 PROVE pos[i] <= pos[i + (n + 1)]
    OBVIOUS
  <2>1. i + n \in 1..Len(ss) /\ (i + n) + 1 = i + (n + 1)
    BY <1>1
  <2>2. pos[i] <= pos[i + n]
    BY <1>4, <2>1, <1>1
  <2>3. pos[i + (n + 1)] = pos[i + n] + Len(ss[i + n]) /\ Len(ss[i + n]) \in Nat
    BY <2>1, <1>2
  <2>4. pos[i] \in Nat /\ pos[i + n] \in Nat
    BY <2>1, <1>1
  <2>. QED BY <2>2, <2>3, <2>4
<1>5. Nat \subseteq S
  <2>. HIDE DEF S
  <2>. QED BY <1>3, <1>4, Induction
<1>6. j - i \in Nat /\ i + (j - i) = j
  BY <1>1
<1>7. j - i \in S
  BY <1>5, <1>6
<1>. QED BY <1>6, <1>7

-----------------------------------------------------------------------------
(* A frame and what has arrived of it *)

\* buf holds the first n cells, and perhaps a part of the next one.
Shows(buf, cells, n) ==
  /\ n \in 0..Len(cells)
  /\ Len(buf) \in {n, n + 1}
  /\ n = Len(cells) => Len(buf) = n
  /\ \A i \in 1..n : buf[i] = cells[i]
  /\ Len(buf) = n + 1 => buf[n + 1].k = "partial"

LEMMA ShowsIntro ==
  ASSUME NEW buf, NEW cells, NEW n \in 0..(Len(cells) - 1), Len(cells) \in Nat,
         Len(buf) \in {n, n + 1}, \A i \in 1..n : buf[i] = cells[i],
         Len(buf) = n + 1 => buf[n + 1].k = "partial"
  PROVE  Shows(buf, cells, n)
BY DEF Shows

\* A buffer that holds all cells shows all of them,
LEMMA WholeShows ==
  ASSUME NEW cells, IsSeq(cells) PROVE Shows(cells, cells, Len(cells))
BY SeqIsFunction DEF Shows

\* and one that is cut behind cell n shows n.
LEMMA CutShows ==
  ASSUME NEW cells, IsSeq(cells), NEW n \in 0..(Len(cells) - 1), NEW partial \in BOOLEAN
  PROVE  Shows(Cut(cells, n, partial), cells, n)
<1>. DEFINE s == SubSeq(cells, 1, n)
            rest == IF partial THEN << Part(cells[n + 1]) >> ELSE <<>>
<1>1. Len(cells) \in Nat /\ n \in Int /\ 1 \in Int
  BY SeqIsFunction
<1>2. IsSeq(s) /\ Len(s) = n /\ \A i \in 1..n : s[i] = cells[i]
  <2>1. /\ IsSeq(s)
        /\ Len(s) = IF 1 <= n THEN n - 1 + 1 ELSE 0
        /\ \A i \in 1..(n - 1 + 1) : s[i] = cells[1 + i - 1]
    BY <1>1, SeqSubSeq
  <2>. HIDE DEF s
  <2>. QED BY <1>1, <2>1
<1>3. IsSeq(rest) /\ (partial => Len(rest) = 1 /\ rest[1].k = "partial")
                  /\ (~partial => Len(rest) = 0)
  BY SeqOne, SeqEmpty DEF Part
<1>. HIDE DEF s, rest
<1>4. /\ Len(s \o rest) = n + Len(rest)
      /\ \A i \in 1..n : (s \o rest)[i] = s[i]
      /\ \A i \in 1..Len(rest) : (s \o rest)[n + i] = rest[i]
  BY <1>2, <1>3, SeqConcat
<1>5. Len(rest) = 1 => (s \o rest)[n + 1].k = "partial"
  <2>. SUFFICES ASSUME Len(rest) = 1 PROVE (s \o rest)[n + 1].k = "partial"
    OBVIOUS
  <2>1. 1 \in 1..Len(rest) /\ partial
    BY <1>3
  <2>2. (s \o rest)[n + 1] = rest[1]
    BY <1>4, <2>1
  <2>. QED BY <1>3, <2>1, <2>2
<1>6. Len(s \o rest) \in {n, n + 1} /\ (Len(s \o rest) = n + 1 => Len(rest) = 1)
  <2>1. Len(rest) = 1 \/ Len(rest) = 0
    BY <1>3
  <2>. QED BY <1>1, <1>4, <2>1
<1>7. \A i \in 1..n : (s \o rest)[i] = cells[i]
  BY <1>2, <1>4
<1>8. Shows(s \o rest, cells, n)
  BY <1>1, <1>5, <1>6, <1>7, ShowsIntro
<1>. QED BY <1>8 DEF Cut, s, rest

\* What a decoder finds at a cell is what stands there, if that cell came.
LEMMA HoldsShown ==
  ASSUME NEW buf, NEW cells, NEW n, IsSeq(cells), Shows(buf, cells, n),
         NEW c \in Nat \ {0}, NEW kind, kind # "partial"
  PROVE  Holds(buf, c, kind) <=> c <= n /\ cells[c].k = kind
<1>1. Len(cells) \in Nat /\ n \in Nat
  BY SeqIsFunction DEF Shows
<1>2. CASE c <= n
  <2>1. c \in 1..n /\ c <= Len(buf)
    BY <1>1, <1>2 DEF Shows
  <2>. QED BY <1>2, <2>1 DEF Holds, Shows
<1>3. CASE c > n
  <2>1. CASE c <= Len(buf)
    <3>1. c = n + 1 /\ Len(buf) = n + 1
      BY <1>1, <1>3, <2>1 DEF Shows
    <3>. QED BY <1>1, <1>3, <3>1 DEF Holds, Shows
  <2>2. CASE ~(c <= Len(buf))
    BY <1>1, <1>3, <2>2 DEF Holds
  <2>. QED BY <2>1, <2>2
<1>. QED BY <1>1, <1>2, <1>3

-----------------------------------------------------------------------------
(* Names *)

\* The function that parseDnsName takes its value from.
LEMMA NameWalk ==
  ASSUME NEW buf, NEW offset, Len(buf) \in Nat
  PROVE  \E walk :
           /\ walk[0] = [st |-> "reading", cursor |-> offset, labels |-> <<>>, end |-> None]
           /\ \A n \in 1..(Len(buf) + 2) :
                walk[n] = IF walk[n - 1].st = "reading" THEN NameStep(buf, walk[n - 1])
                          ELSE walk[n - 1]
           /\ parseDnsName(buf, offset) = walk[Len(buf) + 2]
<1>. DEFINE N == Len(buf) + 2
            base == [st |-> "reading", cursor |-> offset, labels |-> <<>>, end |-> None]
            Step(w) == IF w.st = "reading" THEN NameStep(buf, w) ELSE w
            Is(f) == f = [n \in 0..N |-> IF n = 0 THEN base ELSE Step(f[n - 1])]
            walk == CHOOSE f : Is(f)
            S == {m \in Nat : \E f : f = [n \in 0..m |-> IF n = 0 THEN base ELSE Step(f[n - 1])]}
<1>1. parseDnsName(buf, offset) = walk[N]
  BY DEF parseDnsName
<1>2. 0 \in S
  <2>1. [n \in 0..0 |-> base] = [n \in 0..0 |-> IF n = 0 THEN base
                                               ELSE Step([i \in 0..0 |-> base][n - 1])]
    <3>. HIDE DEF base, Step
    <3>. QED OBVIOUS
  <2>. QED BY <2>1
<1>. HIDE DEF Step, base
<1>3. ASSUME NEW m \in Nat, m \in S PROVE m + 1 \in S
  <2>1. PICK f : f = [n \in 0..m |-> IF n = 0 THEN base ELSE Step(f[n - 1])]
    BY <1>3
  <2>. DEFINE g == [n \in 0..(m + 1) |-> IF n = m + 1 THEN Step(f[m]) ELSE f[n]]
  <2>2. \A n \in 0..m : f[n] = IF n = 0 THEN base ELSE Step(f[n - 1])
    BY <2>1
  <2>3. \A n \in 0..(m + 1) : g[n] = IF n = m + 1 THEN Step(f[m]) ELSE f[n]
    OBVIOUS
  <2>4. g = [n \in 0..(m + 1) |-> g[n]]
    OBVIOUS
  <2>. HIDE DEF g
  <2>5. ASSUME NEW n \in 0..(m + 1) PROVE g[n] = IF n = 0 THEN base ELSE Step(g[n - 1])
    <3>1. CASE n = 0
      BY <3>1, <2>2, <2>3
    <3>2. CASE n # 0
      <4>1. n - 1 \in 0..m /\ n - 1 # m + 1
        BY <3>2
      <4>2. g[n - 1] = f[n - 1]
        BY <4>1, <2>3
      <4>3. CASE n = m + 1
        BY <3>2, <4>2, <4>3, <2>3
      <4>4. CASE n # m + 1
        <5>1. n \in 0..m
          BY <4>4
        <5>2. g[n] = f[n] /\ f[n] = Step(f[n - 1])
          BY <5>1, <4>4, <3>2, <2>2, <2>3
        <5>. QED BY <5>2, <4>2, <3>2
      <4>. QED BY <4>3, <4>4
    <3>. QED BY <3>1, <3>2
  <2>6. g = [n \in 0..(m + 1) |-> IF n = 0 THEN base ELSE Step(g[n - 1])]
    BY <2>4, <2>5
  <2>. QED BY <2>6
<1>4. N \in S
  <2>. HIDE DEF S
  <2>. QED BY <1>2, <1>3, Induction
<1>5. \E f : Is(f)
  BY <1>4
<1>6. Is(walk)
  BY <1>5
<1>. HIDE DEF walk
<1>7. \A n \in 0..N : walk[n] = IF n = 0 THEN base ELSE Step(walk[n - 1])
  BY <1>6
<1>8. walk[0] = base /\ \A n \in 1..N : walk[n] = Step(walk[n - 1])
  BY <1>7
<1>. QED BY <1>1, <1>8 DEF Step, base

\* A name stands at cell c.
NameAt(name, c, cells) ==
  /\ c + Len(name) <= Len(cells)
  /\ \A j \in 1..Len(name) : cells[c - 1 + j].k = "label" /\ cells[c - 1 + j].label = name[j]
  /\ cells[c + Len(name)].k = "root"

LEMMA LabelsSeq ==
  ASSUME NEW name, IsSeq(name)
  PROVE  /\ IsSeq(Labels(name)) /\ Len(Labels(name)) = Len(name)
         /\ \A j \in 1..Len(name) : Labels(name)[j] = Label(name[j])
<1>1. Len(name) \in Nat
  BY SeqIsFunction
<1>2. \A j \in 1..Len(name) : Labels(name)[j] = Label(name[j])
  BY DEF Labels
<1>3. Labels(name) = [j \in 1..Len(name) |-> Labels(name)[j]]
  BY DEF Labels
<1>. QED BY <1>1, <1>2, <1>3, SeqOfFunction

\* Where an encoded name stands, its labels and its root do.
LEMMA NameStands ==
  ASSUME NEW name, IsSeq(name), NEW c \in Nat, NEW cells, IsSeq(cells),
         Stands(Append(Labels(name), Root), c, cells)
  PROVE  NameAt(name, c, cells)
<1>1. /\ Stands(Labels(name), c, cells)
      /\ c + Len(name) <= Len(cells) /\ cells[c + Len(name)] = Root
  BY LabelsSeq, AppendStands
<1>2. \A j \in 1..Len(name) : cells[c - 1 + j] = Label(name[j])
  BY <1>1, LabelsSeq DEF Stands
<1>3. \A j \in 1..Len(name) : cells[c - 1 + j].k = "label" /\ cells[c - 1 + j].label = name[j]
  <2>1. \A j \in 1..Len(name) : Label(name[j]).k = "label" /\ Label(name[j]).label = name[j]
    BY DEF Label
  <2>. QED BY <1>2, <2>1
<1>4. cells[c + Len(name)].k = "root"
  BY <1>1 DEF Root
<1>. QED BY <1>1, <1>3, <1>4 DEF NameAt

\* The steps that a name takes.
Reads(i, l) == [st |-> "reading", cursor |-> i, labels |-> l, end |-> None]

LEMMA LabelStep ==
  ASSUME NEW buf, Len(buf) \in Nat, NEW i \in Nat, i <= Len(buf), buf[i].k = "label", NEW l
  PROVE  NameStep(buf, Reads(i, l)) = Reads(i + 1, Append(l, buf[i].label))
<1>. DEFINE w == Reads(i, l)
<1>1. w.cursor = i /\ w.labels = l
  BY DEF Reads
<1>2. NameStep(buf, w) = [w EXCEPT !.labels = Append(@, buf[i].label), !.cursor = @ + 1]
  <2>. HIDE DEF w
  <2>. QED BY <1>1 DEF NameStep, Holds
<1>3. ASSUME NEW a, NEW b PROVE [w EXCEPT !.labels = a, !.cursor = b] = Reads(b, a)
  <2>1. [w EXCEPT !.labels = a] = Reads(i, a)
    BY DEF Reads
  <2>2. [Reads(i, a) EXCEPT !.cursor = b] = Reads(b, a)
    BY DEF Reads
  <2>3. [w EXCEPT !.labels = a, !.cursor = b] = [[w EXCEPT !.labels = a] EXCEPT !.cursor = b]
    OBVIOUS
  <2>. QED BY <2>1, <2>2, <2>3
<1>. HIDE DEF w
<1>4. NameStep(buf, w) = [w EXCEPT !.labels = Append(l, buf[i].label), !.cursor = i + 1]
  BY <1>1, <1>2
<1>5. NameStep(buf, w) = Reads(i + 1, Append(l, buf[i].label))
  BY <1>3, <1>4
<1>. QED BY <1>5 DEF w

LEMMA RootStep ==
  ASSUME NEW buf, Len(buf) \in Nat, NEW i \in Nat, i > Len(buf) \/ buf[i].k = "root", NEW l
  PROVE  NameStep(buf, Reads(i, l)) = [st |-> "done", cursor |-> i, labels |-> l, end |-> i + 1]
<1>. DEFINE w == Reads(i, l)
<1>1. w.cursor = i /\ w.end = None
  BY DEF Reads
<1>2. AfterName(w) = i + 1
  BY <1>1 DEF AfterName, OrElse
<1>3. i > Len(buf) \/ Holds(buf, i, "root")
  BY DEF Holds
<1>4. NameStep(buf, w) = [w EXCEPT !.st = "done", !.end = AfterName(w)]
  <2>1. CASE i > Len(buf)
    <3>1. ~Holds(buf, i, "pointer") /\ ~Holds(buf, i, "label") /\ ~Holds(buf, i, "partial")
      BY <2>1 DEF Holds
    <3>. HIDE DEF w
    <3>. QED BY <1>1, <2>1, <3>1 DEF NameStep
  <2>2. CASE Holds(buf, i, "root")
    <3>1. ~Holds(buf, i, "pointer") /\ ~Holds(buf, i, "label") /\ ~Holds(buf, i, "partial")
      BY <2>2 DEF Holds
    <3>. HIDE DEF w
    <3>. QED BY <1>1, <2>2, <3>1 DEF NameStep
  <2>. QED BY <1>3, <2>1, <2>2
<1>5. [w EXCEPT !.st = "done", !.end = i + 1] =
        [st |-> "done", cursor |-> i, labels |-> l, end |-> i + 1]
  <2>. DEFINE v == [st |-> "done", cursor |-> i, labels |-> l, end |-> None]
  <2>1. [w EXCEPT !.st = "done"] = v
    BY DEF Reads
  <2>2. [v EXCEPT !.end = i + 1] = [st |-> "done", cursor |-> i, labels |-> l, end |-> i + 1]
    OBVIOUS
  <2>3. [w EXCEPT !.st = "done", !.end = i + 1] = [[w EXCEPT !.st = "done"] EXCEPT !.end = i + 1]
    OBVIOUS
  <2>. QED BY <2>1, <2>2, <2>3
<1>. HIDE DEF w
<1>. QED BY <1>2, <1>4, <1>5 DEF w

LEMMA PartialStep ==
  ASSUME NEW buf, Len(buf) \in Nat, NEW i \in Nat, i <= Len(buf), buf[i].k = "partial", NEW l
  PROVE  NameStep(buf, Reads(i, l)).st = "undefined"
<1>. DEFINE w == Reads(i, l)
<1>1. w.cursor = i /\ ~(i > Len(buf)) /\ Holds(buf, i, "partial")
  BY DEF Reads, Holds
<1>2. ~Holds(buf, i, "pointer") /\ ~Holds(buf, i, "label") /\ ~Holds(buf, i, "root")
  BY DEF Holds
<1>3. NameStep(buf, w) = [w EXCEPT !.st = "undefined"]
  <2>. HIDE DEF w
  <2>. QED BY <1>1, <1>2 DEF NameStep
<1>4. [w EXCEPT !.st = "undefined"].st = "undefined"
  BY DEF Reads
<1>. QED BY <1>3, <1>4

\* A name that is there is read as it is; one that is cut ends beyond the
\* buffer, or is given up.
LEMMA ParseShown ==
  ASSUME NEW buf, NEW cells, NEW n, IsSeq(cells), Shows(buf, cells, n),
         NEW name, IsSeq(name), NEW c \in 1..(n + 1), NameAt(name, c, cells)
  PROVE  LET q == parseDnsName(buf, c) IN
         /\ c + Len(name) <= n =>
              q.st = "done" /\ q.labels = name /\ q.end = c + Len(name) + 1
         /\ c + Len(name) > n => q.st = "undefined" \/ (q.st = "done" /\ q.end = n + 2)
<1>. DEFINE m == Len(name)
            N == Len(buf) + 2
<1>1. n \in Nat /\ Len(buf) \in Nat /\ m \in Nat /\ n <= Len(buf) /\ Len(buf) <= n + 1
  BY SeqIsFunction DEF Shows
<1>2. PICK walk :
           /\ walk[0] = Reads(c, <<>>)
           /\ \A k \in 1..N :
                walk[k] = IF walk[k - 1].st = "reading" THEN NameStep(buf, walk[k - 1])
                          ELSE walk[k - 1]
           /\ parseDnsName(buf, c) = walk[N]
  BY <1>1, NameWalk DEF Reads
<1>. DEFINE Reading(k) ==
              \E l : /\ walk[k] = Reads(c + k, l)
                     /\ IsSeq(l) /\ Len(l) = k /\ \A j \in 1..k : l[j] = name[j]
            S == {k \in Nat : k <= m /\ c + k <= n + 1 => Reading(k)}
<1>3. Reading(0)
  BY <1>2, SeqEmpty
<1>10. \A i, l : Reads(i, l).st = "reading"
  BY DEF Reads
<1>4. ASSUME NEW k \in Nat, Reading(k), k + 1 <= m, c + (k + 1) <= n + 1 PROVE Reading(k + 1)
  <2>1. PICK l : /\ walk[k] = Reads(c + k, l)
                 /\ IsSeq(l) /\ Len(l) = k /\ \A j \in 1..k : l[j] = name[j]
    BY <1>4
  <2>2. k + 1 \in 1..N /\ (k + 1) - 1 = k /\ c + k \in 1..n /\ k + 1 \in 1..m
        /\ c - 1 + (k + 1) = c + k /\ (c + k) + 1 = c + (k + 1)
    BY <1>1, <1>4
  <2>3. cells[c + k].k = "label" /\ cells[c + k].label = name[k + 1]
    BY <2>2 DEF NameAt
  <2>4. buf[c + k] = cells[c + k] /\ c + k <= Len(buf) /\ c + k \in Nat
    BY <2>2, <1>1 DEF Shows
  <2>5. walk[k + 1] = NameStep(buf, Reads(c + k, l))
    BY <2>1, <2>2, <1>2, <1>10
  <2>6. walk[k + 1] = Reads(c + (k + 1), Append(l, name[k + 1]))
    <3>1. buf[c + k].k = "label" /\ buf[c + k].label = name[k + 1]
      BY <2>3, <2>4
    <3>2. NameStep(buf, Reads(c + k, l)) = Reads((c + k) + 1, Append(l, buf[c + k].label))
      BY <2>4, <3>1, <1>1, LabelStep
    <3>. QED BY <2>2, <2>5, <3>1, <3>2
  <2>9. /\ IsSeq(Append(l, name[k + 1])) /\ Len(Append(l, name[k + 1])) = k + 1
        /\ \A j \in 1..k : Append(l, name[k + 1])[j] = l[j]
        /\ Append(l, name[k + 1])[k + 1] = name[k + 1]
    BY <2>1, SeqAppend
  <2>10. \A j \in 1..(k + 1) : j \in 1..k \/ j = k + 1
    OBVIOUS
  <2>12. \A j \in 1..(k + 1) : Append(l, name[k + 1])[j] = name[j]
    BY <2>1, <2>9, <2>10
  <2>. QED BY <2>6, <2>9, <2>12
<1>. HIDE DEF Reading
<1>5. \A k \in Nat : k <= m /\ c + k <= n + 1 => Reading(k)
  <2>1. 0 \in S
    BY <1>3
  <2>2. ASSUME NEW k \in Nat, k \in S PROVE k + 1 \in S
    <3>. SUFFICES ASSUME k + 1 <= m, c + (k + 1) <= n + 1 PROVE Reading(k + 1)
      OBVIOUS
    <3>1. Reading(k)
      BY <1>1, <2>2
    <3>. QED BY <1>4, <3>1
  <2>3. Nat \subseteq S
    <3>. HIDE DEF S
    <3>. QED BY <2>1, <2>2, Induction
  <2>. QED BY <2>3
<1>. HIDE DEF S
\* Once it has ended nothing changes.
<1>6. ASSUME NEW k \in 0..N, walk[k].st # "reading" PROVE walk[N] = walk[k]
  <2>. DEFINE T == {i \in Nat : k + i <= N => walk[k + i] = walk[k]}
  <2>1. 0 \in T
    OBVIOUS
  <2>2. ASSUME NEW i \in Nat, i \in T PROVE i + 1 \in T
    <3>. SUFFICES ASSUME k + (i + 1) <= N PROVE walk[k + (i + 1)] = walk[k]
      OBVIOUS
    <3>1. k + (i + 1) \in 1..N /\ k + (i + 1) - 1 = k + i /\ walk[k + i] = walk[k]
      BY <2>2, <1>1
    <3>. QED BY <3>1, <1>2, <1>6
  <2>3. Nat \subseteq T
    <3>. HIDE DEF T
    <3>. QED BY <2>1, <2>2, Induction
  <2>4. N - k \in T /\ k + (N - k) = N
    <3>1. N - k \in Nat /\ k + (N - k) = N
      BY <1>1
    <3>. HIDE DEF T
    <3>. QED BY <3>1, <2>3
  <2>. QED BY <2>4
<1>7. CASE c + m <= n
  <2>1. PICK l : /\ walk[m] = Reads(c + m, l)
                 /\ IsSeq(l) /\ Len(l) = m /\ \A j \in 1..m : l[j] = name[j]
    BY <1>1, <1>5, <1>7 DEF Reading
  <2>2. l = name
    BY <2>1, SeqsEqual
  <2>3. m + 1 \in 1..N /\ m + 1 \in 0..N /\ (m + 1) - 1 = m /\ c + m \in 1..n /\ c + m \in Nat
    BY <1>1, <1>7
  <2>4. buf[c + m].k = "root"
    BY <2>3, <1>1 DEF NameAt, Shows
  <2>5. walk[m + 1] = NameStep(buf, Reads(c + m, name))
    BY <2>1, <2>2, <2>3, <1>2, <1>10
  <2>6. walk[m + 1] = [st |-> "done", cursor |-> c + m, labels |-> name, end |-> c + m + 1]
    BY <2>3, <2>4, <2>5, <1>1, RootStep
  <2>7. walk[m + 1].st = "done" /\ walk[m + 1].labels = name /\ walk[m + 1].end = c + m + 1
    BY <2>6
  <2>8. walk[N] = walk[m + 1]
    BY <2>3, <2>7, <1>6
  <2>. QED BY <1>1, <1>2, <1>7, <2>7, <2>8
<1>8. CASE c + m > n
  <2>. DEFINE k == n + 1 - c
  <2>1. k \in Nat /\ k <= m /\ c + k = n + 1 /\ k + 1 \in 1..N /\ k + 1 \in 0..N
        /\ k + 1 - 1 = k /\ n + 1 \in Nat
    BY <1>1, <1>8
  <2>. HIDE DEF k
  <2>2. Reading(k)
    BY <2>1, <1>1, <1>5
  <2>3. PICK l : walk[k] = Reads(n + 1, l)
    BY <2>1, <2>2 DEF Reading
  <2>5. walk[k + 1] = NameStep(buf, Reads(n + 1, l))
    BY <2>1, <2>3, <1>2, <1>10
  <2>6. CASE Len(buf) = n
    <3>1. n + 1 > Len(buf) /\ n + 1 + 1 = n + 2
      BY <2>6, <1>1
    <3>2. walk[k + 1] = [st |-> "done", cursor |-> n + 1, labels |-> l, end |-> n + 1 + 1]
      BY <2>1, <2>5, <3>1, <1>1, RootStep
    <3>4. walk[k + 1].st = "done" /\ walk[k + 1].end = n + 2
      BY <3>1, <3>2
    <3>5. walk[N] = walk[k + 1]
      BY <2>1, <3>4, <1>6
    <3>. QED BY <1>1, <1>2, <1>8, <3>4, <3>5
  <2>7. CASE Len(buf) = n + 1
    <3>1. buf[n + 1].k = "partial" /\ n + 1 <= Len(buf)
      BY <2>7, <1>1 DEF Shows
    <3>4. walk[k + 1].st = "undefined"
      BY <2>1, <2>5, <3>1, <1>1, PartialStep
    <3>5. walk[N] = walk[k + 1]
      BY <2>1, <3>4, <1>6
    <3>. QED BY <1>1, <1>2, <1>8, <3>4, <3>5
  <2>. QED BY <2>6, <2>7 DEF Shows
<1>. QED BY <1>1, <1>7, <1>8

-----------------------------------------------------------------------------
(* Questions and answers *)

PlainName(name) == Append(Labels(name), Root)

LEMMA PlainNameSeq ==
  ASSUME NEW name, IsSeq(name)
  PROVE  /\ IsSeq(PlainName(name)) /\ Len(PlainName(name)) = Len(name) + 1 /\ Len(name) \in Nat
         /\ \A i \in 1..(Len(name) + 1) : PlainName(name)[i].k \in {"label", "root"}
<1>1. Len(name) \in Nat
  BY SeqIsFunction
<1>2. /\ IsSeq(PlainName(name)) /\ Len(PlainName(name)) = Len(name) + 1
      /\ \A i \in 1..Len(name) : PlainName(name)[i] = Labels(name)[i]
      /\ PlainName(name)[Len(name) + 1] = Root
  BY LabelsSeq, SeqAppend DEF PlainName
<1>3. \A i \in 1..Len(name) : PlainName(name)[i] = Label(name[i])
  BY <1>2, LabelsSeq
<1>4. \A i \in 1..Len(name) : Label(name[i]).k = "label"
  BY DEF Label
<1>5. Root.k = "root"
  BY DEF Root
<1>6. \A i \in 1..(Len(name) + 1) : i \in 1..Len(name) \/ i = Len(name) + 1
  BY <1>1
<1>. QED BY <1>1, <1>2, <1>3, <1>4, <1>5, <1>6

QuestionCells(q) == Append(PlainName(q), [k |-> "question"])

QuestionAt(q, c, cells) ==
  /\ NameAt(q, c, cells)
  /\ c + Len(q) + 1 <= Len(cells) /\ cells[c + Len(q) + 1].k = "question"

\* The same of a question,
LEMMA QuestionStands ==
  ASSUME NEW q, IsSeq(q)
  PROVE  /\ IsSeq(QuestionCells(q)) /\ Len(QuestionCells(q)) = Len(q) + 2
         /\ \A c \in Nat : \A cells : IsSeq(cells) /\ Stands(QuestionCells(q), c, cells) =>
              QuestionAt(q, c, cells)
<1>1. IsSeq(PlainName(q)) /\ Len(PlainName(q)) = Len(q) + 1 /\ Len(q) \in Nat
  BY PlainNameSeq
<1>2. IsSeq(QuestionCells(q)) /\ Len(QuestionCells(q)) = Len(q) + 2
  <2>1. /\ IsSeq(Append(PlainName(q), [k |-> "question"]))
        /\ Len(Append(PlainName(q), [k |-> "question"])) = Len(PlainName(q)) + 1
    BY <1>1, SeqAppend
  <2>. QED BY <1>1, <2>1 DEF QuestionCells
<1>3. ASSUME NEW c \in Nat, NEW cells, IsSeq(cells), Stands(QuestionCells(q), c, cells)
      PROVE  QuestionAt(q, c, cells)
  <2>1. /\ Stands(PlainName(q), c, cells)
        /\ c + Len(PlainName(q)) <= Len(cells)
        /\ cells[c + Len(PlainName(q))] = [k |-> "question"]
    BY <1>1, <1>3, AppendStands DEF QuestionCells
  <2>2. NameAt(q, c, cells)
    BY <1>3, <2>1, NameStands DEF PlainName
  <2>3. c + Len(PlainName(q)) = c + Len(q) + 1
    BY <1>1
  <2>4. cells[c + Len(q) + 1].k = "question"
    BY <2>1, <2>3
  <2>. QED BY <2>1, <2>2, <2>3, <2>4 DEF QuestionAt
<1>. QED BY <1>2, <1>3

DataOf(a) == CASE a.type = "SRV" -> << [k |-> "priority"] >> \o PlainName(a.target)
               [] a.type = "PTR" -> PlainName(a.target)
               [] OTHER -> << [k |-> "address", ip |-> a.ip] >>

RecordHeader(a) == [k |-> "rr", type |-> a.type, rdlength |-> Len(DataOf(a))]
AnswerCells(a) == PlainName(a.owner) \o (<< RecordHeader(a) >> \o DataOf(a))

WellFormedAnswer(a) ==
  /\ IsSeq(a.owner)
  /\ a.type \in {"A", "AAAA", "TXT", "PTR", "SRV"}
  /\ a.type \in {"PTR", "SRV"} => IsSeq(a.target)

AnswerAt(a, c, cells) ==
  LET rr == c + Len(a.owner) + 1 IN
  /\ NameAt(a.owner, c, cells)
  /\ Len(DataOf(a)) \in Nat
  /\ rr + Len(DataOf(a)) <= Len(cells)
  /\ cells[rr] = RecordHeader(a)
  /\ \A i \in rr..(rr + Len(DataOf(a))) : cells[i].k # "partial"
  /\ a.type = "SRV" => NameAt(a.target, rr + 2, cells) /\ Len(DataOf(a)) = Len(a.target) + 2
  /\ a.type = "A" => cells[rr + 1] = [k |-> "address", ip |-> a.ip] /\ Len(DataOf(a)) = 1

LEMMA DataSeq ==
  ASSUME NEW a, WellFormedAnswer(a)
  PROVE  /\ IsSeq(DataOf(a)) /\ Len(DataOf(a)) \in Nat
         /\ \A i \in 1..Len(DataOf(a)) : DataOf(a)[i].k # "partial"
         /\ a.type = "SRV" => DataOf(a) = << [k |-> "priority"] >> \o PlainName(a.target)
                              /\ Len(DataOf(a)) = Len(a.target) + 2
         /\ a.type = "A" => DataOf(a) = << [k |-> "address", ip |-> a.ip] >> /\ Len(DataOf(a)) = 1
<1>1. CASE a.type = "SRV"
  <2>1. DataOf(a) = << [k |-> "priority"] >> \o PlainName(a.target)
    BY <1>1 DEF DataOf
  <2>2. /\ IsSeq(PlainName(a.target)) /\ Len(PlainName(a.target)) = Len(a.target) + 1
        /\ Len(a.target) \in Nat
        /\ \A i \in 1..(Len(a.target) + 1) : PlainName(a.target)[i].k \in {"label", "root"}
    BY <1>1, PlainNameSeq DEF WellFormedAnswer
  <2>3. /\ IsSeq(DataOf(a)) /\ Len(DataOf(a)) = 1 + Len(PlainName(a.target))
        /\ DataOf(a)[1] = [k |-> "priority"]
        /\ \A i \in 1..Len(PlainName(a.target)) : DataOf(a)[1 + i] = PlainName(a.target)[i]
    <3>1. /\ IsSeq(<< [k |-> "priority"] >>) /\ Len(<< [k |-> "priority"] >>) = 1
          /\ << [k |-> "priority"] >>[1] = [k |-> "priority"]
      BY SeqOne
    <3>. QED BY <2>1, <2>2, <3>1, SeqConcat
  <2>4. ASSUME NEW i \in 1..Len(DataOf(a)) PROVE DataOf(a)[i].k # "partial"
    <3>1. CASE i = 1
      BY <2>3, <3>1
    <3>2. CASE i # 1
      <4>1. i - 1 \in 1..(Len(a.target) + 1) /\ 1 + (i - 1) = i
        BY <2>2, <2>3, <3>2
      <4>2. DataOf(a)[1 + (i - 1)] = PlainName(a.target)[i - 1]
        BY <2>2, <2>3, <4>1
      <4>. QED BY <2>2, <4>1, <4>2
    <3>. QED BY <3>1, <3>2
  <2>. QED BY <1>1, <2>1, <2>2, <2>3, <2>4
<1>2. CASE a.type = "PTR"
  <2>1. DataOf(a) = PlainName(a.target)
    BY <1>2 DEF DataOf
  <2>2. /\ IsSeq(PlainName(a.target)) /\ Len(PlainName(a.target)) = Len(a.target) + 1
        /\ Len(a.target) \in Nat
        /\ \A i \in 1..(Len(a.target) + 1) : PlainName(a.target)[i].k \in {"label", "root"}
    BY <1>2, PlainNameSeq DEF WellFormedAnswer
  <2>3. \A i \in 1..Len(DataOf(a)) : DataOf(a)[i].k # "partial"
    BY <2>1, <2>2
  <2>. QED BY <1>2, <2>1, <2>2, <2>3
<1>3. CASE a.type \notin {"SRV", "PTR"}
  <2>1. DataOf(a) = << [k |-> "address", ip |-> a.ip] >>
    BY <1>3 DEF DataOf
  <2>2. IsSeq(DataOf(a)) /\ Len(DataOf(a)) = 1 /\ DataOf(a)[1].k = "address"
    BY <2>1, SeqOne
  <2>. QED BY <1>3, <2>1, <2>2
<1>. QED BY <1>1, <1>2, <1>3

LEMMA AnswerSeq ==
  ASSUME NEW a, WellFormedAnswer(a)
  PROVE  /\ IsSeq(AnswerCells(a)) /\ IsSeq(<< RecordHeader(a) >> \o DataOf(a))
         /\ Len(AnswerCells(a)) = Len(a.owner) + 2 + Len(DataOf(a))
<1>1. /\ IsSeq(PlainName(a.owner)) /\ Len(PlainName(a.owner)) = Len(a.owner) + 1
      /\ Len(a.owner) \in Nat
  BY PlainNameSeq DEF WellFormedAnswer
<1>2. IsSeq(DataOf(a)) /\ Len(DataOf(a)) \in Nat
  BY DataSeq
<1>3. IsSeq(<< RecordHeader(a) >>) /\ Len(<< RecordHeader(a) >>) = 1
  BY SeqOne
<1>4. /\ IsSeq(<< RecordHeader(a) >> \o DataOf(a))
      /\ Len(<< RecordHeader(a) >> \o DataOf(a)) = 1 + Len(DataOf(a))
  BY <1>2, <1>3, SeqConcat
<1>5. /\ IsSeq(AnswerCells(a))
      /\ Len(AnswerCells(a)) = Len(PlainName(a.owner)) + Len(<< RecordHeader(a) >> \o DataOf(a))
  BY <1>1, <1>4, SeqConcat DEF AnswerCells
<1>6. Len(AnswerCells(a)) = Len(a.owner) + 2 + Len(DataOf(a))
  <2>1. Len(AnswerCells(a)) = (Len(a.owner) + 1) + (1 + Len(DataOf(a)))
    BY <1>1, <1>4, <1>5
  <2>2. \A x, y \in Nat : (x + 1) + (1 + y) = x + 2 + y
    OBVIOUS
  <2>. QED BY <1>1, <1>2, <2>1, <2>2
<1>. QED BY <1>4, <1>5, <1>6

\* and of a record.
LEMMA AnswerStands ==
  ASSUME NEW a, WellFormedAnswer(a), NEW c \in Nat, NEW cells, IsSeq(cells),
         Stands(AnswerCells(a), c, cells)
  PROVE  AnswerAt(a, c, cells)
<1>. DEFINE rr == c + Len(a.owner) + 1
            header == << RecordHeader(a) >>
<1>1. /\ IsSeq(PlainName(a.owner)) /\ Len(PlainName(a.owner)) = Len(a.owner) + 1
      /\ Len(a.owner) \in Nat
  BY PlainNameSeq DEF WellFormedAnswer
<1>2. IsSeq(DataOf(a)) /\ Len(DataOf(a)) \in Nat
  BY DataSeq
<1>3. IsSeq(header) /\ Len(header) = 1 /\ header[1] = RecordHeader(a)
  BY SeqOne
<1>4. IsSeq(header \o DataOf(a))
  BY AnswerSeq
<1>5. c + Len(PlainName(a.owner)) = rr /\ rr \in Nat
  BY <1>1
<1>6. Stands(PlainName(a.owner), c, cells) /\ Stands(header \o DataOf(a), rr, cells)
  BY <1>1, <1>4, <1>5, ConcatStands DEF AnswerCells
<1>7. NameAt(a.owner, c, cells)
  BY <1>6, NameStands DEF PlainName, WellFormedAnswer
<1>. HIDE DEF header, rr
<1>8. Stands(header, rr, cells) /\ Stands(DataOf(a), rr + 1, cells)
  BY <1>2, <1>3, <1>5, <1>6, ConcatStands
<1>9. cells[rr] = RecordHeader(a)
  <2>1. cells[rr - 1 + 1] = header[1]
    BY <1>3, <1>8 DEF Stands
  <2>. QED BY <1>3, <1>5, <2>1
<1>10. /\ rr + Len(DataOf(a)) <= Len(cells)
       /\ \A i \in 1..Len(DataOf(a)) : cells[rr + i] = DataOf(a)[i]
  <2>1. /\ rr + 1 + Len(DataOf(a)) <= Len(cells) + 1
        /\ \A i \in 1..Len(DataOf(a)) : cells[rr + 1 - 1 + i] = DataOf(a)[i]
    BY <1>2, <1>5, <1>8 DEF Stands
  <2>2. \A i \in 1..Len(DataOf(a)) : rr + 1 - 1 + i = rr + i
    BY <1>2, <1>5
  <2>3. Len(cells) \in Nat
    BY SeqIsFunction
  <2>. QED BY <1>2, <1>5, <2>1, <2>2, <2>3
<1>11. ASSUME NEW i \in rr..(rr + Len(DataOf(a))) PROVE cells[i].k # "partial"
  <2>1. CASE i = rr
    BY <1>9, <2>1 DEF RecordHeader
  <2>2. CASE i # rr
    <3>1. i - rr \in 1..Len(DataOf(a)) /\ rr + (i - rr) = i
      BY <1>2, <1>5, <2>2
    <3>2. cells[rr + (i - rr)] = DataOf(a)[i - rr]
      BY <1>10, <3>1
    <3>3. DataOf(a)[i - rr].k # "partial"
      BY <3>1, DataSeq
    <3>. QED BY <3>1, <3>2, <3>3
  <2>. QED BY <2>1, <2>2
<1>12. ASSUME a.type = "SRV"
       PROVE  NameAt(a.target, rr + 2, cells) /\ Len(DataOf(a)) = Len(a.target) + 2
  <2>1. /\ DataOf(a) = << [k |-> "priority"] >> \o PlainName(a.target)
        /\ Len(DataOf(a)) = Len(a.target) + 2
    BY <1>12, DataSeq
  <2>2. IsSeq(a.target) /\ IsSeq(PlainName(a.target))
    BY <1>12, PlainNameSeq DEF WellFormedAnswer
  <2>3. IsSeq(<< [k |-> "priority"] >>) /\ Len(<< [k |-> "priority"] >>) = 1
    BY SeqOne
  <2>4. Stands(PlainName(a.target), (rr + 1) + 1, cells)
    <3>1. rr + 1 \in Nat
      BY <1>5
    <3>. QED BY <1>8, <2>1, <2>2, <2>3, <3>1, ConcatStands
  <2>5. (rr + 1) + 1 = rr + 2 /\ rr + 2 \in Nat
    BY <1>5
  <2>. QED BY <2>1, <2>2, <2>4, <2>5, NameStands DEF PlainName
<1>13. ASSUME a.type = "A"
       PROVE  cells[rr + 1] = [k |-> "address", ip |-> a.ip] /\ Len(DataOf(a)) = 1
  <2>1. DataOf(a) = << [k |-> "address", ip |-> a.ip] >> /\ Len(DataOf(a)) = 1
    BY <1>13, DataSeq
  <2>2. DataOf(a)[1] = [k |-> "address", ip |-> a.ip] /\ 1 \in 1..Len(DataOf(a))
    BY <2>1, SeqOne
  <2>. QED BY <2>1, <2>2, <1>10
<1>. QED BY <1>2, <1>7, <1>9, <1>10, <1>11, <1>12, <1>13 DEF AnswerAt, rr

-----------------------------------------------------------------------------
(* One iteration of the loops of decodeMdns *)

Loop(c, a, names) == [st |-> "more", cursor |-> c, a |-> a, names |-> names]

\* A question is passed, or the message is given up.
LEMMA QuestionRead ==
  ASSUME NEW buf, NEW cells, NEW n, IsSeq(cells), Shows(buf, cells, n),
         NEW q, IsSeq(q), NEW c \in 1..(n + 1), QuestionAt(q, c, cells), NEW a, NEW names
  PROVE  /\ c + Len(q) + 1 <= n =>
              QuestionStep(buf, Loop(c, a, names)) = Loop(c + Len(q) + 2, a, names)
         /\ c + Len(q) + 1 > n => QuestionStep(buf, Loop(c, a, names)).st = "undefined"
<1>. DEFINE w == Loop(c, a, names)
            p == parseDnsName(buf, c)
<1>1. n \in Nat /\ Len(q) \in Nat
  BY SeqIsFunction DEF Shows
<1>2. /\ c + Len(q) <= n => p.st = "done" /\ p.end = c + Len(q) + 1
      /\ c + Len(q) > n => p.st = "undefined" \/ (p.st = "done" /\ p.end = n + 2)
  BY ParseShown DEF QuestionAt
<1>. HIDE DEF p
<1>3. w.cursor = c
  BY DEF Loop
<1>4. QuestionStep(buf, w) =
        IF p.st = "done" /\ Holds(buf, p.end, "question")
        THEN [w EXCEPT !.cursor = p.end + 1]
        ELSE [w EXCEPT !.st = IF p.st = "reading" THEN "reading" ELSE "undefined"]
  <2>. HIDE DEF w
  <2>. QED BY <1>3 DEF QuestionStep, p
<1>5. CASE c + Len(q) + 1 <= n
  <2>1. p.st = "done" /\ p.end = c + Len(q) + 1 /\ c + Len(q) + 1 \in Nat \ {0}
    BY <1>1, <1>2, <1>5
  <2>2. Holds(buf, c + Len(q) + 1, "question")
    BY <1>5, <2>1, HoldsShown DEF QuestionAt
  <2>3. c + Len(q) + 1 + 1 = c + Len(q) + 2
    BY <1>1
  <2>4. QuestionStep(buf, w) = [w EXCEPT !.cursor = c + Len(q) + 2]
    <3>. HIDE DEF w
    <3>. QED BY <1>4, <2>1, <2>2, <2>3
  <2>5. [w EXCEPT !.cursor = c + Len(q) + 2] = Loop(c + Len(q) + 2, a, names)
    BY DEF Loop
  <2>. QED BY <1>1, <1>5, <2>4, <2>5
<1>6. CASE c + Len(q) + 1 > n
  <2>1. ~(p.st = "done" /\ Holds(buf, p.end, "question")) /\ p.st # "reading"
    <3>1. CASE c + Len(q) <= n
      <4>1. p.st = "done" /\ p.end = c + Len(q) + 1 /\ c + Len(q) + 1 \in Nat \ {0}
        BY <1>1, <1>2, <3>1
      <4>2. ~Holds(buf, c + Len(q) + 1, "question")
        BY <1>1, <1>6, <4>1, HoldsShown
      <4>. QED BY <4>1, <4>2
    <3>2. CASE c + Len(q) > n
      <4>1. n + 2 \in Nat \ {0} /\ ~(n + 2 <= n)
        BY <1>1
      <4>2. ~Holds(buf, n + 2, "question")
        BY <4>1, HoldsShown
      <4>. QED BY <1>2, <3>2, <4>2
    <3>. QED BY <1>1, <3>1, <3>2
  <2>2. QuestionStep(buf, w) = [w EXCEPT !.st = "undefined"]
    <3>. HIDE DEF w
    <3>. QED BY <1>4, <2>1
  <2>3. [w EXCEPT !.st = "undefined"].st = "undefined"
    BY DEF Loop
  <2>. QED BY <1>1, <1>6, <2>2, <2>3
<1>. QED BY <1>1, <1>5, <1>6

NamesOf(a) == CASE a.type = "TXT" -> <<>>
                [] a.type = "SRV" -> <<a.owner>> \o <<a.target>>
                [] OTHER -> <<a.owner>>
AddressesOf(a, found) ==
  IF a.type = "A" THEN Append(found, [name |-> a.owner, ip |-> a.ip]) ELSE found

LEMMA LoopFound ==
  ASSUME NEW c, NEW found, NEW names, NEW other
  PROVE  [Loop(c, found, names) EXCEPT !.a = other] = Loop(c, other, names)
BY DEF Loop

LEMMA LoopMore ==
  ASSUME NEW c, NEW found, NEW names
  PROVE  [Loop(c, found, names) EXCEPT !.st = "more"] = Loop(c, found, names)
BY DEF Loop

LEMMA LoopDone ==
  ASSUME NEW c, NEW found, NEW names
  PROVE  [Loop(c, found, names) EXCEPT !.st = "done"] =
           [st |-> "done", cursor |-> c, a |-> found, names |-> names]
BY DEF Loop

\* An answer is taken whole, or ends the loop.
LEMMA AnswerRead ==
  ASSUME NEW buf, NEW cells, NEW n, IsSeq(cells), Shows(buf, cells, n),
         NEW a, WellFormedAnswer(a), NEW c \in 1..(n + 1), AnswerAt(a, c, cells),
         NEW found, NEW names
  PROVE  LET e == c + Len(AnswerCells(a)) IN
         /\ e <= n + 1 => AnswerStep(buf, Loop(c, found, names)) =
                            Loop(e, AddressesOf(a, found), names \o NamesOf(a))
         /\ e > n + 1 => AnswerStep(buf, Loop(c, found, names)) =
                           [st |-> "done", cursor |-> c, a |-> found, names |-> names]
<1>. DEFINE w == Loop(c, found, names)
            owner == parseDnsName(buf, c)
            m == Len(a.owner)
            d == Len(DataOf(a))
            rr == c + m + 1
<1>1. n \in Nat /\ m \in Nat /\ d \in Nat /\ rr \in Nat \ {0} /\ n <= Len(buf) /\ Len(buf) \in Nat
  BY SeqIsFunction, DataSeq DEF Shows, WellFormedAnswer
<1>2. c + Len(AnswerCells(a)) = rr + d + 1
  <2>1. Len(AnswerCells(a)) = m + 2 + d
    BY AnswerSeq
  <2>. HIDE DEF m, d
  <2>. QED BY <1>1, <2>1
<1>3. /\ c + m <= n => owner.st = "done" /\ owner.labels = a.owner /\ owner.end = rr
      /\ c + m > n => owner.st = "undefined" \/ (owner.st = "done" /\ owner.end = n + 2)
  <2>1. NameAt(a.owner, c, cells) /\ IsSeq(a.owner)
    BY DEF AnswerAt, WellFormedAnswer
  <2>. DEFINE q == parseDnsName(buf, c)
  <2>. HIDE DEF w, m, d, rr
  <2>2. ASSUME NEW name, IsSeq(name), NameAt(name, c, cells)
        PROVE  /\ c + Len(name) <= n =>
                    q.st = "done" /\ q.labels = name /\ q.end = c + Len(name) + 1
               /\ c + Len(name) > n => q.st = "undefined" \/ (q.st = "done" /\ q.end = n + 2)
    BY <2>2, ParseShown
  <2>3. /\ c + m <= n => q.st = "done" /\ q.labels = a.owner /\ q.end = c + m + 1
        /\ c + m > n => q.st = "undefined" \/ (q.st = "done" /\ q.end = n + 2)
    <3>. HIDE DEF q
    <3>. QED BY <2>1, <2>2 DEF m
  <2>. QED BY <2>3 DEF rr
<1>4. /\ rr + d <= Len(cells) /\ cells[rr] = RecordHeader(a)
      /\ \A i \in rr..(rr + d) : cells[i].k # "partial"
      /\ a.type = "SRV" => NameAt(a.target, rr + 2, cells) /\ d = Len(a.target) + 2
      /\ a.type = "A" => cells[rr + 1] = [k |-> "address", ip |-> a.ip] /\ d = 1
  BY DEF AnswerAt
<1>5. cells[rr].k = "rr" /\ cells[rr].type = a.type /\ cells[rr].rdlength = d
  BY <1>4 DEF RecordHeader
<1>. HIDE DEF owner, m, d
<1>6. w.cursor = c
  BY DEF Loop
<1>7. CASE rr + d > n
  <2>1. owner.st # "reading" /\
        (owner.st = "undefined" \/ ~Holds(buf, owner.end, "rr") \/ ~HasData(buf, owner.end))
    <3>1. CASE c + m > n
      <4>1. n + 2 \in Nat \ {0} /\ ~(n + 2 <= n)
        BY <1>1
      <4>2. ~Holds(buf, n + 2, "rr")
        BY <4>1, HoldsShown
      <4>. QED BY <1>3, <3>1, <4>2
    <3>2. CASE c + m <= n /\ rr > n
      <4>1. ~Holds(buf, rr, "rr")
        BY <1>1, <3>2, HoldsShown
      <4>. QED BY <1>3, <3>2, <4>1
    <3>3. CASE rr <= n
      <4>1. c + m <= n /\ rr \in 1..n
        BY <1>1, <3>3
      <4>2. buf[rr].rdlength = d
        BY <1>5, <4>1 DEF Shows
      <4>3. n + 1 \in rr..(rr + d)
        BY <1>1, <1>7, <4>1
      <4>4. ~(n + 1 <= Len(buf) /\ buf[n + 1].k # "partial")
        BY <1>1 DEF Shows
      <4>5. ~HasData(buf, rr)
        BY <4>2, <4>3, <4>4 DEF HasData
      <4>. QED BY <1>3, <4>1, <4>5
    <3>. QED BY <1>1, <3>1, <3>2, <3>3
  <2>2. AnswerStep(buf, w) = [w EXCEPT !.st = "done"]
    <3>. HIDE DEF w
    <3>. QED BY <1>6, <2>1 DEF AnswerStep, owner
  <2>3. AnswerStep(buf, w) = [st |-> "done", cursor |-> c, a |-> found, names |-> names]
    BY <2>2, LoopDone
  <2>4. c + Len(AnswerCells(a)) > n + 1 /\ ~(c + Len(AnswerCells(a)) <= n + 1)
    BY <1>1, <1>2, <1>7
  <2>. QED BY <2>3, <2>4
<1>8. CASE rr + d <= n
  <2>1. owner.st = "done" /\ owner.labels = a.owner /\ owner.end = rr
    BY <1>1, <1>3, <1>8
  <2>2. rr \in 1..n
    BY <1>1, <1>8
  <2>3. buf[rr].k = "rr" /\ buf[rr].type = a.type /\ buf[rr].rdlength = d
    BY <1>5, <2>2 DEF Shows
  <2>4. Holds(buf, rr, "rr")
    BY <1>1, <2>2, <2>3 DEF Holds
  <2>5. HasData(buf, rr)
    <3>1. ASSUME NEW i \in rr..(rr + d) PROVE i <= Len(buf) /\ buf[i].k # "partial"
      <4>1. i \in 1..n /\ i <= Len(buf)
        BY <1>1, <1>8
      <4>2. buf[i] = cells[i]
        BY <4>1 DEF Shows
      <4>. QED BY <1>4, <4>1, <4>2
    <3>. QED BY <2>3, <3>1 DEF HasData
  <2>6. rr + 1 + d = rr + d + 1
    BY <1>1
  <2>. DEFINE target == parseDnsName(buf, (rr + 1) + 1)
              Passed(other) == [w EXCEPT !.cursor = rr + d + 1, !.names = names \o other]
  <2>7. AnswerStep(buf, w) =
          CASE a.type = "A" /\ d = 1 ->
                 [Passed(<<a.owner>>) EXCEPT
                    !.a = Append(@, [name |-> a.owner, ip |-> bytesToIpv4(buf, rr + 1)])]
            [] a.type = "SRV" ->
                 [Passed(<<a.owner>> \o IF target.st = "done" THEN <<target.labels>> ELSE <<>>)
                  EXCEPT !.st = IF target.st = "reading" THEN "reading" ELSE @]
            [] a.type \in {"PTR", "AAAA"} -> Passed(<<a.owner>>)
            [] OTHER -> Passed(<<>>)
    <3>1. w.names = names
      BY DEF Loop
    <3>2. owner.st # "reading" /\
          ~(owner.st = "undefined" \/ ~Holds(buf, owner.end, "rr") \/ ~HasData(buf, owner.end))
      BY <2>1, <2>4, <2>5
    <3>. HIDE DEF w
    <3>. QED BY <1>6, <2>1, <2>3, <2>6, <3>1, <3>2 DEF AnswerStep, owner
  <2>8. \A other : Passed(other) = Loop(rr + d + 1, found, names \o other)
    <3>. SUFFICES ASSUME NEW other
                  PROVE  Passed(other) = Loop(rr + d + 1, found, names \o other)
      OBVIOUS
    <3>. DEFINE e == rr + d + 1
                x == names \o other
    <3>. HIDE DEF e, x
    <3>1. [Loop(c, found, names) EXCEPT !.cursor = e, !.names = x] = Loop(e, found, x)
      <4>1. [Loop(c, found, names) EXCEPT !.cursor = e] = Loop(e, found, names)
        BY DEF Loop
      <4>2. [Loop(e, found, names) EXCEPT !.names = x] = Loop(e, found, x)
        BY DEF Loop
      <4>3. [Loop(c, found, names) EXCEPT !.cursor = e, !.names = x] =
              [[Loop(c, found, names) EXCEPT !.cursor = e] EXCEPT !.names = x]
        OBVIOUS
      <4>. QED BY <4>1, <4>2, <4>3
    <3>. QED BY <3>1 DEF e, x
  <2>. HIDE DEF w, Passed, target
  <2>9. AnswerStep(buf, w) = Loop(rr + d + 1, AddressesOf(a, found), names \o NamesOf(a))
    <3>1. CASE a.type = "A"
      <4>1. d = 1 /\ cells[rr + 1] = [k |-> "address", ip |-> a.ip]
        BY <1>4, <3>1
      <4>2. rr + 1 \in 1..n
        BY <1>1, <1>8, <4>1
      <4>3. buf[rr + 1] = [k |-> "address", ip |-> a.ip]
        BY <4>1, <4>2 DEF Shows
      <4>4. bytesToIpv4(buf, rr + 1) = a.ip
        BY <1>1, <4>2, <4>3 DEF bytesToIpv4, Holds
      <4>5. AnswerStep(buf, w) = [Passed(<<a.owner>>) EXCEPT
                                    !.a = Append(@, [name |-> a.owner, ip |-> a.ip])]
        BY <2>7, <3>1, <4>1, <4>4
      <4>6. Passed(<<a.owner>>) = Loop(rr + d + 1, found, names \o <<a.owner>>)
        BY <2>8
      <4>7. Loop(rr + d + 1, found, names \o <<a.owner>>).a = found
        BY DEF Loop
      <4>8. AnswerStep(buf, w) =
              [Loop(rr + d + 1, found, names \o <<a.owner>>) EXCEPT
                 !.a = Append(found, [name |-> a.owner, ip |-> a.ip])]
        BY <4>5, <4>6, <4>7
      <4>9. AnswerStep(buf, w) = Loop(rr + d + 1, Append(found, [name |-> a.owner, ip |-> a.ip]),
                                      names \o <<a.owner>>)
        <5>. DEFINE e == rr + d + 1
                    x == names \o <<a.owner>>
                    y == Append(found, [name |-> a.owner, ip |-> a.ip])
        <5>. HIDE DEF e, x, y
        <5>1. [Loop(e, found, x) EXCEPT !.a = y] = Loop(e, y, x)
          BY LoopFound
        <5>. QED BY <4>8, <5>1 DEF e, x, y
      <4>10. NamesOf(a) = <<a.owner>> /\
             AddressesOf(a, found) = Append(found, [name |-> a.owner, ip |-> a.ip])
        BY <3>1 DEF NamesOf, AddressesOf
      <4>. QED BY <4>9, <4>10
    <3>2. CASE a.type = "SRV"
      <4>1. NameAt(a.target, rr + 2, cells) /\ d = Len(a.target) + 2 /\ IsSeq(a.target)
        BY <1>4, <3>2 DEF WellFormedAnswer
      <4>2. rr + 2 \in 1..(n + 1) /\ rr + 2 + Len(a.target) <= n /\ (rr + 1) + 1 = rr + 2
        <5>1. Len(a.target) \in Nat
          BY <4>1, SeqIsFunction
        <5>2. \A x, y \in Nat : x + (y + 2) <= n => x + 2 \in 1..(n + 1) /\ x + 2 + y <= n
          BY <1>1
        <5>3. rr + (Len(a.target) + 2) <= n
          BY <1>8, <4>1
        <5>4. (rr + 1) + 1 = rr + 2
          BY <1>1
        <5>. QED BY <1>1, <5>1, <5>2, <5>3, <5>4
      <4>3. target.st = "done" /\ target.labels = a.target
        BY <4>1, <4>2, ParseShown DEF target
      <4>4. AnswerStep(buf, w) =
              [Passed(<<a.owner>> \o IF target.st = "done" THEN <<target.labels>> ELSE <<>>)
               EXCEPT !.st = IF target.st = "reading" THEN "reading" ELSE @]
        BY <2>7, <3>2
      <4>5. AnswerStep(buf, w) =
              [Passed(<<a.owner>> \o <<a.target>>) EXCEPT !.st = @]
        BY <4>3, <4>4
      <4>6. Passed(<<a.owner>> \o <<a.target>>) =
              Loop(rr + d + 1, found, names \o (<<a.owner>> \o <<a.target>>))
        BY <2>8
      <4>7. Passed(<<a.owner>> \o <<a.target>>).st = "more"
        BY <4>6 DEF Loop
      <4>8. AnswerStep(buf, w) =
              [Loop(rr + d + 1, found, names \o (<<a.owner>> \o <<a.target>>))
               EXCEPT !.st = "more"]
        BY <4>5, <4>6, <4>7
      <4>9. AnswerStep(buf, w) = Loop(rr + d + 1, found, names \o (<<a.owner>> \o <<a.target>>))
        BY <4>8, LoopMore
      <4>10. NamesOf(a) = <<a.owner>> \o <<a.target>> /\ AddressesOf(a, found) = found
        BY <3>2 DEF NamesOf, AddressesOf
      <4>. QED BY <4>9, <4>10
    <3>3. CASE a.type \in {"PTR", "AAAA"}
      <4>1. AnswerStep(buf, w) = Passed(<<a.owner>>)
        BY <2>7, <3>3
      <4>2. NamesOf(a) = <<a.owner>> /\ AddressesOf(a, found) = found
        BY <3>3 DEF NamesOf, AddressesOf
      <4>. QED BY <2>8, <4>1, <4>2
    <3>4. CASE a.type = "TXT"
      <4>1. AnswerStep(buf, w) = Passed(<<>>)
        BY <2>7, <3>4
      <4>2. NamesOf(a) = <<>> /\ AddressesOf(a, found) = found
        BY <3>4 DEF NamesOf, AddressesOf
      <4>. QED BY <2>8, <4>1, <4>2
    <3>. QED BY <3>1, <3>2, <3>3, <3>4 DEF WellFormedAnswer
  <2>10. c + Len(AnswerCells(a)) = rr + d + 1 /\ ~(rr + d + 1 > n + 1)
    BY <1>1, <1>2, <1>8
  <2>. QED BY <2>9, <2>10 DEF w
<1>. QED BY <1>1, <1>7, <1>8

-----------------------------------------------------------------------------
(* The loops of decodeMdns *)

MdnsStep(buf, qd, k, w) ==
  IF w.st # "more" THEN w ELSE IF k <= qd THEN QuestionStep(buf, w) ELSE AnswerStep(buf, w)

\* The function that decodeMdns takes its value from.
LEMMA MdnsWalk ==
  ASSUME NEW buf, NEW o, Holds(buf, o, "dns"), NEW qd \in Nat, NEW an \in Nat,
         buf[o].questions = qd, buf[o].answers = an
  PROVE  \E loop :
           /\ loop[0] = Loop(o + 1, <<>>, <<>>)
           /\ \A k \in 1..(qd + an) : loop[k] = MdnsStep(buf, qd, k, loop[k - 1])
           /\ decodeMdns(buf, o) = loop[qd + an]
<1>. DEFINE N == qd + an
            base == [st |-> "more", cursor |-> o + 1, a |-> <<>>, names |-> <<>>]
            Step(k, w) == CASE w.st # "more" -> w
                            [] w.st = "more" /\ k <= qd -> QuestionStep(buf, w)
                            [] OTHER -> AnswerStep(buf, w)
            Is(f) == f = [k \in 0..N |-> IF k = 0 THEN base ELSE Step(k, f[k - 1])]
            loop == CHOOSE f : Is(f)
            S == {m \in Nat : \E f : f = [k \in 0..m |-> IF k = 0 THEN base
                                                         ELSE Step(k, f[k - 1])]}
<1>1. decodeMdns(buf, o) = loop[N]
  BY DEF decodeMdns
<1>2. 0 \in S
  <2>1. [k \in 0..0 |-> base] = [k \in 0..0 |-> IF k = 0 THEN base
                                                ELSE Step(k, [i \in 0..0 |-> base][k - 1])]
    <3>. HIDE DEF base, Step
    <3>. QED OBVIOUS
  <2>. QED BY <2>1
<1>3. ASSUME NEW k, NEW w PROVE Step(k, w) = MdnsStep(buf, qd, k, w)
  BY DEF MdnsStep
<1>. HIDE DEF Step, base
<1>4. ASSUME NEW m \in Nat, m \in S PROVE m + 1 \in S
  <2>1. PICK f : f = [k \in 0..m |-> IF k = 0 THEN base ELSE Step(k, f[k - 1])]
    BY <1>4
  <2>. DEFINE g == [k \in 0..(m + 1) |-> IF k = m + 1 THEN Step(m + 1, f[m]) ELSE f[k]]
  <2>2. \A k \in 0..m : f[k] = IF k = 0 THEN base ELSE Step(k, f[k - 1])
    BY <2>1
  <2>3. \A k \in 0..(m + 1) : g[k] = IF k = m + 1 THEN Step(m + 1, f[m]) ELSE f[k]
    OBVIOUS
  <2>4. g = [k \in 0..(m + 1) |-> g[k]]
    OBVIOUS
  <2>. HIDE DEF g
  <2>5. ASSUME NEW k \in 0..(m + 1) PROVE g[k] = IF k = 0 THEN base ELSE Step(k, g[k - 1])
    <3>1. CASE k = 0
      BY <3>1, <2>2, <2>3
    <3>2. CASE k # 0
      <4>1. k - 1 \in 0..m /\ k - 1 # m + 1
        BY <3>2
      <4>2. g[k - 1] = f[k - 1]
        BY <4>1, <2>3
      <4>3. CASE k = m + 1
        BY <3>2, <4>2, <4>3, <2>3
      <4>4. CASE k # m + 1
        <5>1. k \in 0..m
          BY <4>4
        <5>2. g[k] = f[k] /\ f[k] = Step(k, f[k - 1])
          BY <5>1, <4>4, <3>2, <2>2, <2>3
        <5>. QED BY <5>2, <4>2, <3>2
      <4>. QED BY <4>3, <4>4
    <3>. QED BY <3>1, <3>2
  <2>6. g = [k \in 0..(m + 1) |-> IF k = 0 THEN base ELSE Step(k, g[k - 1])]
    BY <2>4, <2>5
  <2>. QED BY <2>6
<1>5. N \in S
  <2>. HIDE DEF S
  <2>. QED BY <1>2, <1>4, Induction
<1>6. \E f : Is(f)
  BY <1>5
<1>7. Is(loop)
  BY <1>6
<1>. HIDE DEF loop
<1>8. \A k \in 0..N : loop[k] = IF k = 0 THEN base ELSE Step(k, loop[k - 1])
  BY <1>7
<1>9. loop[0] = base /\ \A k \in 1..N : loop[k] = Step(k, loop[k - 1])
  BY <1>8
<1>10. \A k \in 1..N : loop[k] = MdnsStep(buf, qd, k, loop[k - 1])
  BY <1>3, <1>9
<1>11. loop[0] = Loop(o + 1, <<>>, <<>>)
  BY <1>9 DEF base, Loop
<1>. QED BY <1>1, <1>10, <1>11

IsLoop(loop, buf, o, qd, an) ==
  /\ loop[0] = Loop(o + 1, <<>>, <<>>)
  /\ \A k \in 1..(qd + an) : loop[k] = MdnsStep(buf, qd, k, loop[k - 1])
  /\ decodeMdns(buf, o) = loop[qd + an]

\* The loops of decodeMdns, each iteration after the one before.
LEMMA MdnsLoop ==
  ASSUME NEW buf, NEW o, Holds(buf, o, "dns"), NEW qd \in Nat, NEW an \in Nat,
         buf[o].questions = qd, buf[o].answers = an
  PROVE  \E loop : IsLoop(loop, buf, o, qd, an)
BY MdnsWalk DEF IsLoop

\* What the first k answers have left behind: the first address record and the
\* first owner.
Found(answers, k, found, names) ==
  /\ IsSeq(found) /\ IsSeq(names)
  /\ (\A i \in 1..k : answers[i].type # "A") => found = <<>>
  /\ \A i \in 1..k :
       answers[i].type = "A" /\ (\A j \in 1..(i - 1) : answers[j].type # "A") =>
         found # <<>> /\ found[1] = [name |-> answers[i].owner, ip |-> answers[i].ip]
  /\ (\A i \in 1..k : answers[i].type = "TXT") => names = <<>>
  /\ \A i \in 1..k :
       answers[i].type # "TXT" /\ (\A j \in 1..(i - 1) : answers[j].type = "TXT") =>
         names # <<>> /\ names[1] = answers[i].owner

LEMMA FoundNone == ASSUME NEW answers PROVE Found(answers, 0, <<>>, <<>>)
BY SeqEmpty DEF Found

LEMMA NotEmpty ==
  ASSUME NEW s, IsSeq(s), Len(s) # 0 PROVE s # <<>>
BY SeqEmpty

LEMMA EmptyLen ==
  ASSUME NEW s, IsSeq(s), s # <<>> PROVE Len(s) \in Nat \ {0}
BY SeqIsFunction, SeqEmpty, SeqsEqual

\* A record adds its addresses and names to those found.
LEMMA FoundStep ==
  ASSUME NEW answers, NEW k \in Nat, NEW found, NEW names, Found(answers, k, found, names),
         WellFormedAnswer(answers[k + 1])
  PROVE  Found(answers, k + 1, AddressesOf(answers[k + 1], found),
               names \o NamesOf(answers[k + 1]))
<1>. DEFINE a == answers[k + 1]
            found2 == AddressesOf(a, found)
            names2 == names \o NamesOf(a)
<1>0. IsSeq(found) /\ IsSeq(names)
  BY DEF Found
<1>1. \A i \in 1..(k + 1) : i \in 1..k \/ i = k + 1
  OBVIOUS
<1>2. (k + 1) - 1 = k /\ 1..k \subseteq 1..(k + 1) /\ k + 1 \in 1..(k + 1)
  OBVIOUS
<1>3. /\ IsSeq(found2)
      /\ a.type # "A" => found2 = found
      /\ found # <<>> => found2 # <<>> /\ found2[1] = found[1]
      /\ a.type = "A" /\ found = <<>> =>
           found2 # <<>> /\ found2[1] = [name |-> a.owner, ip |-> a.ip]
  <2>1. CASE a.type # "A"
    BY <2>1, <1>0 DEF AddressesOf
  <2>2. CASE a.type = "A"
    <3>. DEFINE e == [name |-> a.owner, ip |-> a.ip]
    <3>1. found2 = Append(found, e)
      BY <2>2 DEF AddressesOf
    <3>. HIDE DEF e, found2
    <3>2. /\ IsSeq(found2) /\ Len(found2) = Len(found) + 1
          /\ \A i \in 1..Len(found) : found2[i] = found[i]
          /\ found2[Len(found) + 1] = e
      BY <1>0, <3>1, SeqAppend
    <3>3. Len(found) \in Nat
      BY <1>0, SeqIsFunction
    <3>4. found2 # <<>>
      BY <3>2, <3>3, NotEmpty
    <3>5. ASSUME found # <<>> PROVE found2[1] = found[1]
      <4>1. 1 \in 1..Len(found)
        BY <1>0, <3>5, EmptyLen
      <4>. QED BY <3>2, <4>1
    <3>6. ASSUME found = <<>> PROVE found2[1] = e
      <4>1. Len(found) = 0
        BY <3>6, SeqEmpty
      <4>. QED BY <3>2, <4>1
    <3>. QED BY <2>2, <3>2, <3>4, <3>5, <3>6 DEF e
  <2>. QED BY <2>1, <2>2
<1>4. /\ IsSeq(names2)
      /\ a.type = "TXT" => names2 = names
      /\ names # <<>> => names2 # <<>> /\ names2[1] = names[1]
      /\ a.type # "TXT" /\ names = <<>> => names2 # <<>> /\ names2[1] = a.owner
  <2>1. CASE a.type = "TXT"
    <3>1. NamesOf(a) = <<>>
      BY <2>1 DEF NamesOf
    <3>2. names2 = names
      BY <1>0, <3>1, ConcatEmpty
    <3>. QED BY <1>0, <2>1, <3>2
  <2>2. CASE a.type # "TXT"
    <3>1. IsSeq(NamesOf(a)) /\ Len(NamesOf(a)) \in Nat \ {0} /\ NamesOf(a)[1] = a.owner
      <4>1. CASE a.type = "SRV"
        <5>1. NamesOf(a) = <<a.owner, a.target>>
          BY <4>1, ConcatOnes DEF NamesOf
        <5>. QED BY <5>1, SeqTwo
      <4>2. CASE a.type # "SRV"
        <5>1. NamesOf(a) = <<a.owner>>
          BY <4>2, <2>2 DEF NamesOf
        <5>. QED BY <5>1, SeqOne
      <4>. QED BY <4>1, <4>2
    <3>. DEFINE t == NamesOf(a)
    <3>. HIDE DEF t, a
    <3>2. /\ IsSeq(names \o t) /\ Len(names \o t) = Len(names) + Len(t)
          /\ \A i \in 1..Len(names) : (names \o t)[i] = names[i]
          /\ \A i \in 1..Len(t) : (names \o t)[Len(names) + i] = t[i]
      BY <1>0, <3>1, SeqConcat DEF t
    <3>3. Len(names) \in Nat /\ Len(t) \in Nat \ {0} /\ 1 \in 1..Len(t)
      BY <1>0, <3>1, SeqIsFunction DEF t
    <3>4. names \o t # <<>>
      <4>1. Len(names \o t) # 0
        BY <3>2, <3>3
      <4>. QED BY <3>2, <4>1, NotEmpty
    <3>5. ASSUME names # <<>> PROVE (names \o t)[1] = names[1]
      <4>1. 1 \in 1..Len(names)
        BY <1>0, <3>5, EmptyLen
      <4>. QED BY <3>2, <4>1
    <3>6. ASSUME names = <<>> PROVE (names \o t)[1] = a.owner
      <4>1. Len(names) = 0
        BY <3>6, SeqEmpty
      <4>2. (names \o t)[0 + 1] = t[1]
        BY <3>2, <3>3, <4>1
      <4>. QED BY <3>1, <4>2 DEF t
    <3>. QED BY <2>2, <3>2, <3>4, <3>5, <3>6 DEF t
  <2>. QED BY <2>1, <2>2
<1>. HIDE DEF found2, names2
<1>5. ASSUME \A i \in 1..(k + 1) : answers[i].type # "A" PROVE found2 = <<>>
  <2>1. found = <<>>
    BY <1>2, <1>5 DEF Found
  <2>. QED BY <2>1, <1>2, <1>3, <1>5
<1>6. ASSUME NEW i \in 1..(k + 1), answers[i].type = "A",
             \A j \in 1..(i - 1) : answers[j].type # "A"
      PROVE  found2 # <<>> /\ found2[1] = [name |-> answers[i].owner, ip |-> answers[i].ip]
  <2>1. CASE i \in 1..k
    <3>1. found # <<>> /\ found[1] = [name |-> answers[i].owner, ip |-> answers[i].ip]
      BY <1>6, <2>1 DEF Found
    <3>. QED BY <3>1, <1>3
  <2>2. CASE i = k + 1
    <3>1. found = <<>>
      BY <1>2, <1>6, <2>2 DEF Found
    <3>. QED BY <3>1, <1>3, <1>6, <2>2
  <2>. QED BY <1>1, <2>1, <2>2
<1>7. ASSUME \A i \in 1..(k + 1) : answers[i].type = "TXT" PROVE names2 = <<>>
  <2>1. names = <<>>
    BY <1>2, <1>7 DEF Found
  <2>. QED BY <2>1, <1>2, <1>4, <1>7
<1>8. ASSUME NEW i \in 1..(k + 1), answers[i].type # "TXT",
             \A j \in 1..(i - 1) : answers[j].type = "TXT"
      PROVE  names2 # <<>> /\ names2[1] = answers[i].owner
  <2>1. CASE i \in 1..k
    <3>1. names # <<>> /\ names[1] = answers[i].owner
      BY <1>8, <2>1 DEF Found
    <3>. QED BY <3>1, <1>4
  <2>2. CASE i = k + 1
    <3>1. names = <<>>
      BY <1>2, <1>8, <2>2 DEF Found
    <3>. QED BY <3>1, <1>4, <1>8, <2>2
  <2>. QED BY <1>1, <2>1, <2>2
<1>. QED BY <1>3, <1>4, <1>5, <1>6, <1>7, <1>8 DEF Found, found2, names2

WellFormedMessage(m) ==
  /\ IsSeq(m.questions) /\ \A i \in 1..Len(m.questions) : IsSeq(m.questions[i])
  /\ IsSeq(m.answers) /\ \A i \in 1..Len(m.answers) : WellFormedAnswer(m.answers[i])

MdnsHeader(m) == [k |-> "dns", questions |-> Len(m.questions), answers |-> Len(m.answers)]
QuestionsOf(m) == [i \in 1..Len(m.questions) |-> QuestionCells(m.questions[i])]
AnswersOf(m) == [i \in 1..Len(m.answers) |-> AnswerCells(m.answers[i])]

\* A message without compression.
LEMMA EncodedMdns ==
  ASSUME NEW m, m.packed = FALSE
  PROVE  EncodeMdns(m) =
           (<< MdnsHeader(m) >> \o FlattenSeq(QuestionsOf(m))) \o FlattenSeq(AnswersOf(m))
<1>1. ASSUME NEW name, NEW first, NEW b PROVE EncodeName(name, first, m.packed /\ b) = PlainName(name)
  BY DEF EncodeName, PlainName
<1>2. ASSUME NEW name, NEW first PROVE EncodeName(name, first, m.packed) = PlainName(name)
  BY DEF EncodeName, PlainName
<1>3. ASSUME NEW a, NEW first
      PROVE  EncodeAnswer(a, first, m.packed) = << RecordHeader(a) >> \o DataOf(a)
  BY <1>2 DEF EncodeAnswer, RecordHeader, DataOf
<1>. DEFINE first == IF m.questions # <<>> THEN m.questions[1] ELSE m.answers[1].owner
            qs == [i \in 1..Len(m.questions) |->
                     Append(EncodeName(m.questions[i], first, m.packed /\ ~(i = 1)),
                            [k |-> "question"])]
            as == [i \in 1..Len(m.answers) |->
                     EncodeName(m.answers[i].owner, first,
                                m.packed /\ ~(i = 1 /\ m.questions = <<>>))
                     \o EncodeAnswer(m.answers[i], first, m.packed)]
<1>4. qs = QuestionsOf(m)
  <2>. HIDE DEF first
  <2>1. \A i \in 1..Len(m.questions) :
          EncodeName(m.questions[i], first, m.packed /\ ~(i = 1)) = PlainName(m.questions[i])
    BY <1>1
  <2>. QED BY <2>1 DEF QuestionsOf, QuestionCells
<1>5. as = AnswersOf(m)
  <2>. HIDE DEF first
  <2>1. \A i \in 1..Len(m.answers) :
          EncodeName(m.answers[i].owner, first, m.packed /\ ~(i = 1 /\ m.questions = <<>>)) =
            PlainName(m.answers[i].owner)
    BY <1>1
  <2>2. \A i \in 1..Len(m.answers) :
          EncodeAnswer(m.answers[i], first, m.packed) =
            << RecordHeader(m.answers[i]) >> \o DataOf(m.answers[i])
    BY <1>3
  <2>. QED BY <2>1, <2>2 DEF AnswersOf, AnswerCells
<1>6. EncodeMdns(m) = (<< MdnsHeader(m) >> \o FlattenSeq(qs)) \o FlattenSeq(as)
  BY DEF EncodeMdns, MdnsHeader
<1>. HIDE DEF qs, as
<1>. QED BY <1>4, <1>5, <1>6

LEMMA MessageSeqs ==
  ASSUME NEW m, WellFormedMessage(m)
  PROVE  /\ Len(m.questions) \in Nat /\ Len(m.answers) \in Nat
         /\ IsSeq(QuestionsOf(m)) /\ Len(QuestionsOf(m)) = Len(m.questions)
         /\ \A i \in 1..Len(m.questions) : QuestionsOf(m)[i] = QuestionCells(m.questions[i])
                                           /\ IsSeq(QuestionsOf(m)[i])
         /\ IsSeq(AnswersOf(m)) /\ Len(AnswersOf(m)) = Len(m.answers)
         /\ \A i \in 1..Len(m.answers) : AnswersOf(m)[i] = AnswerCells(m.answers[i])
                                         /\ IsSeq(AnswersOf(m)[i])
<1>1. Len(m.questions) \in Nat /\ Len(m.answers) \in Nat
  BY SeqIsFunction DEF WellFormedMessage
<1>2. \A i \in 1..Len(m.questions) : QuestionsOf(m)[i] = QuestionCells(m.questions[i])
  BY DEF QuestionsOf
<1>3. \A i \in 1..Len(m.answers) : AnswersOf(m)[i] = AnswerCells(m.answers[i])
  BY DEF AnswersOf
<1>4. \A i \in 1..Len(m.questions) : IsSeq(QuestionsOf(m)[i])
  BY <1>2, QuestionStands DEF WellFormedMessage
<1>5. \A i \in 1..Len(m.answers) : IsSeq(AnswersOf(m)[i])
  BY <1>3, AnswerSeq DEF WellFormedMessage
<1>6. QuestionsOf(m) = [i \in 1..Len(m.questions) |-> QuestionsOf(m)[i]]
  BY DEF QuestionsOf
<1>7. AnswersOf(m) = [i \in 1..Len(m.answers) |-> AnswersOf(m)[i]]
  BY DEF AnswersOf
<1>8. IsSeq(QuestionsOf(m)) /\ Len(QuestionsOf(m)) = Len(m.questions)
  BY <1>1, <1>6, SeqOfFunction
<1>9. IsSeq(AnswersOf(m)) /\ Len(AnswersOf(m)) = Len(m.answers)
  BY <1>1, <1>7, SeqOfFunction
<1>. QED BY <1>1, <1>2, <1>3, <1>4, <1>5, <1>8, <1>9

LEMMA MdnsSeq ==
  ASSUME NEW m, m.packed = FALSE, WellFormedMessage(m)
  PROVE  IsSeq(EncodeMdns(m)) /\ Len(EncodeMdns(m)) \in Nat \ {0}
<1>1. /\ IsSeq(<< MdnsHeader(m) >>) /\ Len(<< MdnsHeader(m) >>) = 1
  BY SeqOne
<1>2. IsSeq(FlattenSeq(QuestionsOf(m))) /\ IsSeq(FlattenSeq(AnswersOf(m)))
  BY MessageSeqs, FlattenStands, SeqEmpty
<1>3. /\ IsSeq(<< MdnsHeader(m) >> \o FlattenSeq(QuestionsOf(m)))
      /\ Len(<< MdnsHeader(m) >> \o FlattenSeq(QuestionsOf(m))) = 1 + Len(FlattenSeq(QuestionsOf(m)))
  BY <1>1, <1>2, SeqConcat
<1>4. /\ IsSeq(EncodeMdns(m))
      /\ Len(EncodeMdns(m)) = (1 + Len(FlattenSeq(QuestionsOf(m)))) + Len(FlattenSeq(AnswersOf(m)))
  BY <1>2, <1>3, SeqConcat, EncodedMdns
<1>5. Len(FlattenSeq(QuestionsOf(m))) \in Nat /\ Len(FlattenSeq(AnswersOf(m))) \in Nat
  BY <1>2, SeqIsFunction
<1>6. \A x, y \in Nat : (1 + x) + y \in Nat \ {0}
  OBVIOUS
<1>. QED BY <1>4, <1>5, <1>6

\* Where the questions and answers of a message stand.
LEMMA MdnsStands ==
  ASSUME NEW m, m.packed = FALSE, WellFormedMessage(m), NEW o \in Nat, NEW cells, IsSeq(cells),
         Stands(EncodeMdns(m), o, cells)
  PROVE  /\ o <= Len(cells) /\ cells[o] = MdnsHeader(m)
         /\ \E p, r : /\ Positions(p, QuestionsOf(m), o + 1, cells)
                      /\ Positions(r, AnswersOf(m), p[Len(m.questions) + 1], cells)
                      /\ r[Len(m.answers) + 1] = o + Len(EncodeMdns(m))
<1>. DEFINE header == << MdnsHeader(m) >>
            qs == FlattenSeq(QuestionsOf(m))
            as == FlattenSeq(AnswersOf(m))
<1>1. IsSeq(header) /\ Len(header) = 1 /\ header[1] = MdnsHeader(m)
  BY SeqOne
<1>2. IsSeq(qs) /\ IsSeq(as)
  BY MessageSeqs, FlattenStands, SeqEmpty
<1>3. EncodeMdns(m) = (header \o qs) \o as
  BY EncodedMdns
<1>. HIDE DEF header, qs, as
<1>4. IsSeq(header \o qs) /\ Len(header \o qs) = 1 + Len(qs)
  <2>1. IsSeq(header \o qs) /\ Len(header \o qs) = Len(header) + Len(qs)
    BY <1>1, <1>2, SeqConcat
  <2>. QED BY <1>1, <2>1
<1>5. Len(EncodeMdns(m)) = (1 + Len(qs)) + Len(as)
  BY <1>2, <1>3, <1>4, SeqConcat
<1>6. Len(qs) \in Nat /\ Len(as) \in Nat /\ Len(cells) \in Nat
  BY <1>2, SeqIsFunction
<1>7. Stands(header \o qs, o, cells) /\ Stands(as, o + (1 + Len(qs)), cells)
  BY <1>2, <1>3, <1>4, ConcatStands
<1>8. Stands(header, o, cells) /\ Stands(qs, o + 1, cells)
  BY <1>1, <1>2, <1>7, ConcatStands
<1>9. o <= Len(cells) /\ cells[o] = MdnsHeader(m)
  <2>1. o + 1 <= Len(cells) + 1 /\ cells[o - 1 + 1] = header[1]
    BY <1>1, <1>8 DEF Stands
  <2>. QED BY <1>1, <1>6, <2>1
<1>10. PICK p : /\ Positions(p, QuestionsOf(m), o + 1, cells)
                /\ p[Len(m.questions) + 1] = (o + 1) + Len(qs)
  <2>1. o + 1 \in Nat
    OBVIOUS
  <2>2. \E pos : /\ Positions(pos, QuestionsOf(m), o + 1, cells)
                 /\ pos[Len(QuestionsOf(m)) + 1] = (o + 1) + Len(FlattenSeq(QuestionsOf(m)))
    BY <1>8, <2>1, MessageSeqs, FlattenStands DEF qs
  <2>. QED BY <2>2, MessageSeqs DEF qs
<1>11. (o + 1) + Len(qs) = o + (1 + Len(qs)) /\ o + (1 + Len(qs)) \in Nat
  BY <1>6
<1>12. PICK r : /\ Positions(r, AnswersOf(m), o + (1 + Len(qs)), cells)
                /\ r[Len(m.answers) + 1] = (o + (1 + Len(qs))) + Len(as)
  <2>2. \E pos : /\ Positions(pos, AnswersOf(m), o + (1 + Len(qs)), cells)
                 /\ pos[Len(AnswersOf(m)) + 1] = (o + (1 + Len(qs))) + Len(FlattenSeq(AnswersOf(m)))
    BY <1>7, <1>11, MessageSeqs, FlattenStands DEF as
  <2>. QED BY <2>2, MessageSeqs DEF as
<1>13. r[Len(m.answers) + 1] = o + Len(EncodeMdns(m))
  <2>1. \A x, y \in Nat : (o + (1 + x)) + y = o + ((1 + x) + y)
    OBVIOUS
  <2>2. (o + (1 + Len(qs))) + Len(as) = o + ((1 + Len(qs)) + Len(as))
    BY <1>6, <2>1
  <2>. QED BY <1>5, <1>12, <2>2
<1>. QED BY <1>9, <1>10, <1>11, <1>12, <1>13

\* What the decoder makes of a message of which n cells of the frame are there:
\* nothing, or what the answers say that are there whole.
MdnsRead(d, m, complete) ==
  \/ d.st = "undefined" /\ ~complete
  \/ /\ d.st \in {"more", "done"}
     /\ \E k \in 0..Len(m.answers) :
          Found(m.answers, k, d.a, d.names) /\ (complete => k = Len(m.answers))

\* decodeMdns finds what the first k records say: all of them if all cells came.
LEMMA MdnsShown ==
  ASSUME NEW buf, NEW cells, NEW n, IsSeq(cells), Shows(buf, cells, n),
         NEW m, m.packed = FALSE, WellFormedMessage(m), NEW o \in Nat \ {0},
         Stands(EncodeMdns(m), o, cells)
  PROVE  MdnsRead(decodeMdns(buf, o), m, n + 1 >= o + Len(EncodeMdns(m)))
<1>. DEFINE Q == Len(m.questions)
            A == Len(m.answers)
            qs == QuestionsOf(m)
            as == AnswersOf(m)
<1>1. o <= Len(cells) /\ cells[o] = MdnsHeader(m)
  BY MdnsStands
<1>2. PICK p, r : /\ Positions(p, qs, o + 1, cells)
                  /\ Positions(r, as, p[Q + 1], cells)
                  /\ r[A + 1] = o + Len(EncodeMdns(m))
  BY MdnsStands
<1>3. /\ Q \in Nat /\ A \in Nat /\ IsSeq(qs) /\ Len(qs) = Q /\ IsSeq(as) /\ Len(as) = A
      /\ \A i \in 1..Q : qs[i] = QuestionCells(m.questions[i]) /\ IsSeq(qs[i])
      /\ \A i \in 1..A : as[i] = AnswerCells(m.answers[i]) /\ IsSeq(as[i])
  BY MessageSeqs
<1>4. n \in Nat /\ Len(cells) \in Nat
  BY SeqIsFunction DEF Shows
<1>5. /\ p \in [1..(Q + 1) -> Nat] /\ p[1] = o + 1
      /\ \A i \in 1..Q : p[i + 1] = p[i] + Len(qs[i]) /\ Stands(qs[i], p[i], cells)
  BY <1>2, <1>3 DEF Positions
<1>6. /\ r \in [1..(A + 1) -> Nat] /\ r[1] = p[Q + 1]
      /\ \A i \in 1..A : r[i + 1] = r[i] + Len(as[i]) /\ Stands(as[i], r[i], cells)
  BY <1>2, <1>3 DEF Positions
<1>7. \A i \in 1..(Q + 1) : p[i] \in Nat /\ p[i] >= o + 1
  <2>1. ASSUME NEW i \in 1..(Q + 1) PROVE p[1] <= p[i]
    <3>1. 1 \in 1..(Len(qs) + 1) /\ i \in 1..(Len(qs) + 1) /\ 1 <= i /\ o + 1 \in Nat
      BY <1>3
    <3>. HIDE DEF Q, A, qs, as
    <3>. QED BY <3>1, <1>2, <1>3, PositionsGrow
  <2>. QED BY <1>5, <2>1
<1>8. \A i \in 1..(A + 1) : r[i] \in Nat /\ r[i] >= o + 1
  <2>0. p[Q + 1] \in Nat /\ p[Q + 1] >= o + 1
    BY <1>3, <1>7
  <2>1. ASSUME NEW i \in 1..(A + 1) PROVE r[1] <= r[i]
    <3>1. 1 \in 1..(Len(as) + 1) /\ i \in 1..(Len(as) + 1) /\ 1 <= i
      BY <1>3
    <3>. HIDE DEF Q, A, qs, as
    <3>. QED BY <2>0, <3>1, <1>2, <1>3, PositionsGrow
  <2>2. \A i \in 1..(A + 1) : r[i] \in Nat
    BY <1>6
  <2>. QED BY <1>6, <2>0, <2>1, <2>2
<1>. DEFINE e == o + Len(EncodeMdns(m))
<1>9. e \in Nat /\ r[A + 1] = e /\ \A i \in 1..(A + 1) : r[i] <= e
  <2>1. A + 1 \in 1..(A + 1)
    BY <1>3
  <2>2. ASSUME NEW i \in 1..(A + 1) PROVE r[i] <= r[A + 1]
    <3>0. p[Q + 1] \in Nat
      BY <1>3, <1>7
    <3>1. A + 1 \in 1..(Len(as) + 1) /\ i \in 1..(Len(as) + 1) /\ i <= A + 1
      BY <1>3
    <3>. HIDE DEF Q, A, qs, as
    <3>. QED BY <3>0, <3>1, <1>2, <1>3, PositionsGrow
  <2>. QED BY <2>1, <2>2, <1>2, <1>8
<1>. HIDE DEF e, Q, A, qs, as
<1>10. CASE o > n
  <2>1. ~Holds(buf, o, "dns")
    BY <1>4, <1>10, HoldsShown
  <2>2. decodeMdns(buf, o).st = "undefined"
    BY <2>1 DEF decodeMdns
  <2>3. ~(n + 1 >= e)
    <3>1. A + 1 \in 1..(A + 1)
      BY <1>3
    <3>2. e >= o + 1
      BY <3>1, <1>8, <1>9
    <3>. QED BY <3>2, <1>4, <1>9, <1>10
  <2>. QED BY <2>2, <2>3 DEF MdnsRead, e
<1>11. CASE o <= n
  <2>1. Holds(buf, o, "dns") /\ buf[o] = MdnsHeader(m)
    <3>1. o \in 1..n
      BY <1>4, <1>11
    <3>2. cells[o].k = "dns"
      BY <1>1 DEF MdnsHeader
    <3>3. Holds(buf, o, "dns")
      BY <3>2, <1>11, HoldsShown
    <3>. QED BY <3>1, <3>3, <1>1 DEF Shows
  <2>2. buf[o].questions = Q /\ buf[o].answers = A
    BY <2>1 DEF MdnsHeader, Q, A
  <2>3. PICK loop :
           /\ loop[0] = Loop(o + 1, <<>>, <<>>)
           /\ \A k \in 1..(Q + A) : loop[k] = MdnsStep(buf, Q, k, loop[k - 1])
           /\ decodeMdns(buf, o) = loop[Q + A]
    <3>1. Q \in Nat /\ A \in Nat
      BY <1>3
    <3>2. \E loop : IsLoop(loop, buf, o, Q, A)
      BY <2>1, <2>2, <3>1, MdnsLoop
    <3>. QED BY <3>2 DEF IsLoop
  <2>4. \A c, found, names : Loop(c, found, names).st = "more"
    BY DEF Loop
  <2>. DEFINE Passed(k) == loop[k] = Loop(p[k + 1], <<>>, <<>>) /\ p[k + 1] <= n + 1
              GivenUp(k) == loop[k].st = "undefined" /\ p[k + 1] > n + 1
              I == {k \in Nat : k <= Q => Passed(k) \/ GivenUp(k)}
  <2>5. 0 \in I
    <3>1. p[1] <= n + 1
      BY <1>4, <1>5, <1>11
    <3>. QED BY <1>5, <2>3, <3>1
  <2>6. ASSUME NEW k \in Nat, k + 1 <= Q, Passed(k) \/ GivenUp(k)
        PROVE  Passed(k + 1) \/ GivenUp(k + 1)
    <3>. DEFINE q == m.questions[k + 1]
    <3>1. /\ k + 1 \in 1..Q /\ k + 1 \in 1..(Q + A) /\ (k + 1) - 1 = k
          /\ (k + 1) + 1 \in 1..(Q + 1) /\ k + 1 \in 1..(Q + 1) /\ k + 1 <= Q
      BY <1>3, <2>6
    <3>2. IsSeq(q) /\ IsSeq(qs[k + 1]) /\ Len(qs[k + 1]) = Len(q) + 2 /\ Len(q) \in Nat
      <4>1. IsSeq(q)
        BY <3>1 DEF WellFormedMessage, Q
      <4>. QED BY <3>1, <4>1, <1>3, QuestionStands, SeqIsFunction
    <3>3. p[(k + 1) + 1] = p[k + 1] + (Len(q) + 2)
      BY <3>1, <3>2, <1>5
    <3>4. p[k + 1] \in Nat /\ p[k + 1] >= 1
      BY <3>1, <1>7
    <3>5. QuestionAt(q, p[k + 1], cells)
      <4>1. Stands(QuestionCells(q), p[k + 1], cells)
        BY <3>1, <1>3, <1>5
      <4>. QED BY <3>2, <3>4, <4>1, QuestionStands
    <3>. HIDE DEF q
    <3>6. CASE Passed(k)
      <4>1. p[k + 1] \in 1..(n + 1)
        BY <1>4, <3>4, <3>6
      <4>2. loop[k + 1] = QuestionStep(buf, Loop(p[k + 1], <<>>, <<>>))
        <5>1. loop[k + 1] = MdnsStep(buf, Q, k + 1, loop[k])
          BY <3>1, <2>3
        <5>. QED BY <5>1, <3>1, <3>6, <2>4 DEF MdnsStep
      <4>. DEFINE c == p[k + 1]
      <4>3. /\ c + Len(q) + 1 <= n => loop[k + 1] = Loop(c + Len(q) + 2, <<>>, <<>>)
            /\ c + Len(q) + 1 > n => loop[k + 1].st = "undefined"
        BY <3>2, <3>5, <4>1, <4>2, QuestionRead
      <4>4. p[(k + 1) + 1] = c + Len(q) + 2
        BY <3>2, <3>3, <3>4
      <4>. HIDE DEF c
      <4>5. c \in Nat /\ Len(q) \in Nat
        BY <3>2, <3>4 DEF c
      <4>6. CASE c + Len(q) + 1 <= n
        <5>1. Passed(k + 1)
          BY <4>3, <4>4, <4>5, <4>6, <1>4
        <5>. QED BY <5>1
      <4>7. CASE c + Len(q) + 1 > n
        <5>1. GivenUp(k + 1)
          BY <4>3, <4>4, <4>5, <4>7, <1>4
        <5>. QED BY <5>1
      <4>. QED BY <4>5, <4>6, <4>7, <1>4
    <3>7. CASE GivenUp(k)
      <4>1. loop[k + 1] = loop[k]
        BY <3>1, <3>7, <2>3 DEF MdnsStep
      <4>2. p[(k + 1) + 1] > n + 1
        BY <3>2, <3>3, <3>4, <3>7, <1>4
      <4>3. GivenUp(k + 1)
        BY <4>1, <4>2, <3>7
      <4>. QED BY <4>3
    <3>. QED BY <3>6, <3>7, <2>6
  <2>7. ASSUME NEW k \in Nat, k \in I PROVE k + 1 \in I
    <3>. HIDE DEF Passed, GivenUp
    <3>. SUFFICES ASSUME k + 1 <= Q PROVE Passed(k + 1) \/ GivenUp(k + 1)
      OBVIOUS
    <3>1. Passed(k) \/ GivenUp(k)
      BY <1>3, <2>7
    <3>. QED BY <3>1, <2>6
  <2>8. Passed(Q) \/ GivenUp(Q)
    <3>1. Nat \subseteq I
      <4>. HIDE DEF I
      <4>. QED BY <2>5, <2>7, Induction
    <3>2. Q \in I /\ Q <= Q
      <4>. HIDE DEF I
      <4>. QED BY <3>1, <1>3
    <3>. HIDE DEF Passed, GivenUp
    <3>. QED BY <3>2
  <2>. HIDE DEF I
  <2>. DEFINE Taken(k) == \E found, names : /\ loop[Q + k] = Loop(r[k + 1], found, names)
                                            /\ r[k + 1] <= n + 1
                                            /\ Found(m.answers, k, found, names)
              Ended(k) == /\ r[k + 1] > n + 1
                          /\ \/ loop[Q + k].st = "undefined"
                             \/ \E j, c, found, names :
                                  /\ j \in 0..k
                                  /\ loop[Q + k] = [st |-> "done", cursor |-> c, a |-> found,
                                                    names |-> names]
                                  /\ Found(m.answers, j, found, names)
              J == {k \in Nat : k <= A => Taken(k) \/ Ended(k)}
  <2>9. Taken(0) \/ Ended(0)
    <3>1. Q + 0 = Q /\ r[0 + 1] = p[Q + 1]
      BY <1>3, <1>6
    <3>2. CASE Passed(Q)
      <4>1. Taken(0)
        BY <3>1, <3>2, FoundNone
      <4>. QED BY <4>1
    <3>3. CASE GivenUp(Q)
      <4>1. Ended(0)
        BY <3>1, <3>3
      <4>. QED BY <4>1
    <3>. QED BY <3>2, <3>3, <2>8
  <2>. HIDE DEF Passed, GivenUp
  <2>10. ASSUME NEW k \in Nat, k + 1 <= A, Taken(k) \/ Ended(k) PROVE Taken(k + 1) \/ Ended(k + 1)
    <3>. DEFINE a == m.answers[k + 1]
    <3>1. /\ k + 1 \in 1..A /\ Q + (k + 1) \in 1..(Q + A) /\ (Q + (k + 1)) - 1 = Q + k
          /\ (k + 1) + 1 \in 1..(A + 1) /\ k + 1 \in 1..(A + 1) /\ ~(Q + (k + 1) <= Q)
      BY <1>3, <2>10
    <3>2. WellFormedAnswer(a) /\ IsSeq(as[k + 1]) /\ as[k + 1] = AnswerCells(a)
          /\ Len(AnswerCells(a)) \in Nat
      <4>1. WellFormedAnswer(a)
        BY <3>1 DEF WellFormedMessage, A
      <4>. QED BY <3>1, <4>1, <1>3, SeqIsFunction
    <3>3. r[(k + 1) + 1] = r[k + 1] + Len(AnswerCells(a))
      BY <3>1, <3>2, <1>6
    <3>4. r[k + 1] \in Nat /\ r[k + 1] >= 1
      BY <3>1, <1>8
    <3>5. AnswerAt(a, r[k + 1], cells)
      <4>1. Stands(AnswerCells(a), r[k + 1], cells)
        BY <3>1, <3>2, <1>6
      <4>. QED BY <3>2, <3>4, <4>1, AnswerStands
    <3>6. loop[Q + (k + 1)] = MdnsStep(buf, Q, Q + (k + 1), loop[Q + k])
      BY <3>1, <2>3
    <3>7. CASE Taken(k)
      <4>1. PICK found, names : /\ loop[Q + k] = Loop(r[k + 1], found, names)
                                /\ r[k + 1] <= n + 1
                                /\ Found(m.answers, k, found, names)
        BY <3>7
      <4>2. r[k + 1] \in 1..(n + 1)
        BY <1>4, <3>4, <4>1
      <4>3. loop[Q + (k + 1)] = AnswerStep(buf, Loop(r[k + 1], found, names))
        BY <3>1, <3>6, <4>1, <2>4 DEF MdnsStep
      <4>. DEFINE c == r[k + 1]
                  l == Len(AnswerCells(a))
      <4>4. /\ c + l <= n + 1 => loop[Q + (k + 1)] =
                                   Loop(c + l, AddressesOf(a, found), names \o NamesOf(a))
            /\ c + l > n + 1 => loop[Q + (k + 1)] =
                                  [st |-> "done", cursor |-> c, a |-> found, names |-> names]
        <5>. HIDE DEF a
        <5>. QED BY <3>2, <3>5, <4>2, <4>3, AnswerRead
      <4>5. Found(m.answers, k + 1, AddressesOf(a, found), names \o NamesOf(a))
        BY <3>2, <4>1, FoundStep
      <4>6. r[(k + 1) + 1] = c + l /\ c \in Nat /\ l \in Nat
        BY <3>2, <3>3, <3>4
      <4>. HIDE DEF c, l, a
      <4>7. CASE c + l <= n + 1
        <5>1. Taken(k + 1)
          BY <4>4, <4>5, <4>6, <4>7
        <5>. QED BY <5>1
      <4>8. CASE c + l > n + 1
        <5>1. k \in 0..(k + 1)
          OBVIOUS
        <5>2. Ended(k + 1)
          BY <4>1, <4>4, <4>6, <4>8, <5>1
        <5>. QED BY <5>2
      <4>9. c + l <= n + 1 \/ c + l > n + 1
        BY <4>6, <1>4
      <4>. HIDE DEF Taken, Ended
      <4>. QED BY <4>7, <4>8, <4>9
    <3>8. CASE Ended(k)
      <4>1. loop[Q + k].st # "more"
        <5>1. CASE loop[Q + k].st = "undefined"
          BY <5>1
        <5>2. CASE loop[Q + k].st # "undefined"
          <6>1. PICK j, c, found, names :
                  loop[Q + k] = [st |-> "done", cursor |-> c, a |-> found, names |-> names]
            BY <3>8, <5>2
          <6>. QED BY <6>1
        <5>. QED BY <5>1, <5>2
      <4>2. loop[Q + (k + 1)] = loop[Q + k]
        BY <3>6, <4>1 DEF MdnsStep
      <4>3. r[(k + 1) + 1] > n + 1
        BY <3>2, <3>3, <3>4, <3>8, <1>4
      <4>4. 0..k \subseteq 0..(k + 1)
        OBVIOUS
      <4>5. Ended(k + 1)
        BY <3>8, <4>2, <4>3, <4>4
      <4>. QED BY <4>5
    <3>. QED BY <3>7, <3>8, <2>10
  <2>. HIDE DEF Taken, Ended
  <2>11. Taken(A) \/ Ended(A)
    <3>1. 0 \in J
      BY <2>9
    <3>2. ASSUME NEW k \in Nat, k \in J PROVE k + 1 \in J
      <4>. SUFFICES ASSUME k + 1 <= A PROVE Taken(k + 1) \/ Ended(k + 1)
        OBVIOUS
      <4>1. Taken(k) \/ Ended(k)
        BY <1>3, <3>2
      <4>. QED BY <4>1, <2>10
    <3>3. Nat \subseteq J
      <4>. HIDE DEF J
      <4>. QED BY <3>1, <3>2, Induction
    <3>4. A \in J /\ A <= A
      <4>. HIDE DEF J
      <4>. QED BY <3>3, <1>3
    <3>. QED BY <3>4
  <2>. DEFINE d == decodeMdns(buf, o)
  <2>12. d = loop[Q + A]
    BY <2>3
  <2>. HIDE DEF d
  <2>13. MdnsRead(d, m, n + 1 >= e)
    <3>1. CASE Taken(A)
      <4>1. PICK found, names : /\ loop[Q + A] = Loop(r[A + 1], found, names)
                                /\ Found(m.answers, A, found, names)
        BY <3>1 DEF Taken
      <4>2. d.st = "more" /\ d.a = found /\ d.names = names
        BY <2>12, <4>1 DEF Loop
      <4>3. A \in 0..Len(m.answers) /\ A = Len(m.answers)
        BY <1>3 DEF A
      <4>. QED BY <4>1, <4>2, <4>3 DEF MdnsRead
    <3>2. CASE Ended(A)
      <4>1. ~(n + 1 >= e)
        BY <3>2, <1>4, <1>9 DEF Ended
      <4>2. CASE d.st = "undefined"
        BY <4>1, <4>2 DEF MdnsRead
      <4>3. CASE d.st # "undefined"
        <5>1. PICK j, c, found, names :
                  /\ j \in 0..A
                  /\ loop[Q + A] = [st |-> "done", cursor |-> c, a |-> found, names |-> names]
                  /\ Found(m.answers, j, found, names)
          BY <3>2, <4>3, <2>12 DEF Ended
        <5>2. d.st = "done" /\ d.a = found /\ d.names = names
          BY <2>12, <5>1
        <5>3. j \in 0..Len(m.answers)
          BY <5>1 DEF A
        <5>. QED BY <4>1, <5>1, <5>2, <5>3 DEF MdnsRead
      <4>. QED BY <4>2, <4>3
    <3>. QED BY <3>1, <3>2, <2>11
  <2>. QED BY <2>13 DEF d, e
<1>. QED BY <1>4, <1>10, <1>11

-----------------------------------------------------------------------------
(* The loop over the options *)

Options(st, c, kept) == [st |-> st, cursor |-> c, kept |-> kept]
NoneKept == [code \in KeptOptions |-> None]

\* The function that ReadOptions takes its value from.
LEMMA OptionWalk ==
  ASSUME NEW buf, NEW c, Len(buf) \in Nat
  PROVE  \E read :
           /\ read[0] = Options("reading", c, NoneKept)
           /\ \A n \in 1..(Len(buf) + 1) :
                read[n] = IF read[n - 1].st = "reading" THEN OptionStep(buf, read[n - 1])
                          ELSE read[n - 1]
           /\ ReadOptions(buf, c) = read[Len(buf) + 1].kept
<1>. DEFINE N == Len(buf) + 1
            base == [st |-> "reading", cursor |-> c, kept |-> [code \in KeptOptions |-> None]]
            Step(w) == IF w.st = "reading" THEN OptionStep(buf, w) ELSE w
            Is(f) == f = [n \in 0..N |-> IF n = 0 THEN base ELSE Step(f[n - 1])]
            read == CHOOSE f : Is(f)
            S == {m \in Nat : \E f : f = [n \in 0..m |-> IF n = 0 THEN base ELSE Step(f[n - 1])]}
<1>1. ReadOptions(buf, c) = read[N].kept
  BY DEF ReadOptions
<1>2. 0 \in S
  <2>1. [n \in 0..0 |-> base] = [n \in 0..0 |-> IF n = 0 THEN base
                                               ELSE Step([i \in 0..0 |-> base][n - 1])]
    <3>. HIDE DEF base, Step
    <3>. QED OBVIOUS
  <2>. QED BY <2>1
<1>9. base = Options("reading", c, NoneKept)
  BY DEF Options, NoneKept
<1>. HIDE DEF Step, base
<1>3. ASSUME NEW m \in Nat, m \in S PROVE m + 1 \in S
  <2>1. PICK f : f = [n \in 0..m |-> IF n = 0 THEN base ELSE Step(f[n - 1])]
    BY <1>3
  <2>. DEFINE g == [n \in 0..(m + 1) |-> IF n = m + 1 THEN Step(f[m]) ELSE f[n]]
  <2>2. \A n \in 0..m : f[n] = IF n = 0 THEN base ELSE Step(f[n - 1])
    BY <2>1
  <2>3. \A n \in 0..(m + 1) : g[n] = IF n = m + 1 THEN Step(f[m]) ELSE f[n]
    OBVIOUS
  <2>4. g = [n \in 0..(m + 1) |-> g[n]]
    OBVIOUS
  <2>. HIDE DEF g
  <2>5. ASSUME NEW n \in 0..(m + 1) PROVE g[n] = IF n = 0 THEN base ELSE Step(g[n - 1])
    <3>1. CASE n = 0
      BY <3>1, <2>2, <2>3
    <3>2. CASE n # 0
      <4>1. n - 1 \in 0..m /\ n - 1 # m + 1
        BY <3>2
      <4>2. g[n - 1] = f[n - 1]
        BY <4>1, <2>3
      <4>3. CASE n = m + 1
        BY <3>2, <4>2, <4>3, <2>3
      <4>4. CASE n # m + 1
        <5>1. n \in 0..m
          BY <4>4
        <5>2. g[n] = f[n] /\ f[n] = Step(f[n - 1])
          BY <5>1, <4>4, <3>2, <2>2, <2>3
        <5>. QED BY <5>2, <4>2, <3>2
      <4>. QED BY <4>3, <4>4
    <3>. QED BY <3>1, <3>2
  <2>6. g = [n \in 0..(m + 1) |-> IF n = 0 THEN base ELSE Step(g[n - 1])]
    BY <2>4, <2>5
  <2>. QED BY <2>6
<1>4. N \in S
  <2>. HIDE DEF S
  <2>. QED BY <1>2, <1>3, Induction
<1>5. \E f : Is(f)
  BY <1>4
<1>6. Is(read)
  BY <1>5
<1>. HIDE DEF read
<1>7. \A n \in 0..N : read[n] = IF n = 0 THEN base ELSE Step(read[n - 1])
  BY <1>6
<1>8. read[0] = base /\ \A n \in 1..N : read[n] = Step(read[n - 1])
  BY <1>7
<1>. QED BY <1>1, <1>8, <1>9 DEF Step

LEMMA OptionSkipped ==
  ASSUME NEW buf, NEW c, NEW kept, Holds(buf, c, "pad")
  PROVE  OptionStep(buf, Options("reading", c, kept)) = Options("reading", c + 1, kept)
<1>1. ~Holds(buf, c, "opt") /\ ~Holds(buf, c, "partial")
  BY DEF Holds
<1>. QED BY <1>1 DEF OptionStep, Options

LEMMA OptionTaken ==
  ASSUME NEW buf, NEW c, NEW kept, Holds(buf, c, "opt"), buf[c].len = 1, Holds(buf, c + 1, "data")
  PROVE  OptionStep(buf, Options("reading", c, kept)) =
           Options("reading", c + 2, [kept EXCEPT ![buf[c].code] = buf[c + 1].data])
<1>. DEFINE w == Options("reading", c, kept)
            more == [kept EXCEPT ![buf[c].code] = buf[c + 1].data]
<1>1. ~Holds(buf, c, "pad") /\ ~Holds(buf, c, "partial")
  BY DEF Holds
<1>2. w.cursor = c
  BY DEF Options
<1>3. OptionStep(buf, w) = [w EXCEPT !.cursor = c + 2, !.kept[buf[c].code] = buf[c + 1].data]
  <2>. HIDE DEF w
  <2>. QED BY <1>1, <1>2 DEF OptionStep
<1>4. [w EXCEPT !.cursor = c + 2, !.kept[buf[c].code] = buf[c + 1].data]
        = [[w EXCEPT !.cursor = c + 2] EXCEPT !.kept[buf[c].code] = buf[c + 1].data]
  OBVIOUS
<1>5. [w EXCEPT !.cursor = c + 2] = Options("reading", c + 2, kept)
  BY DEF Options
<1>6. [Options("reading", c + 2, kept) EXCEPT !.kept[buf[c].code] = buf[c + 1].data]
        = Options("reading", c + 2, more)
  BY DEF Options
<1>. QED BY <1>3, <1>4, <1>5, <1>6

LEMMA OptionsOver ==
  ASSUME NEW buf, NEW c, NEW kept, ~Holds(buf, c, "pad"), ~Holds(buf, c, "partial"),
         Holds(buf, c, "opt") => buf[c].len = 1 /\ ~Holds(buf, c + 1, "data")
  PROVE  OptionStep(buf, Options("reading", c, kept)) = Options("done", c, kept)
<1>. DEFINE w == Options("reading", c, kept)
<1>1. w.cursor = c
  BY DEF Options
<1>2. OptionStep(buf, w) = [w EXCEPT !.st = "done"]
  <2>. HIDE DEF w
  <2>1. Holds(buf, c, "opt") => buf[c].len # 0
    OBVIOUS
  <2>. QED BY <1>1, <2>1 DEF OptionStep
<1>. QED BY <1>2 DEF Options

\* What is kept after an option of which only the code came.
Named(kept, name) == [kept EXCEPT !["hostname"] = name]
Unnamed(kept) == Named(kept, "")
Naming(w, name) == [w EXCEPT !.kept["hostname"] = name]

LEMMA OptionsDone ==
  ASSUME NEW c, NEW kept
  PROVE  [Options("reading", c, kept) EXCEPT !.st = "done"] = Options("done", c, kept)
BY DEF Options

LEMMA OptionsNamed ==
  ASSUME NEW c, NEW kept, NEW name
  PROVE  Naming(Options("done", c, kept), name) = Options("done", c, Named(kept, name))
BY DEF Options, Named, Naming

LEMMA OptionNamed ==
  ASSUME NEW buf, NEW w, Holds(buf, w.cursor, "partial")
  PROVE  OptionStep(buf, w) =
           Naming([w EXCEPT !.st = "done"],
                  IF buf[w.cursor].code = "hostname" THEN "" ELSE w.kept["hostname"])
<1>1. ~Holds(buf, w.cursor, "pad") /\ ~Holds(buf, w.cursor, "opt")
  BY DEF Holds
<1>2. OptionStep(buf, w) =
        [w EXCEPT !.st = "done",
                  !.kept["hostname"] = IF buf[w.cursor].code = "hostname" THEN "" ELSE @]
  BY <1>1 DEF OptionStep
<1>3. CASE buf[w.cursor].code = "hostname"
  <2>1. OptionStep(buf, w) = [w EXCEPT !.st = "done", !.kept["hostname"] = ""]
    BY <1>2, <1>3
  <2>2. OptionStep(buf, w) = [[w EXCEPT !.st = "done"] EXCEPT !.kept["hostname"] = ""]
    BY <2>1
  <2>. QED BY <1>3, <2>2 DEF Naming
<1>4. CASE buf[w.cursor].code # "hostname"
  <2>1. OptionStep(buf, w) = [w EXCEPT !.st = "done", !.kept["hostname"] = w.kept["hostname"]]
    BY <1>2, <1>4
  <2>2. OptionStep(buf, w) =
          [[w EXCEPT !.st = "done"] EXCEPT !.kept["hostname"] = w.kept["hostname"]]
    BY <2>1
  <2>. QED BY <1>4, <2>2 DEF Naming
<1>. QED BY <1>3, <1>4

LEMMA OptionCut ==
  ASSUME NEW buf, NEW c, NEW kept, kept = [code \in KeptOptions |-> kept[code]],
         Holds(buf, c, "partial")
  PROVE  \/ OptionStep(buf, Options("reading", c, kept)) = Options("done", c, kept)
         \/ OptionStep(buf, Options("reading", c, kept)) = Options("done", c, Unnamed(kept))
<1>. DEFINE w == Options("reading", c, kept)
            name == IF buf[c].code = "hostname" THEN "" ELSE kept["hostname"]
<1>1. w.cursor = c /\ w.kept = kept
  BY DEF Options
<1>2. [w EXCEPT !.st = "done"] = Options("done", c, kept)
  BY OptionsDone
<1>. HIDE DEF w
<1>3. OptionStep(buf, w) = Naming([w EXCEPT !.st = "done"], name)
  BY <1>1, OptionNamed
<1>. HIDE DEF name
<1>4. OptionStep(buf, w) = Options("done", c, Named(kept, name))
  BY <1>2, <1>3, OptionsNamed
<1>5. Named(kept, kept["hostname"]) = kept
  BY DEF Named
<1>6. name = "" \/ name = kept["hostname"]
  BY DEF name
<1>. QED BY <1>4, <1>5, <1>6 DEF Unnamed, w

\* An option stands at cell c.
OptionAt(opt, c, cells) ==
  IF opt.code \in {"pad", "end"} THEN c <= Len(cells) /\ cells[c].k = opt.code
  ELSE /\ c + 1 <= Len(cells)
       /\ cells[c].k = "opt" /\ cells[c].code = opt.code /\ cells[c].len = 1
       /\ cells[c + 1].k = "data" /\ cells[c + 1].data = opt.data

LEMMA OptionSeq ==
  ASSUME NEW opt
  PROVE  /\ IsSeq(EncodeOption(opt))
         /\ Len(EncodeOption(opt)) = IF opt.code \in {"pad", "end"} THEN 1 ELSE 2
<1>1. CASE opt.code \in {"pad", "end"}
  BY <1>1, SeqOne DEF EncodeOption
<1>2. CASE opt.code \notin {"pad", "end"}
  BY <1>2, SeqTwo DEF EncodeOption
<1>. QED BY <1>1, <1>2

LEMMA OptionStands ==
  ASSUME NEW opt, NEW c \in Nat, NEW cells, IsSeq(cells), Stands(EncodeOption(opt), c, cells)
  PROVE  OptionAt(opt, c, cells)
<1>0. Len(cells) \in Nat
  BY SeqIsFunction
<1>1. CASE opt.code \in {"pad", "end"}
  <2>. DEFINE cell == [k |-> opt.code]
  <2>1. EncodeOption(opt) = << cell >>
    BY <1>1 DEF EncodeOption
  <2>2. cell.k = opt.code
    OBVIOUS
  <2>. HIDE DEF cell
  <2>3. Len(<< cell >>) = 1 /\ << cell >>[1] = cell
    BY SeqOne
  <2>4. c + 1 <= Len(cells) + 1 /\ cells[c - 1 + 1] = cell
    BY <2>1, <2>3 DEF Stands
  <2>5. c <= Len(cells) /\ cells[c] = cell
    BY <1>0, <2>4
  <2>. QED BY <1>1, <2>2, <2>5 DEF OptionAt
<1>2. CASE opt.code \notin {"pad", "end"}
  <2>. DEFINE head == [k |-> "opt", code |-> opt.code, len |-> 1]
              data == [k |-> "data", data |-> opt.data]
  <2>1. EncodeOption(opt) = << head, data >>
    BY <1>2 DEF EncodeOption
  <2>2. /\ head.k = "opt" /\ head.code = opt.code /\ head.len = 1
        /\ data.k = "data" /\ data.data = opt.data
    OBVIOUS
  <2>. HIDE DEF head, data
  <2>3. /\ Len(<< head, data >>) = 2
        /\ << head, data >>[1] = head /\ << head, data >>[2] = data
    BY SeqTwo
  <2>4. c + 2 <= Len(cells) + 1 /\ cells[c - 1 + 1] = head /\ cells[c - 1 + 2] = data
    <3>1. 1 \in 1..2 /\ 2 \in 1..2
      OBVIOUS
    <3>2. /\ c + Len(<< head, data >>) <= Len(cells) + 1
          /\ \A i \in 1..Len(<< head, data >>) : cells[c - 1 + i] = << head, data >>[i]
      BY <2>1 DEF Stands
    <3>. QED BY <2>3, <3>1, <3>2
  <2>5. c - 1 + 1 = c /\ c - 1 + 2 = c + 1
    OBVIOUS
  <2>6. c + 1 <= Len(cells) /\ cells[c] = head /\ cells[c + 1] = data
    BY <1>0, <2>4, <2>5
  <2>. QED BY <1>2, <2>2, <2>6 DEF OptionAt
<1>. QED BY <1>1, <1>2

\* What the first j options have told.
Kept(options, j, kept) ==
  /\ kept = [code \in KeptOptions |-> kept[code]]
  /\ \A code \in KeptOptions :
       (\A i \in 1..j : options[i].code # code) => kept[code] = None
  /\ \A i \in 1..j : options[i].code \in KeptOptions => kept[options[i].code] = options[i].data

\* An option is told once, and none behind the end.
OptionsInOrder(options) ==
  \A i, j \in 1..Len(options) : i < j =>
    /\ options[i].code = options[j].code => options[i].code = "pad"
    /\ options[i].code = "end" => options[j].code = "pad"

LEMMA KeptNothing == ASSUME NEW options PROVE Kept(options, 0, NoneKept)
BY DEF Kept, NoneKept

LEMMA KeptSkipped ==
  ASSUME NEW options, NEW j \in Nat, NEW kept, Kept(options, j, kept),
         options[j + 1].code \in {"pad", "end"}
  PROVE  Kept(options, j + 1, kept)
<1>1. options[j + 1].code \notin KeptOptions
  BY DEF KeptOptions
<1>2. \A i \in 1..(j + 1) : i \in 1..j \/ i = j + 1
  OBVIOUS
<1>3. 1..j \subseteq 1..(j + 1)
  OBVIOUS
<1>. HIDE DEF KeptOptions
<1>. QED BY <1>1, <1>2, <1>3 DEF Kept

\* An option that is taken adds its data to what is kept.
LEMMA KeptTaken ==
  ASSUME NEW options, IsSeq(options), OptionsInOrder(options), NEW j \in Nat, j + 1 <= Len(options),
         NEW kept, Kept(options, j, kept), options[j + 1].code \notin {"pad", "end"}
  PROVE  Kept(options, j + 1, [kept EXCEPT ![options[j + 1].code] = options[j + 1].data])
<1>. DEFINE code == options[j + 1].code
            data == options[j + 1].data
            more == [kept EXCEPT ![code] = data]
<1>1. Len(options) \in Nat
  BY SeqIsFunction
<1>2. \A i \in 1..(j + 1) : i \in 1..j \/ i = j + 1
  OBVIOUS
<1>3. 1..j \subseteq 1..(j + 1) /\ j + 1 \in 1..(j + 1)
  OBVIOUS
<1>4. ASSUME NEW i \in 1..j PROVE options[i].code # code
  <2>1. i \in 1..Len(options) /\ j + 1 \in 1..Len(options) /\ i < j + 1
    BY <1>1
  <2>. QED BY <2>1 DEF OptionsInOrder
<1>5. kept = [c \in KeptOptions |-> kept[c]]
  BY DEF Kept
<1>. HIDE DEF code, data, more
<1>6. /\ more = [c \in KeptOptions |-> more[c]]
      /\ \A c \in KeptOptions : more[c] = IF c = code THEN data ELSE kept[c]
  BY <1>5 DEF more
<1>7. ASSUME NEW c \in KeptOptions, \A i \in 1..(j + 1) : options[i].code # c
      PROVE  more[c] = None
  <2>1. c # code
    BY <1>3, <1>7 DEF code
  <2>2. kept[c] = None
    BY <1>3, <1>7 DEF Kept
  <2>. QED BY <2>1, <2>2, <1>6
<1>8. ASSUME NEW i \in 1..(j + 1), options[i].code \in KeptOptions
      PROVE  more[options[i].code] = options[i].data
  <2>1. CASE i = j + 1
    BY <2>1, <1>6, <1>8 DEF code, data
  <2>2. CASE i \in 1..j
    <3>1. kept[options[i].code] = options[i].data
      BY <1>8, <2>2 DEF Kept
    <3>. QED BY <3>1, <1>4, <1>6, <1>8, <2>2
  <2>. QED BY <1>2, <2>1, <2>2
<1>9. Kept(options, j + 1, more)
  BY <1>6, <1>7, <1>8 DEF Kept
<1>. QED BY <1>9 DEF more, code, data

\* Behind the end there is nothing to tell.
LEMMA KeptAll ==
  ASSUME NEW options, IsSeq(options), OptionsInOrder(options),
         NEW j \in Nat, j + 1 <= Len(options), NEW kept, Kept(options, j, kept),
         options[j + 1].code = "end"
  PROVE  Kept(options, Len(options), kept)
<1>1. Len(options) \in Nat
  BY SeqIsFunction
<1>2. ASSUME NEW i \in 1..Len(options), i \notin 1..j PROVE options[i].code \notin KeptOptions
  <2>1. CASE i = j + 1
    BY <2>1 DEF KeptOptions
  <2>2. CASE i # j + 1
    <3>1. j + 1 \in 1..Len(options) /\ j + 1 < i
      BY <1>1, <1>2, <2>2
    <3>2. options[i].code = "pad"
      BY <3>1, <1>2 DEF OptionsInOrder
    <3>. QED BY <3>2 DEF KeptOptions
  <2>. QED BY <2>1, <2>2
<1>3. 1..j \subseteq 1..Len(options)
  BY <1>1
<1>. HIDE DEF KeptOptions
<1>4. ASSUME NEW code \in KeptOptions, \A i \in 1..Len(options) : options[i].code # code
      PROVE  kept[code] = None
  BY <1>3, <1>4 DEF Kept
<1>5. ASSUME NEW i \in 1..Len(options), options[i].code \in KeptOptions
      PROVE  kept[options[i].code] = options[i].data
  BY <1>2, <1>5 DEF Kept
<1>. QED BY <1>4, <1>5 DEF Kept

\* How far an option takes the reader of a frame of which n cells are there.
LEMMA OptionRead ==
  ASSUME NEW buf, NEW cells, NEW n, IsSeq(cells), Shows(buf, cells, n),
         NEW opt, NEW c \in Nat \ {0}, OptionAt(opt, c, cells),
         NEW kept, kept = [code \in KeptOptions |-> kept[code]]
  PROVE  LET w == OptionStep(buf, Options("reading", c, kept)) IN
         /\ opt.code = "pad" /\ c <= n => w = Options("reading", c + 1, kept)
         /\ opt.code \notin {"pad", "end"} /\ c + 1 <= n =>
              w = Options("reading", c + 2, [kept EXCEPT ![opt.code] = opt.data])
         /\ c <= n /\ (opt.code = "end" \/ (opt.code # "pad" /\ c + 1 > n)) =>
              w = Options("done", c, kept)
         /\ c > n => w = Options("done", c, kept) \/ w = Options("done", c, Unnamed(kept))
<1>1. n \in Nat
  BY SeqIsFunction DEF Shows
<1>2. \A kind \in {"pad", "opt"} : Holds(buf, c, kind) <=> c <= n /\ cells[c].k = kind
  BY HoldsShown
<1>3. Holds(buf, c + 1, "data") <=> c + 1 <= n /\ cells[c + 1].k = "data"
  <2>1. c + 1 \in Nat \ {0}
    OBVIOUS
  <2>. QED BY <2>1, HoldsShown
<1>4. \A i \in Nat \ {0} : i <= n => buf[i] = cells[i]
  BY <1>1 DEF Shows
<1>5. ASSUME opt.code = "pad", c <= n
      PROVE  OptionStep(buf, Options("reading", c, kept)) = Options("reading", c + 1, kept)
  <2>1. Holds(buf, c, "pad")
    BY <1>2, <1>5 DEF OptionAt
  <2>. QED BY <2>1, OptionSkipped
<1>6. ASSUME opt.code \notin {"pad", "end"}, c + 1 <= n
      PROVE  OptionStep(buf, Options("reading", c, kept)) =
               Options("reading", c + 2, [kept EXCEPT ![opt.code] = opt.data])
  <2>1. c <= n
    BY <1>1, <1>6
  <2>2. Holds(buf, c, "opt") /\ Holds(buf, c + 1, "data")
    BY <1>2, <1>3, <1>6, <2>1 DEF OptionAt
  <2>3. buf[c] = cells[c] /\ buf[c + 1] = cells[c + 1]
    BY <1>4, <1>6, <2>1
  <2>4. buf[c].len = 1 /\ buf[c].code = opt.code /\ buf[c + 1].data = opt.data
    BY <1>6, <2>3 DEF OptionAt
  <2>. QED BY <2>2, <2>4, OptionTaken
<1>7. ASSUME c <= n, opt.code = "end" \/ (opt.code # "pad" /\ c + 1 > n)
      PROVE  OptionStep(buf, Options("reading", c, kept)) = Options("done", c, kept)
  <2>1. ~Holds(buf, c, "pad")
    <3>1. CASE opt.code = "end"
      BY <3>1, <1>2 DEF OptionAt
    <3>2. CASE opt.code \notin {"pad", "end"}
      BY <3>2, <1>2 DEF OptionAt
    <3>. QED BY <1>7, <3>1, <3>2
  <2>2. Holds(buf, c, "opt") => buf[c].len = 1 /\ ~Holds(buf, c + 1, "data")
    <3>. SUFFICES ASSUME Holds(buf, c, "opt") PROVE buf[c].len = 1 /\ ~Holds(buf, c + 1, "data")
      OBVIOUS
    <3>1. c <= n /\ cells[c].k = "opt"
      BY <1>2
    <3>2. opt.code \notin {"pad", "end"}
      BY <3>1 DEF OptionAt
    <3>3. c + 1 > n
      BY <1>1, <1>7, <3>1, <3>2
    <3>. QED BY <1>1, <1>3, <1>4, <3>1, <3>2, <3>3 DEF OptionAt
  <2>3. ~Holds(buf, c, "partial")
    <3>1. buf[c] = cells[c]
      BY <1>4, <1>7
    <3>2. cells[c].k \in {"opt", "pad", "end"}
      BY DEF OptionAt
    <3>. QED BY <3>1, <3>2 DEF Holds
  <2>. QED BY <2>1, <2>2, <2>3, OptionsOver
<1>8. ASSUME c > n
      PROVE  \/ OptionStep(buf, Options("reading", c, kept)) = Options("done", c, kept)
             \/ OptionStep(buf, Options("reading", c, kept)) = Options("done", c, Unnamed(kept))
  <2>1. CASE Holds(buf, c, "partial")
    BY <2>1, OptionCut
  <2>2. CASE ~Holds(buf, c, "partial")
    <3>1. ~Holds(buf, c, "pad") /\ ~Holds(buf, c, "opt")
      BY <1>1, <1>2, <1>8
    <3>. QED BY <2>2, <3>1, OptionsOver
  <2>. QED BY <2>1, <2>2
<1>. QED BY <1>5, <1>6, <1>7, <1>8

OptionCells(options) == [i \in 1..Len(options) |-> EncodeOption(options[i])]

LEMMA OptionCellsSeq ==
  ASSUME NEW options, IsSeq(options)
  PROVE  /\ IsSeq(OptionCells(options)) /\ Len(OptionCells(options)) = Len(options)
         /\ \A i \in 1..Len(options) : OptionCells(options)[i] = EncodeOption(options[i])
                                       /\ IsSeq(OptionCells(options)[i])
<1>1. Len(options) \in Nat
  BY SeqIsFunction
<1>2. \A i \in 1..Len(options) : OptionCells(options)[i] = EncodeOption(options[i])
  BY DEF OptionCells
<1>3. OptionCells(options) = [i \in 1..Len(options) |-> OptionCells(options)[i]]
  BY DEF OptionCells
<1>. QED BY <1>1, <1>2, <1>3, SeqOfFunction, OptionSeq

\* What is kept of a message, complete or not.
KeptOf(options, j, kept, complete) ==
  \/ Kept(options, j, kept)
  \/ ~complete /\ \E told : Kept(options, j, told) /\ kept = Unnamed(told)

\* The options of a message, whose end is that of the frame: what the decoder
\* keeps is what those options tell that are there whole.
LEMMA OptionsShown ==
  ASSUME NEW buf, NEW cells, NEW n, IsSeq(cells), Shows(buf, cells, n),
         NEW options, IsSeq(options), OptionsInOrder(options), NEW o \in Nat \ {0}, o <= n + 1,
         Stands(FlattenSeq(OptionCells(options)), o, cells),
         o + Len(FlattenSeq(OptionCells(options))) = Len(cells) + 1
  PROVE  \E j \in 0..Len(options) : /\ KeptOf(options, j, ReadOptions(buf, o), n = Len(cells))
                                    /\ n = Len(cells) => j = Len(options)
<1>. DEFINE L == Len(options)
            ss == OptionCells(options)
            e == Len(cells) + 1
<1>1. /\ L \in Nat /\ IsSeq(ss) /\ Len(ss) = L
      /\ \A i \in 1..L : ss[i] = EncodeOption(options[i]) /\ IsSeq(ss[i])
  BY OptionCellsSeq, SeqIsFunction
<1>2. PICK p : Positions(p, ss, o, cells) /\ p[L + 1] = e
  <2>1. \A i \in 1..Len(ss) : IsSeq(ss[i])
    BY <1>1
  <2>2. \E pos : Positions(pos, ss, o, cells) /\ pos[Len(ss) + 1] = o + Len(FlattenSeq(ss))
    <3>. HIDE DEF ss
    <3>. QED BY <1>1, <2>1, FlattenStands DEF ss
  <2>. QED BY <1>1, <2>2
<1>3. n \in Nat /\ Len(cells) \in Nat /\ n <= Len(cells) /\ Len(buf) \in {n, n + 1}
      /\ (n = Len(cells) => Len(buf) = n)
  BY SeqIsFunction DEF Shows
<1>4. /\ p \in [1..(L + 1) -> Nat] /\ p[1] = o
      /\ \A i \in 1..L : p[i + 1] = p[i] + Len(ss[i]) /\ Stands(ss[i], p[i], cells)
  BY <1>1, <1>2 DEF Positions
<1>5. \A i \in 1..L : p[i + 1] = p[i] + IF options[i].code \in {"pad", "end"} THEN 1 ELSE 2
  BY <1>1, <1>4, OptionSeq
<1>6. \A i \in 1..(L + 1) : p[i] \in Nat /\ p[i] >= o /\ p[i] <= e
  <2>1. ASSUME NEW i \in 1..(L + 1) PROVE p[i] >= o /\ p[i] <= e
    <3>1. /\ 1 \in 1..(Len(ss) + 1) /\ i \in 1..(Len(ss) + 1) /\ L + 1 \in 1..(Len(ss) + 1)
          /\ 1 <= i /\ i <= L + 1
      BY <1>1
    <3>2. \A i1 \in 1..Len(ss) : IsSeq(ss[i1])
      BY <1>1
    <3>. HIDE DEF L, ss, e
    <3>3. p[1] <= p[i] /\ p[i] <= p[L + 1]
      BY <3>1, <3>2, <1>1, <1>2, PositionsGrow
    <3>. QED BY <3>1, <3>3, <1>1, <1>2, <1>4
  <2>. QED BY <2>1, <1>4
<1>7. ASSUME NEW i \in 1..L PROVE OptionAt(options[i], p[i], cells)
  <2>1. Stands(EncodeOption(options[i]), p[i], cells) /\ p[i] \in Nat
    BY <1>1, <1>4, <1>6
  <2>. QED BY <2>1, OptionStands
<1>. HIDE DEF ss
<1>8. PICK read :
         /\ read[0] = Options("reading", o, NoneKept)
         /\ \A k \in 1..(Len(buf) + 1) :
              read[k] = IF read[k - 1].st = "reading" THEN OptionStep(buf, read[k - 1])
                        ELSE read[k - 1]
         /\ ReadOptions(buf, o) = read[Len(buf) + 1].kept
  <2>1. Len(buf) \in Nat
    BY <1>3
  <2>. QED BY <2>1, OptionWalk
<1>. DEFINE End(j, kept) == /\ j \in 0..L /\ KeptOf(options, j, kept, n = Len(cells))
                            /\ n = Len(cells) => j = L
            Open(k) == /\ k <= L
                       /\ \E kept : /\ read[k] = Options("reading", p[k + 1], kept)
                                    /\ Kept(options, k, kept)
                       /\ p[k + 1] <= n + 1 /\ p[k + 1] >= k + 1
            Over(k) == \E c, kept : /\ read[k] = Options("done", c, kept)
                                    /\ \E j : End(j, kept)
            S == {k \in Nat : k <= Len(buf) + 1 => Open(k) \/ Over(k)}
<1>9. Open(0)
  BY <1>1, <1>3, <1>4, <1>8, KeptNothing
<1>10. ASSUME NEW k \in Nat, k + 1 <= Len(buf) + 1, Open(k) \/ Over(k)
       PROVE  Open(k + 1) \/ Over(k + 1)
  <2>1. k + 1 \in 1..(Len(buf) + 1) /\ (k + 1) - 1 = k
    BY <1>3, <1>10
  <2>2. read[k + 1] = IF read[k].st = "reading" THEN OptionStep(buf, read[k]) ELSE read[k]
    BY <1>8, <2>1
  <2>3. CASE Over(k)
    <3>1. PICK c, kept : /\ read[k] = Options("done", c, kept)
                         /\ \E j : End(j, kept)
      BY <2>3
    <3>2. read[k + 1] = Options("done", c, kept)
      BY <2>2, <3>1 DEF Options
    <3>3. Over(k + 1)
      <4>. HIDE DEF End
      <4>. QED BY <3>1, <3>2
    <3>. QED BY <3>3
  <2>4. CASE Open(k)
    <3>1. PICK kept : read[k] = Options("reading", p[k + 1], kept) /\ Kept(options, k, kept)
      BY <2>4
    <3>. DEFINE c == p[k + 1]
                opt == options[k + 1]
    <3>2. read[k + 1] = OptionStep(buf, Options("reading", c, kept))
      <4>1. read[k].st = "reading"
        BY <3>1 DEF Options
      <4>. QED BY <2>2, <3>1, <4>1
    <3>3. k + 1 \in 1..(L + 1) /\ k <= L /\ c <= n + 1 /\ c >= k + 1
      BY <1>1, <2>4
    <3>4. c \in Nat \ {0} /\ c >= o /\ c <= e
      BY <1>6, <3>3
    <3>. HIDE DEF c
    <3>5. CASE k = L
      <4>1. c = e /\ n = Len(cells) /\ Len(buf) = n
        BY <1>2, <1>3, <3>3, <3>5 DEF c
      <4>2. \A kind : ~Holds(buf, c, kind)
        BY <4>1, <1>3 DEF Holds
      <4>3. read[k + 1] = Options("done", c, kept)
        BY <3>2, <4>2, OptionsOver
      <4>4. End(L, kept)
        BY <1>1, <3>1, <3>5 DEF KeptOf
      <4>5. Over(k + 1)
        <5>. HIDE DEF End
        <5>. QED BY <4>3, <4>4
      <4>. QED BY <4>5
    <3>6. CASE k # L
      <4>1. k + 1 \in 1..L /\ k + 1 <= L /\ (k + 1) + 1 \in 1..(L + 1) /\ k \in 0..L
        BY <1>1, <3>3, <3>6
      <4>2. OptionAt(opt, c, cells)
        BY <1>7, <4>1 DEF c
      <4>3. p[(k + 1) + 1] = c + IF opt.code \in {"pad", "end"} THEN 1 ELSE 2
        BY <1>5, <4>1 DEF c
      <4>4. p[(k + 1) + 1] <= e
        BY <1>6, <4>1
      <4>. HIDE DEF opt
      <4>5. /\ opt.code = "pad" /\ c <= n => read[k + 1] = Options("reading", c + 1, kept)
            /\ opt.code \notin {"pad", "end"} /\ c + 1 <= n =>
                 read[k + 1] = Options("reading", c + 2, [kept EXCEPT ![opt.code] = opt.data])
            /\ c <= n /\ (opt.code = "end" \/ (opt.code # "pad" /\ c + 1 > n)) =>
                 read[k + 1] = Options("done", c, kept)
            /\ c > n => \/ read[k + 1] = Options("done", c, kept)
                        \/ read[k + 1] = Options("done", c, Unnamed(kept))
        <5>1. kept = [code \in KeptOptions |-> kept[code]]
          BY <3>1 DEF Kept
        <5>. QED BY <3>2, <3>4, <4>2, <5>1, OptionRead
      <4>6. CASE opt.code = "pad" /\ c <= n
        <5>1. read[k + 1] = Options("reading", p[(k + 1) + 1], kept)
          BY <4>3, <4>5, <4>6
        <5>2. Kept(options, k + 1, kept)
          BY <3>1, <4>6, KeptSkipped DEF opt
        <5>3. p[(k + 1) + 1] <= n + 1 /\ p[(k + 1) + 1] >= (k + 1) + 1
          BY <1>3, <3>3, <3>4, <4>3, <4>6
        <5>4. Open(k + 1)
          BY <4>1, <5>1, <5>2, <5>3
        <5>. QED BY <5>4
      <4>7. CASE opt.code \notin {"pad", "end"} /\ c + 1 <= n
        <5>. DEFINE more == [kept EXCEPT ![opt.code] = opt.data]
        <5>1. read[k + 1] = Options("reading", p[(k + 1) + 1], more)
          BY <4>3, <4>5, <4>7
        <5>2. Kept(options, k + 1, more)
          BY <3>1, <4>1, <4>7, KeptTaken DEF opt
        <5>3. p[(k + 1) + 1] <= n + 1 /\ p[(k + 1) + 1] >= (k + 1) + 1
          BY <1>3, <3>3, <3>4, <4>3, <4>7
        <5>. HIDE DEF more
        <5>4. Open(k + 1)
          BY <4>1, <5>1, <5>2, <5>3
        <5>. QED BY <5>4
      <4>8. CASE opt.code = "end" /\ c <= n
        <5>1. read[k + 1] = Options("done", c, kept)
          BY <4>5, <4>8
        <5>2. KeptOf(options, L, kept, n = Len(cells))
          BY <3>1, <4>1, <4>8, KeptAll DEF opt, KeptOf
        <5>3. End(L, kept)
          BY <1>1, <5>2
        <5>4. Over(k + 1)
          <6>. HIDE DEF End
          <6>. QED BY <5>1, <5>3
        <5>. QED BY <5>4
      <4>9. CASE c > n \/ (opt.code \notin {"end", "pad"} /\ c + 1 > n)
        <5>1. n # Len(cells)
          BY <1>3, <3>4, <4>3, <4>4, <4>9
        <5>2. PICK told \in {kept, Unnamed(kept)} : read[k + 1] = Options("done", c, told)
          <6>1. c > n \/ (c <= n /\ opt.code \notin {"end", "pad"} /\ c + 1 > n)
            BY <1>3, <3>4, <4>9
          <6>. QED BY <4>5, <6>1
        <5>3. End(k, told)
          BY <3>1, <4>1, <5>1, <5>2 DEF KeptOf
        <5>4. Over(k + 1)
          <6>. HIDE DEF End
          <6>. QED BY <5>2, <5>3
        <5>. QED BY <5>4
      <4>10. c <= n \/ c > n
        BY <1>3, <3>4
      <4>11. c + 1 <= n \/ c + 1 > n
        BY <1>3, <3>4
      <4>. HIDE DEF Open, Over
      <4>. QED BY <4>6, <4>7, <4>8, <4>9, <4>10, <4>11
    <3>. QED BY <3>5, <3>6
  <2>. QED BY <1>10, <2>3, <2>4
<1>11. ASSUME NEW k \in Nat, k \in S PROVE k + 1 \in S
  <2>. HIDE DEF Open, Over
  <2>. SUFFICES ASSUME k + 1 <= Len(buf) + 1 PROVE Open(k + 1) \/ Over(k + 1)
    OBVIOUS
  <2>1. Open(k) \/ Over(k)
    BY <1>3, <1>11
  <2>. QED BY <2>1, <1>10
<1>12. Open(Len(buf) + 1) \/ Over(Len(buf) + 1)
  <2>1. 0 \in S
    <3>. HIDE DEF Open, Over
    <3>. QED BY <1>9
  <2>2. Nat \subseteq S
    <3>. HIDE DEF S
    <3>. QED BY <2>1, <1>11, Induction
  <2>3. Len(buf) + 1 \in S /\ Len(buf) + 1 <= Len(buf) + 1
    <3>. HIDE DEF S
    <3>. QED BY <2>2, <1>3
  <2>. HIDE DEF Open, Over
  <2>. QED BY <2>3
<1>13. CASE Open(Len(buf) + 1)
  <2>1. ~(p[(Len(buf) + 1) + 1] <= n + 1 /\ p[(Len(buf) + 1) + 1] >= (Len(buf) + 1) + 1)
    <3>1. \A x : ~(x \in Nat /\ x <= n + 1 /\ x >= (Len(buf) + 1) + 1)
      BY <1>3
    <3>2. (Len(buf) + 1) + 1 \in 1..(L + 1)
      BY <1>1, <1>3, <1>13
    <3>. QED BY <3>1, <3>2, <1>6
  <2>. QED BY <2>1, <1>13
<1>14. CASE Over(Len(buf) + 1)
  <2>1. PICK c, kept : /\ read[Len(buf) + 1] = Options("done", c, kept)
                       /\ \E j : End(j, kept)
    <3>. HIDE DEF End
    <3>. QED BY <1>14
  <2>2. PICK j : End(j, kept)
    <3>. HIDE DEF End
    <3>. QED BY <2>1
  <2>3. ReadOptions(buf, o) = kept
    <3>. HIDE DEF End
    <3>. QED BY <1>8, <2>1 DEF Options
  <2>4. End(j, ReadOptions(buf, o))
    <3>. HIDE DEF End
    <3>. QED BY <2>2, <2>3
  <2>. QED BY <2>4
<1>. QED BY <1>12, <1>13, <1>14

-----------------------------------------------------------------------------
(* DHCP *)

LEMMA LeastIs ==
  ASSUME NEW T, T \subseteq Nat, NEW i \in T, \A x \in T : i <= x
  PROVE  Min(T) = i
<1>1. Min(T) \in T /\ \A y \in T : Min(T) <= y
  BY DEF Min
<1>2. Min(T) \in Nat /\ i \in Nat /\ Min(T) <= i /\ i <= Min(T)
  BY <1>1
<1>. QED BY <1>2

\* What is kept of a code is what the client or server tells under it.
LEMMA KeptTold ==
  ASSUME NEW d, IsSeq(d.options), OptionsInOrder(d.options), NEW j \in 0..Len(d.options),
         NEW kept, Kept(d.options, j, kept), NEW code \in KeptOptions
  PROVE  /\ kept[code] \in {None, Told(d, code)}
         /\ j = Len(d.options) => kept[code] = Told(d, code)
<1>. DEFINE L == Len(d.options)
            hits == {i \in 1..L : d.options[i].code = code}
<1>1. L \in Nat
  BY SeqIsFunction
<1>2. code # "pad"
  BY DEF KeptOptions
<1>3. Told(d, code) = IF hits = {} THEN None ELSE d.options[Min(hits)].data
  BY DEF Told
<1>4. CASE hits = {}
  <2>1. \A i \in 1..j : i \in 1..L
    BY <1>1
  <2>2. kept[code] = None
    BY <1>4, <2>1 DEF Kept
  <2>. QED BY <1>3, <1>4, <2>2
<1>5. ASSUME NEW i \in hits PROVE Min(hits) = i
  <2>1. ASSUME NEW x \in hits PROVE x = i
    <3>1. ASSUME NEW u \in 1..L, NEW v \in 1..L, u < v,
                 d.options[u].code = code, d.options[v].code = code
          PROVE  FALSE
      BY <1>2, <3>1 DEF OptionsInOrder
    <3>2. x \in 1..L /\ i \in 1..L /\ d.options[x].code = code /\ d.options[i].code = code
      BY <1>5, <2>1
    <3>3. ~(x < i) /\ ~(i < x)
      BY <3>1, <3>2
    <3>. QED BY <1>1, <3>2, <3>3
  <2>2. hits \subseteq Nat /\ i \in Nat /\ i <= i
    BY <1>1
  <2>. HIDE DEF hits
  <2>. QED BY <1>5, <2>1, <2>2, LeastIs
<1>6. CASE hits # {}
  <2>1. PICK i \in hits : TRUE
    BY <1>6
  <2>2. i \in 1..L /\ d.options[i].code = code
    BY <2>1
  <2>3. Told(d, code) = d.options[i].data
    BY <1>3, <1>5, <1>6, <2>1
  <2>4. CASE i \in 1..j
    BY <2>2, <2>3, <2>4 DEF Kept
  <2>5. CASE i \notin 1..j
    <3>1. j # L
      BY <2>2, <2>5
    <3>2. ASSUME NEW x \in 1..j PROVE d.options[x].code # code
      <4>1. SUFFICES ASSUME d.options[x].code = code PROVE FALSE
        OBVIOUS
      <4>2. x \in hits
        BY <1>1, <4>1
      <4>3. x = i
        BY <1>5, <2>1, <4>2
      <4>. QED BY <2>5, <4>3
    <3>3. kept[code] = None
      BY <3>2 DEF Kept
    <3>. QED BY <3>1, <3>3
  <2>. QED BY <2>4, <2>5
<1>. QED BY <1>4, <1>6

\* WellFormedDhcp, for a sequence of any elements.
DhcpToSend(d) ==
  /\ IsSeq(d.options)
  /\ OptionsInOrder(d.options)
  /\ \A i \in 1..Len(d.options) :
       d.options[i].code = "requested-ip" => d.options[i].data = d.address
  /\ d.as \in {"ask", "renew", "ack"}
  /\ IF d.as = "ask"
     THEN (\A i \in 1..Len(d.options) : d.options[i].code # "requested-ip") => d.address = None
     ELSE d.address # Zero

\* The address of a message: the one that is asked for, renewed or given.
LEMMA DhcpAddress ==
  ASSUME NEW d, DhcpToSend(d), NEW j \in 0..Len(d.options), NEW kept, Kept(d.options, j, kept)
  PROVE  LET ip == OrElse(kept["requested-ip"],
                     OrElse(NonZero(IF d.as = "renew" THEN d.address ELSE Zero),
                            NonZero(IF d.as = "ack" THEN d.address ELSE Zero))) IN
         /\ ip \in {None, d.address}
         /\ j = Len(d.options) => ip = d.address
<1>. DEFINE r == kept["requested-ip"]
<1>1. "requested-ip" \in KeptOptions
  BY DEF KeptOptions
<1>2. r \in {None, d.address}
  <2>1. CASE \E i \in 1..j : d.options[i].code = "requested-ip"
    <3>1. PICK i \in 1..j : d.options[i].code = "requested-ip"
      BY <2>1
    <3>2. i \in 1..Len(d.options)
      BY SeqIsFunction DEF DhcpToSend
    <3>3. r = d.options[i].data
      BY <1>1, <3>1 DEF Kept
    <3>. QED BY <3>1, <3>2, <3>3 DEF DhcpToSend
  <2>2. CASE ~\E i \in 1..j : d.options[i].code = "requested-ip"
    BY <1>1, <2>2 DEF Kept
  <2>. QED BY <2>1, <2>2
<1>3. NonZero(Zero) = None
  BY DEF NonZero
<1>4. CASE d.as = "ask"
  <2>1. ASSUME j = Len(d.options) PROVE r = d.address
    <3>1. CASE \E i \in 1..j : d.options[i].code = "requested-ip"
      BY <1>1, <2>1, <3>1 DEF Kept, DhcpToSend
    <3>2. CASE ~\E i \in 1..j : d.options[i].code = "requested-ip"
      BY <1>1, <1>4, <2>1, <3>2 DEF Kept, DhcpToSend
    <3>. QED BY <3>1, <3>2
  <2>. HIDE DEF r
  <2>2. OrElse(r, OrElse(NonZero(Zero), NonZero(Zero))) = r
    BY <1>3 DEF OrElse
  <2>. QED BY <1>2, <1>4, <2>1, <2>2 DEF r
<1>5. CASE d.as # "ask"
  <2>1. d.address # Zero /\ d.as \in {"renew", "ack"}
    BY <1>5 DEF DhcpToSend
  <2>2. NonZero(d.address) = d.address
    BY <2>1 DEF NonZero
  <2>. HIDE DEF r
  <2>3. OrElse(r, OrElse(d.address, None)) = d.address
    BY <1>2 DEF OrElse
  <2>4. OrElse(r, OrElse(None, d.address)) = d.address
    BY <1>2 DEF OrElse
  <2>. QED BY <1>3, <2>1, <2>2, <2>3, <2>4 DEF r
<1>. QED BY <1>4, <1>5

\* An address, a host name and a message type that are read: nothing but what
\* is told, the empty name apart; all of it of a message that is complete.
Telling(d, complete, ip, name, as) ==
  /\ ip = None \/ ip = d.address
  /\ name = None \/ name = "" \/ name = Told(d, "hostname")
  /\ complete => /\ ip = d.address /\ name = Told(d, "hostname")
                 /\ as = Told(d, "message-type")

\* A frame's observation of a DHCP message: nothing, or what the message says,
\* all of it if it has arrived whole.
DhcpRead(dhcp, d, complete) ==
  \/ dhcp = <<>> /\ ~complete
  \/ /\ dhcp # <<>>
     /\ \E ip, name, as :
          /\ Telling(d, complete, ip, name, as)
          /\ extractDhcp(dhcp[1]) = << Fact("dhcp", d.client, ip, name, as) >>

LEMMA DhcpSeq ==
  ASSUME NEW d, IsSeq(d.options)
  PROVE  IsSeq(EncodeDhcp(d)) /\ Len(EncodeDhcp(d)) \in Nat \ {0}
<1>. DEFINE head == [k |-> "bootp", cookie |-> TRUE, chaddr |-> d.client,
                     ciaddr |-> IF d.as = "renew" THEN d.address ELSE Zero,
                     yiaddr |-> IF d.as = "ack" THEN d.address ELSE Zero]
            rest == FlattenSeq(OptionCells(d.options))
<1>1. EncodeDhcp(d) = << head >> \o rest
  BY DEF EncodeDhcp, OptionCells
<1>2. IsSeq(rest)
  BY OptionCellsSeq, FlattenStands, SeqEmpty
<1>. HIDE DEF head, rest
<1>3. IsSeq(<< head >>) /\ Len(<< head >>) = 1
  BY SeqOne
<1>4. IsSeq(<< head >> \o rest) /\ Len(<< head >> \o rest) = Len(<< head >>) + Len(rest)
  BY <1>2, <1>3, SeqConcat
<1>5. Len(rest) \in Nat
  BY <1>2, SeqIsFunction
<1>. QED BY <1>1, <1>3, <1>4, <1>5

\* decodeDhcp reads nothing but what the message says, and all of a whole one.
LEMMA DhcpShown ==
  ASSUME NEW buf, NEW cells, NEW n, IsSeq(cells), Shows(buf, cells, n),
         NEW d, DhcpToSend(d), NEW o \in Nat \ {0},
         Stands(EncodeDhcp(d), o, cells), o + Len(EncodeDhcp(d)) = Len(cells) + 1
  PROVE  DhcpRead(decodeDhcp(buf, o), d, n = Len(cells))
<1>. DEFINE ci == IF d.as = "renew" THEN d.address ELSE Zero
            yi == IF d.as = "ack" THEN d.address ELSE Zero
            head == [k |-> "bootp", cookie |-> TRUE, chaddr |-> d.client, ciaddr |-> ci,
                     yiaddr |-> yi]
            rest == FlattenSeq(OptionCells(d.options))
<1>1. EncodeDhcp(d) = << head >> \o rest
  BY DEF EncodeDhcp, OptionCells
<1>2. IsSeq(rest) /\ IsSeq(d.options)
  BY OptionCellsSeq, FlattenStands, SeqEmpty DEF DhcpToSend
<1>3. head.k = "bootp" /\ head.cookie /\ head.chaddr = d.client /\ head.ciaddr = ci /\ head.yiaddr = yi
  BY Zenon
<1>. HIDE DEF head, rest, ci, yi
<1>4. IsSeq(<< head >>) /\ Len(<< head >>) = 1 /\ << head >>[1] = head
  BY SeqOne
<1>5. n \in Nat /\ Len(cells) \in Nat /\ n <= Len(cells)
  BY SeqIsFunction DEF Shows
<1>6. Stands(<< head >>, o, cells) /\ Stands(rest, o + 1, cells)
  BY <1>1, <1>2, <1>4, ConcatStands
<1>7. (o + 1) + Len(rest) = Len(cells) + 1 /\ Len(rest) \in Nat
  <2>1. Len(<< head >> \o rest) = 1 + Len(rest)
    BY <1>2, <1>4, SeqConcat
  <2>2. Len(rest) \in Nat
    BY <1>2, SeqIsFunction
  <2>. QED BY <1>1, <2>1, <2>2
<1>8. o <= Len(cells) /\ cells[o] = head
  <2>1. o + 1 <= Len(cells) + 1 /\ cells[o - 1 + 1] = head
    BY <1>4, <1>6 DEF Stands
  <2>2. o - 1 + 1 = o
    OBVIOUS
  <2>. QED BY <1>5, <2>1, <2>2
<1>9. Holds(buf, o, "bootp") <=> o <= n
  BY <1>3, <1>8, HoldsShown
<1>10. CASE o > n
  <2>1. ~Holds(buf, o, "bootp")
    BY <1>5, <1>9, <1>10
  <2>2. decodeDhcp(buf, o) = <<>>
    BY <2>1 DEF decodeDhcp
  <2>3. n # Len(cells)
    BY <1>5, <1>8, <1>10
  <2>. QED BY <2>2, <2>3 DEF DhcpRead
<1>11. CASE o <= n
  <2>1. buf[o] = head
    <3>1. o \in 1..n
      BY <1>5, <1>11
    <3>. QED BY <1>8, <3>1 DEF Shows
  <2>. DEFINE kept == ReadOptions(buf, o + 1)
              r == [clientMac |-> d.client, ciaddr |-> NonZero(ci), yiaddr |-> NonZero(yi),
                    messageType |-> kept["message-type"], hostname |-> kept["hostname"],
                    requestedIp |-> kept["requested-ip"]]
  <2>2. decodeDhcp(buf, o) = << r >>
    <3>1. Holds(buf, o, "bootp") /\ buf[o].cookie
      BY <1>3, <1>9, <1>11, <2>1
    <3>. HIDE DEF kept
    <3>2. decodeDhcp(buf, o) =
            << [clientMac |-> buf[o].chaddr,
                ciaddr |-> NonZero(buf[o].ciaddr), yiaddr |-> NonZero(buf[o].yiaddr),
                messageType |-> kept["message-type"], hostname |-> kept["hostname"],
                requestedIp |-> kept["requested-ip"]] >>
      BY <3>1 DEF decodeDhcp, kept
    <3>. QED BY <1>3, <2>1, <3>2
  <2>3. PICK j \in 0..Len(d.options) :
          KeptOf(d.options, j, kept, n = Len(cells)) /\ (n = Len(cells) => j = Len(d.options))
    <3>1. o + 1 \in Nat \ {0} /\ o + 1 <= n + 1
      BY <1>5, <1>11
    <3>. QED BY <1>2, <1>6, <1>7, <3>1, OptionsShown DEF DhcpToSend, rest
  <2>. HIDE DEF kept
  <2>4. PICK told :
          /\ Kept(d.options, j, told)
          /\ kept = told \/ (n # Len(cells) /\ kept = Unnamed(told))
    BY <2>3 DEF KeptOf
  <2>5. /\ kept["requested-ip"] = told["requested-ip"]
        /\ kept["message-type"] = told["message-type"]
        /\ kept["hostname"] = told["hostname"] \/ (n # Len(cells) /\ kept["hostname"] = "")
    <3>1. /\ Unnamed(told)["requested-ip"] = told["requested-ip"]
          /\ Unnamed(told)["message-type"] = told["message-type"]
          /\ Unnamed(told)["hostname"] = ""
      <4>1. told = [code \in KeptOptions |-> told[code]]
        BY <2>4 DEF Kept
      <4>2. DOMAIN told = KeptOptions
        BY <4>1, Zenon
      <4>3. {"requested-ip", "message-type", "hostname"} \subseteq DOMAIN told
        BY <4>2 DEF KeptOptions
      <4>. QED BY <4>3 DEF Unnamed, Named
    <3>. QED BY <2>4, <3>1
  <2>. DEFINE ip == OrElse(kept["requested-ip"], OrElse(NonZero(ci), NonZero(yi)))
              name == kept["hostname"]
              as == kept["message-type"]
  <2>6. ip \in {None, d.address} /\ (j = Len(d.options) => ip = d.address)
    BY <2>4, <2>5, DhcpAddress DEF ci, yi
  <2>7. /\ name = None \/ name = "" \/ name = Told(d, "hostname")
        /\ n = Len(cells) => name = Told(d, "hostname")
    <3>1. "hostname" \in KeptOptions
      BY DEF KeptOptions
    <3>2. /\ told["hostname"] \in {None, Told(d, "hostname")}
          /\ j = Len(d.options) => told["hostname"] = Told(d, "hostname")
      BY <2>4, <3>1, KeptTold DEF DhcpToSend
    <3>. QED BY <2>3, <2>5, <3>2
  <2>8. j = Len(d.options) => as = Told(d, "message-type")
    <3>1. "message-type" \in KeptOptions
      BY DEF KeptOptions
    <3>2. j = Len(d.options) => told["message-type"] = Told(d, "message-type")
      BY <2>4, <3>1, KeptTold DEF DhcpToSend
    <3>. QED BY <2>5, <3>2
  <2>9. extractDhcp(r) = << Fact("dhcp", d.client, ip, name, as) >>
    BY DEF extractDhcp, Fact
  <2>. HIDE DEF r, ip, name, as
  <2>10. << r >> # <<>> /\ << r >>[1] = r
    OBVIOUS
  <2>11. Telling(d, n = Len(cells), ip, name, as)
    BY <2>3, <2>6, <2>7, <2>8 DEF Telling
  <2>12. /\ decodeDhcp(buf, o) # <<>>
         /\ extractDhcp(decodeDhcp(buf, o)[1]) = << Fact("dhcp", d.client, ip, name, as) >>
    BY <2>2, <2>9, <2>10
  <2>. DEFINE complete == n = Len(cells)
              dhcp == decodeDhcp(buf, o)
  <2>13. Telling(d, complete, ip, name, as)
    BY <2>11
  <2>. HIDE DEF complete, dhcp
  <2>14. DhcpRead(dhcp, d, complete)
    <3>1. dhcp # <<>> /\ extractDhcp(dhcp[1]) = << Fact("dhcp", d.client, ip, name, as) >>
      BY <2>12 DEF dhcp
    <3>. QED BY <2>13, <3>1 DEF DhcpRead
  <2>. QED BY <2>14 DEF complete, dhcp
<1>. QED BY <1>5, <1>10, <1>11

-----------------------------------------------------------------------------
(* What a responder says of itself *)

Owners(b) == {b.answers[i].owner : i \in 1..Len(b.answers)}

\* What extractMdns takes from the answers.
HeardIp(a) == IF a # <<>> THEN a[1].ip ELSE None
HeardName(a, names) == IF a # <<>> THEN a[1].name ELSE First(names)

\* The name and the address are those of the records found so far.
LEMMA HostFound ==
  ASSUME NEW b, IsSeq(b.answers), \A i \in 1..Len(b.answers) : WellFormedAnswer(b.answers[i]),
         NEW k \in 0..Len(b.answers), NEW a, NEW names, Found(b.answers, k, a, names)
  PROVE  /\ HeardIp(a) \in {None, Host(b).ip}
         /\ HeardName(a, names) \in {None} \union Owners(b)
         /\ k = Len(b.answers) => HeardIp(a) = Host(b).ip /\ HeardName(a, names) = Host(b).name
<1>. DEFINE L == Len(b.answers)
            type(i) == b.answers[i].type
            address == {i \in 1..L : b.answers[i].type \in {"A"}}
            service == {i \in 1..L : b.answers[i].type \in {"AAAA", "PTR", "SRV"}}
            ip == HeardIp(a)
            name == HeardName(a, names)
<1>0. \A i \in 1..L : type(i) \in {"A", "AAAA", "TXT", "PTR", "SRV"}
  BY DEF WellFormedAnswer
<1>1. L \in Nat /\ k \in Nat /\ k <= L /\ 1..k \subseteq 1..L
  BY SeqIsFunction
<1>2. /\ address # {} => Host(b) = [ip |-> b.answers[Min(address)].ip,
                                    name |-> b.answers[Min(address)].owner]
      /\ address = {} /\ service # {} => Host(b) = [ip |-> None,
                                                    name |-> b.answers[Min(service)].owner]
      /\ address = {} /\ service = {} => Host(b) = [ip |-> None, name |-> None]
  <2>1. Host(b) = CASE address # {} -> [ip |-> b.answers[Min(address)].ip,
                                        name |-> b.answers[Min(address)].owner]
                    [] address = {} /\ service # {} -> [ip |-> None,
                                                        name |-> b.answers[Min(service)].owner]
                    [] OTHER -> [ip |-> None, name |-> None]
    BY DEF Host
  <2>. HIDE DEF address, service
  <2>. QED BY <2>1
<1>3. CASE \E i \in 1..k : type(i) = "A"
  <2>. DEFINE T == {i \in 1..k : type(i) = "A"}
  <2>1. PICK i \in T : \A y \in T : i <= y
    <3>1. T \subseteq Nat /\ T # {}
      BY <1>1, <1>3
    <3>. HIDE DEF T
    <3>. QED BY <3>1, LeastNatural
  <2>2. i \in 1..k /\ type(i) = "A" /\ i \in 1..L
    BY <1>1, <2>1
  <2>3. \A j \in 1..(i - 1) : type(j) # "A"
    <3>1. SUFFICES ASSUME NEW j \in 1..(i - 1), type(j) = "A" PROVE FALSE
      OBVIOUS
    <3>2. j \in T /\ ~(i <= j)
      BY <1>1, <2>2, <3>1
    <3>. QED BY <2>1, <3>2
  <2>4. a # <<>> /\ a[1] = [name |-> b.answers[i].owner, ip |-> b.answers[i].ip]
    BY <2>2, <2>3 DEF Found
  <2>5. address # {} /\ Min(address) = i
    <3>1. i \in address /\ address \subseteq Nat
      BY <2>2
    <3>2. \A x \in address : i <= x
      <4>1. SUFFICES ASSUME NEW x \in address PROVE i <= x
        OBVIOUS
      <4>2. CASE x \in 1..k
        BY <2>1, <4>1, <4>2
      <4>3. CASE x \notin 1..k
        BY <1>1, <2>2, <4>1, <4>3
      <4>. QED BY <4>2, <4>3
    <3>. HIDE DEF address
    <3>. QED BY <3>1, <3>2, LeastIs
  <2>6. ip = b.answers[i].ip /\ name = b.answers[i].owner
    BY <2>4 DEF HeardIp, HeardName
  <2>7. Host(b).ip = b.answers[i].ip /\ Host(b).name = b.answers[i].owner
    <3>. HIDE DEF address, service
    <3>1. Host(b) = [ip |-> b.answers[i].ip, name |-> b.answers[i].owner]
      BY <1>2, <2>5
    <3>. QED BY <3>1
  <2>. QED BY <2>2, <2>6, <2>7 DEF Owners
<1>4. CASE \A i \in 1..k : type(i) # "A"
  <2>1. a = <<>>
    BY <1>4 DEF Found
  <2>2. ip = None /\ name = First(names)
    BY <2>1 DEF HeardIp, HeardName
  <2>3. k = L => address = {}
    BY <1>4
  <2>4. CASE \E i \in 1..k : type(i) # "TXT"
    <3>. DEFINE T == {i \in 1..k : type(i) # "TXT"}
    <3>1. PICK i \in T : \A y \in T : i <= y
      <4>1. T \subseteq Nat /\ T # {}
        BY <1>1, <2>4
      <4>. HIDE DEF T
      <4>. QED BY <4>1, LeastNatural
    <3>2. i \in 1..k /\ type(i) # "TXT" /\ i \in 1..L
      BY <1>1, <3>1
    <3>3. \A j \in 1..(i - 1) : type(j) = "TXT"
      <4>1. SUFFICES ASSUME NEW j \in 1..(i - 1), type(j) # "TXT" PROVE FALSE
        OBVIOUS
      <4>2. j \in T /\ ~(i <= j)
        BY <1>1, <3>2, <4>1
      <4>. QED BY <3>1, <4>2
    <3>4. names # <<>> /\ names[1] = b.answers[i].owner
      BY <3>2, <3>3 DEF Found
    <3>5. name = b.answers[i].owner
      BY <2>2, <3>4 DEF First
    <3>6. ASSUME k = L PROVE service # {} /\ Min(service) = i
      <4>1. i \in service /\ service \subseteq Nat
        BY <1>0, <1>4, <3>2
      <4>2. \A x \in service : i <= x
        BY <3>1, <3>6
      <4>. HIDE DEF service
      <4>. QED BY <4>1, <4>2, LeastIs
    <3>7. ASSUME k = L PROVE Host(b).ip = None /\ Host(b).name = b.answers[i].owner
      <4>. HIDE DEF address, service
      <4>1. Host(b) = [ip |-> None, name |-> b.answers[i].owner]
        BY <1>2, <2>3, <3>6, <3>7
      <4>. QED BY <4>1
    <3>. QED BY <2>2, <3>2, <3>5, <3>7 DEF Owners
  <2>5. CASE \A i \in 1..k : type(i) = "TXT"
    <3>1. names = <<>>
      BY <2>5 DEF Found
    <3>2. name = None
      BY <2>2, <3>1 DEF First
    <3>3. ASSUME k = L PROVE Host(b).ip = None /\ Host(b).name = None
      <4>1. service = {}
        BY <2>5, <3>3
      <4>. HIDE DEF service
      <4>. QED BY <1>2, <2>3, <3>3, <4>1
    <3>. QED BY <2>2, <3>2, <3>3
  <2>. QED BY <2>4, <2>5
<1>. QED BY <1>3, <1>4

-----------------------------------------------------------------------------
(* Ethernet *)

Vlan(buf, i) == i <= Len(buf) /\ buf[i].k \in {"eth", "tag"} /\ buf[i].type = "vlan"

\* The tags that are skipped are the only ones that can be.
LEMMA EthernetIs ==
  ASSUME NEW buf, NEW m \in 0..MaxVlanTags, \A i \in 1..m : Vlan(buf, i),
         m = MaxVlanTags \/ ~Vlan(buf, m + 1)
  PROVE  decodeEthernet(buf) =
           IF m < Len(buf) /\ buf[m + 1].k # "partial"
           THEN << [src |-> buf[1].src, type |-> buf[m + 1].type, payload |-> m + 2] >>
           ELSE <<>>
<1>. DEFINE Is(x) == (\A i \in 1..x : Vlan(buf, i)) /\ (x = MaxVlanTags \/ ~Vlan(buf, x + 1))
            c == CHOOSE x \in 0..MaxVlanTags : Is(x)
<1>1. decodeEthernet(buf) =
           IF c < Len(buf) /\ buf[c + 1].k # "partial"
           THEN << [src |-> buf[1].src, type |-> buf[c + 1].type, payload |-> c + 2] >>
           ELSE <<>>
  BY DEF decodeEthernet, Vlan
<1>2. c \in 0..MaxVlanTags /\ Is(c)
  <2>1. \E x \in 0..MaxVlanTags : Is(x)
    OBVIOUS
  <2>. HIDE DEF Is
  <2>. QED BY <2>1
<1>. HIDE DEF c
<1>3. ASSUME NEW x \in 0..MaxVlanTags, NEW y \in 0..MaxVlanTags, Is(x), Is(y) PROVE ~(x < y)
  <2>. SUFFICES ASSUME x < y PROVE FALSE
    OBVIOUS
  <2>1. x + 1 \in 1..y /\ x # MaxVlanTags
    BY DEF MaxVlanTags
  <2>. QED BY <1>3, <2>1
<1>4. Is(m)
  OBVIOUS
<1>. HIDE DEF Is
<1>5. ~(c < m) /\ ~(m < c)
  BY <1>2, <1>3, <1>4
<1>6. c = m
  BY <1>2, <1>5 DEF MaxVlanTags
<1>. QED BY <1>1, <1>6

TypeAt(f, i) == IF i <= f.tags THEN "vlan" ELSE EtherType(f.body)

\* Where the parts of a frame stand.
LEMMA FrameStands ==
  ASSUME NEW f, f.tags \in Nat, IsSeq(EncodeBody(f.body))
  PROVE  /\ IsSeq(Encode(f))
         /\ Len(Encode(f)) = f.tags + 1 + Len(EncodeBody(f.body))
         /\ Encode(f)[1] = [k |-> "eth", src |-> f.mac, type |-> TypeAt(f, 1)]
         /\ \A i \in 1..f.tags : Encode(f)[i + 1] = [k |-> "tag", type |-> TypeAt(f, i + 1)]
         /\ Stands(EncodeBody(f.body), f.tags + 2, Encode(f))
<1>. DEFINE head == [k |-> "eth", src |-> f.mac, type |-> TypeAt(f, 1)]
            tags == [i \in 1..f.tags |-> [k |-> "tag", type |-> TypeAt(f, i + 1)]]
            body == EncodeBody(f.body)
            cells == Encode(f)
<1>1. cells = (<< head >> \o tags) \o body
  BY DEF Encode, TypeAt
<1>2. /\ IsSeq(tags) /\ Len(tags) = f.tags
      /\ \A i \in 1..f.tags : tags[i] = [k |-> "tag", type |-> TypeAt(f, i + 1)]
  <2>1. tags = [i \in 1..f.tags |-> tags[i]]
    OBVIOUS
  <2>2. \A i \in 1..f.tags : tags[i] = [k |-> "tag", type |-> TypeAt(f, i + 1)]
    OBVIOUS
  <2>. HIDE DEF tags
  <2>. QED BY <2>1, <2>2, SeqOfFunction
<1>. HIDE DEF tags, head, body, cells
<1>3. IsSeq(<< head >>) /\ Len(<< head >>) = 1 /\ << head >>[1] = head
  BY SeqOne
<1>4. /\ IsSeq(<< head >> \o tags) /\ Len(<< head >> \o tags) = 1 + f.tags
      /\ \A i \in 1..1 : (<< head >> \o tags)[i] = << head >>[i]
      /\ \A i \in 1..f.tags : (<< head >> \o tags)[1 + i] = tags[i]
  BY <1>2, <1>3, SeqConcat
<1>5. IsSeq(body) /\ Len(body) \in Nat
  BY SeqIsFunction DEF body
<1>. DEFINE front == << head >> \o tags
<1>. HIDE DEF front
<1>60. IsSeq(front) /\ Len(front) = 1 + f.tags /\ cells = front \o body
  BY <1>1, <1>4 DEF front
<1>61. /\ IsSeq(front \o body) /\ Len(front \o body) = Len(front) + Len(body)
       /\ \A i \in 1..Len(front) : (front \o body)[i] = front[i]
       /\ \A i \in 1..Len(body) : (front \o body)[Len(front) + i] = body[i]
  <2>1. IsSeq(front)
    BY <1>60
  <2>2. IsSeq(body)
    BY <1>5
  <2>. QED BY <2>1, <2>2, SeqConcat
<1>6. /\ IsSeq(cells) /\ Len(cells) = (1 + f.tags) + Len(body)
      /\ \A i \in 1..(1 + f.tags) : cells[i] = (<< head >> \o tags)[i]
      /\ \A i \in 1..Len(body) : cells[(1 + f.tags) + i] = body[i]
  BY <1>60, <1>61 DEF front
<1>7. cells[1] = head
  <2>1. 1 \in 1..1 /\ 1 \in 1..(1 + f.tags)
    OBVIOUS
  <2>. QED BY <2>1, <1>3, <1>4, <1>6
<1>8. \A i \in 1..f.tags : cells[i + 1] = [k |-> "tag", type |-> TypeAt(f, i + 1)]
  <2>1. \A i \in 1..f.tags : i + 1 \in 1..(1 + f.tags) /\ i + 1 = 1 + i
    OBVIOUS
  <2>. QED BY <2>1, <1>2, <1>4, <1>6
<1>9. Stands(body, f.tags + 2, cells)
  <2>1. \A i \in 1..Len(body) : (f.tags + 2) - 1 + i = (1 + f.tags) + i
    BY <1>5
  <2>2. (f.tags + 2) + Len(body) <= Len(cells) + 1
    BY <1>5, <1>6
  <2>. QED BY <1>6, <2>1, <2>2 DEF Stands
<1>10. Len(cells) = f.tags + 1 + Len(body)
  BY <1>5, <1>6
<1>. QED BY <1>6, <1>7, <1>8, <1>9, <1>10 DEF head, body, cells

EthernetHeader(f) == [src |-> f.mac, type |-> EtherType(f.body), payload |-> f.tags + 2]

\* decodeEthernet skips the tags: at most MaxVlanTags, and only those that came.
LEMMA EthernetShown ==
  ASSUME NEW f, f.tags \in Nat, IsSeq(EncodeBody(f.body)), EncodeBody(f.body) # <<>>,
         NEW buf, NEW n, Shows(buf, Encode(f), n)
  PROVE  LET eth == decodeEthernet(buf) IN
         /\ f.tags <= MaxVlanTags /\ n > f.tags => eth = << EthernetHeader(f) >>
         /\ f.tags <= MaxVlanTags /\ n <= f.tags => eth = <<>>
         /\ f.tags > MaxVlanTags => eth = <<>> \/ eth[1].type = "vlan"
<1>. DEFINE cells == Encode(f)
            body == EncodeBody(f.body)
<1>1. /\ IsSeq(cells) /\ Len(cells) = f.tags + 1 + Len(body)
      /\ cells[1] = [k |-> "eth", src |-> f.mac, type |-> TypeAt(f, 1)]
      /\ \A i \in 1..f.tags : cells[i + 1] = [k |-> "tag", type |-> TypeAt(f, i + 1)]
  BY FrameStands
<1>. HIDE DEF cells, body
<1>2. /\ n \in Nat /\ Len(buf) \in Nat /\ n <= Len(buf) /\ Len(buf) <= n + 1
      /\ \A i \in 1..n : buf[i] = cells[i]
      /\ Len(buf) = n + 1 => buf[n + 1].k = "partial"
  BY <1>1, SeqIsFunction DEF Shows, cells
<1>3. ASSUME NEW i \in 1..(f.tags + 1)
      PROVE  cells[i].k \in {"eth", "tag"} /\ cells[i].type = TypeAt(f, i)
  <2>1. CASE i = 1
    BY <2>1, <1>1
  <2>2. CASE i # 1
    <3>1. i - 1 \in 1..f.tags /\ (i - 1) + 1 = i
      BY <2>2
    <3>2. cells[i] = [k |-> "tag", type |-> TypeAt(f, i)]
      BY <1>1, <3>1
    <3>. QED BY <3>2
  <2>. QED BY <2>1, <2>2
<1>4. ASSUME NEW i \in 1..(f.tags + 1), i <= n
      PROVE  Vlan(buf, i) <=> i <= f.tags
  <2>1. buf[i] = cells[i] /\ i <= Len(buf)
    BY <1>2, <1>4
  <2>2. EtherType(f.body) # "vlan"
    BY DEF EtherType
  <2>. QED BY <1>3, <2>1, <2>2 DEF Vlan, TypeAt
<1>5. ~Vlan(buf, n + 1)
  BY <1>2 DEF Vlan
<1>6. ASSUME n <= f.tags, n <= MaxVlanTags PROVE decodeEthernet(buf) = <<>>
  <2>1. n \in 0..MaxVlanTags
    BY <1>2, <1>6 DEF MaxVlanTags
  <2>2. \A i \in 1..n : Vlan(buf, i)
    BY <1>2, <1>4, <1>6
  <2>3. ~(n < Len(buf) /\ buf[n + 1].k # "partial")
    BY <1>2
  <2>4. decodeEthernet(buf) = <<>>
    BY <2>1, <2>2, <2>3, <1>5, EthernetIs
  <2>. QED BY <2>4
<1>7. ASSUME n > f.tags, f.tags <= MaxVlanTags PROVE decodeEthernet(buf) = << EthernetHeader(f) >>
  <2>1. f.tags \in 0..MaxVlanTags /\ f.tags + 1 \in 1..(f.tags + 1) /\ f.tags + 1 <= n
    BY <1>2, <1>7 DEF MaxVlanTags
  <2>2. \A i \in 1..f.tags : Vlan(buf, i)
    BY <1>2, <1>4, <1>7
  <2>3. ~Vlan(buf, f.tags + 1)
    BY <1>4, <2>1
  <2>4. buf[f.tags + 1] = cells[f.tags + 1] /\ buf[1] = cells[1] /\ f.tags < Len(buf)
    BY <1>2, <2>1
  <2>5. buf[f.tags + 1].k # "partial" /\ buf[f.tags + 1].type = EtherType(f.body)
    BY <1>3, <2>1, <2>4 DEF TypeAt
  <2>6. buf[1].src = f.mac
    BY <1>1, <2>4
  <2>7. decodeEthernet(buf) =
          << [src |-> buf[1].src, type |-> buf[f.tags + 1].type, payload |-> f.tags + 2] >>
    BY <2>1, <2>2, <2>3, <2>4, <2>5, EthernetIs
  <2>8. decodeEthernet(buf) = << EthernetHeader(f) >>
    BY <2>5, <2>6, <2>7 DEF EthernetHeader
  <2>. QED BY <2>8
<1>8. ASSUME n > MaxVlanTags, f.tags > MaxVlanTags PROVE decodeEthernet(buf)[1].type = "vlan"
  <2>1. MaxVlanTags \in 0..MaxVlanTags /\ 3 \in 1..(f.tags + 1) /\ 3 <= n /\ 3 <= f.tags
    BY <1>2, <1>8 DEF MaxVlanTags
  <2>2. \A i \in 1..MaxVlanTags : Vlan(buf, i)
    BY <1>2, <1>4, <1>8 DEF MaxVlanTags
  <2>3. buf[3] = cells[3] /\ MaxVlanTags < Len(buf) /\ MaxVlanTags + 1 = 3
    BY <1>2, <1>8, <2>1 DEF MaxVlanTags
  <2>4. buf[3].k # "partial" /\ buf[3].type = "vlan"
    BY <1>3, <2>1, <2>3 DEF TypeAt
  <2>5. decodeEthernet(buf) =
          << [src |-> buf[1].src, type |-> buf[3].type, payload |-> MaxVlanTags + 2] >>
    BY <2>1, <2>2, <2>3, <2>4, EthernetIs
  <2>6. decodeEthernet(buf)[1].type = "vlan"
    BY <2>4, <2>5
  <2>. QED BY <2>6
<1>. DEFINE eth == decodeEthernet(buf)
            all == << EthernetHeader(f) >>
<1>. HIDE DEF eth, all
<1>9. /\ n <= f.tags /\ n <= MaxVlanTags => eth = <<>>
      /\ n > f.tags /\ f.tags <= MaxVlanTags => eth = all
      /\ n > MaxVlanTags /\ f.tags > MaxVlanTags => eth[1].type = "vlan"
  BY <1>6, <1>7, <1>8 DEF eth, all
<1>10. /\ f.tags <= MaxVlanTags /\ n > f.tags => eth = all
       /\ f.tags <= MaxVlanTags /\ n <= f.tags => eth = <<>>
       /\ f.tags > MaxVlanTags => eth = <<>> \/ eth[1].type = "vlan"
  BY <1>2, <1>9 DEF MaxVlanTags
<1>. QED BY <1>10 DEF eth, all

-----------------------------------------------------------------------------
(* ARP *)

\* decodeArp and extractArp tell what the message says, if it came.
LEMMA ArpShown ==
  ASSUME NEW b, b.kind = "arp", WellFormedArp(b), NEW cells, IsSeq(cells), NEW o \in Nat \ {0},
         Stands(EncodeBody(b), o, cells), NEW buf, NEW n, Shows(buf, cells, n)
  PROVE  LET arp == decodeArp(buf, o) IN
         /\ o <= Len(cells)
         /\ o > n => arp = <<>>
         /\ o <= n => /\ arp # <<>>
                      /\ extractArp(arp[1]) =
                           << Fact("arp", b.mac, b.ip, None,
                                   <<b.operation, b.ip # Zero /\ b.ip = b.target>>) >>
<1>. DEFINE cell == [k |-> "arp", ethernetIpv4 |-> TRUE, operation |-> b.operation,
                     mac |-> b.mac, ip |-> b.ip, target |-> b.target]
            read == [mac |-> b.mac, ip |-> b.ip, gratuitous |-> gratuitous(cell),
                     operation |-> b.operation]
<1>1. EncodeBody(b) = << cell >>
  BY DEF EncodeBody
<1>2. cell.k = "arp" /\ cell.operation = b.operation /\ cell.mac = b.mac /\ cell.ip = b.ip
      /\ cell.target = b.target
  OBVIOUS
<1>3. cell.ethernetIpv4
  BY Zenon
<1>. HIDE DEF cell
<1>4. Len(<< cell >>) = 1 /\ << cell >>[1] = cell
  BY SeqOne
<1>5. n \in Nat /\ Len(cells) \in Nat /\ n <= Len(cells)
  BY SeqIsFunction DEF Shows
<1>6. o <= Len(cells) /\ cells[o] = cell
  <2>1. o + 1 <= Len(cells) + 1 /\ cells[o - 1 + 1] = cell
    BY <1>1, <1>4 DEF Stands
  <2>2. o - 1 + 1 = o
    OBVIOUS
  <2>. QED BY <1>5, <2>1, <2>2
<1>7. Holds(buf, o, "arp") <=> o <= n
  BY <1>2, <1>6, HoldsShown
<1>8. ASSUME o > n PROVE decodeArp(buf, o) = <<>>
  <2>1. ~Holds(buf, o, "arp")
    BY <1>5, <1>7, <1>8
  <2>. QED BY <2>1 DEF decodeArp
<1>9. ASSUME o <= n PROVE decodeArp(buf, o) = << read >>
  <2>1. buf[o] = cell
    <3>1. o \in 1..n
      BY <1>5, <1>9
    <3>. QED BY <1>6, <3>1 DEF Shows
  <2>2. Holds(buf, o, "arp") /\ buf[o].ethernetIpv4
    BY <1>3, <1>7, <1>9, <2>1
  <2>3. decodeArp(buf, o) = << [mac |-> buf[o].mac, ip |-> buf[o].ip,
                                gratuitous |-> gratuitous(buf[o]),
                                operation |-> buf[o].operation] >>
    BY <2>2 DEF decodeArp
  <2>. QED BY <1>2, <2>1, <2>3
<1>10. read.mac = b.mac /\ read.ip = b.ip /\ read.gratuitous = gratuitous(cell)
       /\ read.operation = b.operation
  OBVIOUS
<1>11. gratuitous(cell) = (b.ip # Zero /\ b.ip = b.target)
  <2>1. gratuitous(cell) = (b.ip = b.target /\ b.ip # Zero)
    BY <1>2 DEF gratuitous
  <2>2. (b.ip = b.target /\ b.ip # Zero) = (b.ip # Zero /\ b.ip = b.target)
    OBVIOUS
  <2>. QED BY <2>1, <2>2, Zenon
<1>. HIDE DEF read
<1>. DEFINE op == IF read.operation = "reply" THEN "reply" ELSE "request"
            g == b.ip # Zero /\ b.ip = b.target
<1>12. op = b.operation
  BY <1>10 DEF WellFormedArp
<1>13. extractArp(read) = << Fact("arp", b.mac, b.ip, None, <<b.operation, g>>) >>
  <2>1. extractArp(read) = << [kind |-> "arp", mac |-> read.mac, ip |-> read.ip, name |-> None,
                               as |-> <<op, read.gratuitous>>] >>
    BY DEF extractArp
  <2>2. read.gratuitous = g
    BY <1>10, <1>11, Zenon
  <2>. HIDE DEF op, g
  <2>. QED BY <1>10, <1>12, <2>1, <2>2 DEF Fact
<1>. HIDE DEF op, g
<1>14. << read >> # <<>> /\ << read >>[1] = read
  OBVIOUS
<1>. QED BY <1>6, <1>8, <1>9, <1>13, <1>14 DEF g

-----------------------------------------------------------------------------
(* IPv6 *)

\* The first of the longest runs of zero groups.
LEMMA LongestRun ==
  ASSUME NEW Runs, Runs \subseteq (1..8) \X (2..8), Runs # {}
  PROVE  \E r \in Runs : \A q \in Runs : q[2] < r[2] \/ (q[2] = r[2] /\ q[1] >= r[1])
<1>. DEFINE Short == {8 - q[2] : q \in Runs}
<1>1. \A q \in Runs : q[1] \in 1..8 /\ q[2] \in 2..8
  OBVIOUS
<1>2. Short \subseteq Nat /\ Short # {}
  BY <1>1
<1>3. PICK s \in Short : \A y \in Short : s <= y
  <2>. HIDE DEF Short
  <2>. QED BY <1>2, LeastNatural
<1>4. PICK best \in Runs : s = 8 - best[2]
  BY <1>3
<1>. DEFINE l == best[2]
            Firsts == {q[1] : q \in {p \in Runs : p[2] = l}}
<1>5. \A q \in Runs : q[2] <= l
  <2>. TAKE q \in Runs
  <2>1. 8 - q[2] \in Short
    OBVIOUS
  <2>2. 8 - best[2] <= 8 - q[2]
    BY <1>3, <1>4, <2>1
  <2>. QED BY <1>1, <2>2
<1>6. Firsts \subseteq Nat /\ Firsts # {}
  BY <1>1
<1>7. PICK first \in Firsts : \A y \in Firsts : first <= y
  <2>. HIDE DEF Firsts
  <2>. QED BY <1>6, LeastNatural
<1>8. PICK r \in Runs : r[2] = l /\ r[1] = first
  BY <1>7
<1>9. ASSUME NEW q \in Runs PROVE q[2] < r[2] \/ (q[2] = r[2] /\ q[1] >= r[1])
  <2>1. CASE q[2] = l
    <3>1. q[1] \in Firsts
      BY <2>1
    <3>2. first <= q[1]
      BY <1>7, <3>1
    <3>. QED BY <1>1, <1>8, <2>1, <3>2
  <2>2. CASE q[2] # l
    BY <1>1, <1>5, <1>8, <2>2
  <2>. QED BY <2>1, <2>2
<1>. QED BY <1>9

\* t begins behind the m elements of s.
Joined(s, t, m, n) ==
  /\ IsSeq(s \o t)
  /\ Len(s \o t) = m + n
  /\ \A i \in 1..m : (s \o t)[i] = s[i]
  /\ \A i \in 1..n : (s \o t)[m + i] = t[i]

LEMMA ConcatOf ==
  ASSUME NEW s, NEW t, IsSeq(s), IsSeq(t), NEW m, NEW n, Len(s) = m, Len(t) = n
  PROVE  Joined(s, t, m, n)
BY SeqConcat DEF Joined

\* An address in full is the one that was compressed.
LEMMA Expansion ==
  ASSUME NEW groups, groups \in [1..8 -> STRING \ {"::"}]
  PROVE  Expanded(compressIpv6(groups)) = groups
<1>. DEFINE Runs == {r \in (1..8) \X (2..8) :
                       r[1] + r[2] - 1 <= 8 /\ \A i \in 0..(r[2] - 1) : groups[r[1] + i] = "0"}
            best == CHOOSE r \in Runs : \A q \in Runs : q[2] < r[2] \/ (q[2] = r[2] /\ q[1] >= r[1])
<1>1. IsSeq(groups) /\ Len(groups) = 8 /\ \A i \in 1..8 : groups[i] # "::"
  <2>1. groups = [i \in 1..8 |-> groups[i]]
    OBVIOUS
  <2>2. IsSeq(groups) /\ Len(groups) = 8
    BY <2>1, SeqOfFunction
  <2>. QED BY <2>2
<1>2. compressIpv6(groups) = IF Runs = {} THEN groups
                             ELSE SubSeq(groups, 1, best[1] - 1) \o <<"::">> \o
                                  SubSeq(groups, best[1] + best[2], 8)
  BY <1>1 DEF compressIpv6
<1>3. CASE Runs = {}
  <2>1. compressIpv6(groups) = groups
    BY <1>2, <1>3
  <2>2. {i \in 1..Len(groups) : groups[i] = "::"} = {}
    BY <1>1
  <2>. QED BY <2>1, <2>2 DEF Expanded
<1>4. CASE Runs # {}
  <2>1. best \in Runs
    <3>1. Runs \subseteq (1..8) \X (2..8)
      OBVIOUS
    <3>. HIDE DEF Runs
    <3>. QED BY <1>4, <3>1, LongestRun
  <2>. DEFINE s == best[1]
              l == best[2]
              front == SubSeq(groups, 1, s - 1)
              back == SubSeq(groups, s + l, 8)
              gap == <<"::">>
              ip == front \o gap \o back
  <2>2. s \in 1..8 /\ l \in 2..8 /\ s + l - 1 <= 8 /\ \A i \in 0..(l - 1) : groups[s + i] = "0"
    <3>. HIDE DEF best
    <3>. QED BY <2>1
  <2>3. compressIpv6(groups) = ip
    BY <1>2, <1>4
  <2>. HIDE DEF Runs, best, s, l
  <2>4. IsSeq(front) /\ Len(front) = s - 1 /\ \A i \in 1..(s - 1) : front[i] = groups[i]
    <3>1. 1 \in Int /\ s - 1 \in Int /\ (IF 1 <= s - 1 THEN s - 1 - 1 + 1 ELSE 0) = s - 1
      BY <2>2
    <3>2. \A i \in 1..(s - 1) : i \in 1..(s - 1 - 1 + 1) /\ 1 + i - 1 = i
      BY <2>2
    <3>. QED BY <3>1, <3>2, SeqSubSeq
  <2>5. IsSeq(back) /\ Len(back) = 9 - s - l /\ \A i \in 1..(9 - s - l) : back[i] = groups[s + l - 1 + i]
    <3>1. s + l \in Int /\ 8 \in Int
          /\ (IF s + l <= 8 THEN 8 - (s + l) + 1 ELSE 0) = 9 - s - l
      BY <2>2
    <3>2. \A i \in 1..(9 - s - l) : i \in 1..(8 - (s + l) + 1) /\ s + l + i - 1 = s + l - 1 + i
      BY <2>2
    <3>. QED BY <3>1, <3>2, SeqSubSeq
  <2>6. IsSeq(gap) /\ Len(gap) = 1 /\ gap[1] = "::"
    BY SeqOne
  <2>. DEFINE fg == front \o gap
  <2>7. IsSeq(fg) /\ Len(fg) = s /\ fg[s] = "::" /\ \A i \in 1..(s - 1) : fg[i] = groups[i]
    <3>. HIDE DEF front, gap
    <3>1. /\ IsSeq(front \o gap) /\ Len(front \o gap) = (s - 1) + 1
          /\ \A i \in 1..(s - 1) : (front \o gap)[i] = front[i]
          /\ \A i \in 1..1 : (front \o gap)[(s - 1) + i] = gap[i]
      <4>1. IsSeq(front) /\ Len(front) = s - 1
        BY <2>4
      <4>2. IsSeq(gap) /\ Len(gap) = 1
        BY <2>6
      <4>3. Joined(front, gap, s - 1, 1)
        BY <4>1, <4>2, ConcatOf
      <4>. QED BY <4>3 DEF Joined
    <3>2. (s - 1) + 1 = s /\ 1 \in 1..1
      BY <2>2
    <3>. QED BY <2>4, <2>6, <3>1, <3>2
  <2>8. /\ IsSeq(ip) /\ Len(ip) = 9 - l /\ ip[s] = "::"
        /\ \A i \in 1..(s - 1) : ip[i] = groups[i]
        /\ \A i \in 1..(9 - s - l) : ip[s + i] = groups[s + l - 1 + i]
    <3>. HIDE DEF fg, back
    <3>1. /\ IsSeq(fg \o back) /\ Len(fg \o back) = s + (9 - s - l)
          /\ \A i \in 1..s : (fg \o back)[i] = fg[i]
          /\ \A i \in 1..(9 - s - l) : (fg \o back)[s + i] = back[i]
      <4>1. IsSeq(fg) /\ Len(fg) = s
        BY <2>7
      <4>2. IsSeq(back) /\ Len(back) = 9 - s - l
        BY <2>5
      <4>3. Joined(fg, back, s, 9 - s - l)
        BY <4>1, <4>2, ConcatOf
      <4>. QED BY <4>3 DEF Joined
    <3>2. ip = fg \o back
      BY DEF fg
    <3>3. s + (9 - s - l) = 9 - l /\ s \in 1..s /\ \A i \in 1..(s - 1) : i \in 1..s
      BY <2>2
    <3>. HIDE DEF ip
    <3>. QED BY <2>5, <2>7, <3>1, <3>2, <3>3
  <2>. HIDE DEF ip, front, back, gap, fg
  <2>9. {i \in 1..Len(ip) : ip[i] = "::"} = {s}
    <3>1. s \in 1..(9 - l)
      BY <2>2
    <3>2. ASSUME NEW i \in 1..(9 - l), ip[i] = "::" PROVE i = s
      <4>1. CASE i < s
        <5>1. i \in 1..(s - 1) /\ i \in 1..8
          BY <2>2, <4>1
        <5>. QED BY <1>1, <2>8, <3>2, <5>1
      <4>2. CASE i > s
        <5>1. i - s \in 1..(9 - s - l) /\ s + (i - s) = i /\ s + l - 1 + (i - s) \in 1..8
          BY <2>2, <4>2
        <5>2. ip[i] = groups[s + l - 1 + (i - s)]
          BY <2>8, <5>1
        <5>. QED BY <1>1, <3>2, <5>1, <5>2
      <4>. QED BY <2>2, <4>1, <4>2
    <3>. QED BY <2>8, <3>1, <3>2
  <2>. DEFINE f1 == SubSeq(ip, 1, s - 1)
              zeros == [j \in 1..l |-> "0"]
              b1 == SubSeq(ip, s + 1, 9 - l)
  <2>10. Expanded(ip) = f1 \o zeros \o b1
    <3>. DEFINE gaps == {i \in 1..Len(ip) : ip[i] = "::"}
                g == CHOOSE x \in gaps : TRUE
    <3>1. Expanded(ip) = IF gaps = {} THEN ip
                         ELSE SubSeq(ip, 1, g - 1) \o [j \in 1..(9 - Len(ip)) |-> "0"]
                              \o SubSeq(ip, g + 1, Len(ip))
      BY DEF Expanded
    <3>2. gaps = {s}
      BY <2>9
    <3>. HIDE DEF gaps
    <3>3. g = s
      BY <3>2
    <3>4. 9 - (9 - l) = l
      BY <2>2
    <3>. HIDE DEF g
    <3>. QED BY <2>8, <3>1, <3>2, <3>3, <3>4
  <2>11. IsSeq(f1) /\ Len(f1) = s - 1 /\ \A i \in 1..(s - 1) : f1[i] = groups[i]
    <3>1. 1 \in Int /\ s - 1 \in Int /\ (IF 1 <= s - 1 THEN s - 1 - 1 + 1 ELSE 0) = s - 1
      BY <2>2
    <3>2. \A i \in 1..(s - 1) : i \in 1..(s - 1 - 1 + 1) /\ 1 + i - 1 = i
      BY <2>2
    <3>3. IsSeq(f1) /\ Len(f1) = s - 1 /\ \A i \in 1..(s - 1) : f1[i] = ip[i]
      BY <3>1, <3>2, SeqSubSeq
    <3>. QED BY <2>8, <3>3
  <2>12. IsSeq(b1) /\ Len(b1) = 9 - s - l /\ \A i \in 1..(9 - s - l) : b1[i] = groups[s + l - 1 + i]
    <3>1. s + 1 \in Int /\ 9 - l \in Int
          /\ (IF s + 1 <= 9 - l THEN (9 - l) - (s + 1) + 1 ELSE 0) = 9 - s - l
      BY <2>2
    <3>2. \A i \in 1..(9 - s - l) : i \in 1..((9 - l) - (s + 1) + 1) /\ s + 1 + i - 1 = s + i
      BY <2>2
    <3>3. IsSeq(b1) /\ Len(b1) = 9 - s - l /\ \A i \in 1..(9 - s - l) : b1[i] = ip[s + i]
      BY <3>1, <3>2, SeqSubSeq
    <3>. QED BY <2>8, <3>3
  <2>13. IsSeq(zeros) /\ Len(zeros) = l /\ \A i \in 1..l : zeros[i] = "0"
    <3>1. zeros = [j \in 1..l |-> zeros[j]] /\ l \in Nat /\ \A i \in 1..l : zeros[i] = "0"
      BY <2>2
    <3>. HIDE DEF zeros
    <3>. QED BY <3>1, SeqOfFunction
  <2>. HIDE DEF f1, zeros, b1
  <2>. DEFINE fz == f1 \o zeros
  <2>14. /\ IsSeq(fz) /\ Len(fz) = (s - 1) + l
         /\ \A i \in 1..(s - 1) : fz[i] = groups[i]
         /\ \A i \in 1..l : fz[(s - 1) + i] = "0"
    <3>1. /\ IsSeq(f1 \o zeros) /\ Len(f1 \o zeros) = (s - 1) + l
          /\ \A i \in 1..(s - 1) : (f1 \o zeros)[i] = f1[i]
          /\ \A i \in 1..l : (f1 \o zeros)[(s - 1) + i] = zeros[i]
      <4>1. IsSeq(f1) /\ Len(f1) = s - 1
        BY <2>11
      <4>2. IsSeq(zeros) /\ Len(zeros) = l
        BY <2>13
      <4>3. Joined(f1, zeros, s - 1, l)
        BY <4>1, <4>2, ConcatOf
      <4>. QED BY <4>3 DEF Joined
    <3>. QED BY <2>11, <2>13, <3>1
  <2>15. fz \o b1 = Expanded(ip)
    BY <2>10
  <2>. HIDE DEF fz
  <2>16. /\ IsSeq(fz \o b1) /\ Len(fz \o b1) = ((s - 1) + l) + (9 - s - l)
         /\ \A i \in 1..((s - 1) + l) : (fz \o b1)[i] = fz[i]
         /\ \A i \in 1..(9 - s - l) : (fz \o b1)[((s - 1) + l) + i] = b1[i]
    <3>1. IsSeq(fz) /\ Len(fz) = (s - 1) + l
      BY <2>14
    <3>2. IsSeq(b1) /\ Len(b1) = 9 - s - l
      BY <2>12
    <3>3. Joined(fz, b1, (s - 1) + l, 9 - s - l)
      BY <3>1, <3>2, ConcatOf
    <3>. QED BY <3>3 DEF Joined
  <2>17. ((s - 1) + l) + (9 - s - l) = 8
    BY <2>2
  <2>18. ASSUME NEW i \in 1..8 PROVE (fz \o b1)[i] = groups[i]
    <3>1. CASE i < s
      <4>1. i \in 1..((s - 1) + l) /\ i \in 1..(s - 1)
        BY <2>2, <3>1
      <4>. QED BY <2>14, <2>16, <4>1
    <3>2. CASE i >= s /\ i < s + l
      <4>1. i \in 1..((s - 1) + l) /\ i - s + 1 \in 1..l /\ (s - 1) + (i - s + 1) = i
            /\ i - s \in 0..(l - 1) /\ s + (i - s) = i
        BY <2>2, <3>2
      <4>2. groups[i] = "0"
        BY <2>2, <4>1
      <4>3. fz[i] = "0"
        BY <2>14, <4>1
      <4>. QED BY <2>16, <4>1, <4>2, <4>3
    <3>3. CASE i >= s + l
      <4>. DEFINE x == i - s - l + 1
      <4>1. x \in 1..(9 - s - l) /\ ((s - 1) + l) + x = i /\ s + l - 1 + x = i
        BY <2>2, <3>3
      <4>. HIDE DEF x
      <4>2. (fz \o b1)[i] = b1[x] /\ b1[x] = groups[i]
        BY <2>12, <2>16, <4>1
      <4>. QED BY <4>2
    <3>4. i < s \/ (i >= s /\ i < s + l) \/ i >= s + l
      BY <2>2
    <3>. QED BY <3>1, <3>2, <3>3, <3>4
  <2>19. fz \o b1 = groups
    BY <1>1, <2>16, <2>17, <2>18, SeqsEqual
  <2>. QED BY <2>3, <2>15, <2>19
<1>. QED BY <1>3, <1>4

-----------------------------------------------------------------------------
(* Neighbour discovery *)

\* extractNdp tells the source and the link-layer address, if they came.
LEMMA NdpShown ==
  ASSUME NEW b, b.kind = "ndp", WellFormedNdp(b), NEW cells, IsSeq(cells), NEW o \in Nat \ {0},
         Stands(EncodeBody(b), o, cells), NEW buf, NEW n, Shows(buf, cells, n)
  PROVE  /\ o + 2 <= Len(cells)
         /\ o + 2 > n => extractNdp(buf, o) = <<>>
         /\ o + 2 <= n => extractNdp(buf, o) =
                            << Fact("ndp", b.mac, compressIpv6(b.groups), None, b.type) >>
<1>. DEFINE ip6 == [k |-> "ip6", src |-> b.groups]
            icmp == [k |-> "icmp", type |-> b.type]
            ll == [k |-> "ll", mac |-> b.mac]
            body == << ip6, icmp, ll >>
<1>1. EncodeBody(b) = body
  BY DEF EncodeBody
<1>2. /\ ip6.k = "ip6" /\ ip6.src = b.groups /\ icmp.k = "icmp" /\ icmp.type = b.type
      /\ ll.k = "ll" /\ ll.mac = b.mac
  OBVIOUS
<1>3. Len(body) = 3 /\ body[1] = ip6 /\ body[2] = icmp /\ body[3] = ll
  BY SeqThree
<1>. HIDE DEF ip6, icmp, ll, body
<1>4. n \in Nat /\ Len(cells) \in Nat /\ n <= Len(cells) /\ \A i \in 1..n : buf[i] = cells[i]
  BY SeqIsFunction DEF Shows
<1>5. o + 2 <= Len(cells) /\ cells[o] = ip6 /\ cells[o + 1] = icmp /\ cells[o + 2] = ll
  <2>1. o + Len(body) <= Len(cells) + 1 /\ \A i \in 1..Len(body) : cells[o - 1 + i] = body[i]
    BY <1>1 DEF Stands
  <2>2. 1 \in 1..3 /\ 2 \in 1..3 /\ 3 \in 1..3
    OBVIOUS
  <2>3. cells[o - 1 + 1] = ip6 /\ cells[o - 1 + 2] = icmp /\ cells[o - 1 + 3] = ll
    BY <1>3, <2>1, <2>2
  <2>4. o - 1 + 1 = o /\ o - 1 + 2 = o + 1 /\ o - 1 + 3 = o + 2
    OBVIOUS
  <2>5. o + 3 <= Len(cells) + 1
    BY <1>3, <2>1
  <2>. QED BY <1>4, <2>3, <2>4, <2>5
<1>6. o + 1 \in Nat \ {0} /\ o + 2 \in Nat \ {0}
  OBVIOUS
<1>7. /\ Holds(buf, o, "ip6") <=> o <= n
      /\ Holds(buf, o + 1, "icmp") <=> o + 1 <= n
      /\ Holds(buf, o + 2, "ll") <=> o + 2 <= n
  BY <1>2, <1>5, <1>6, HoldsShown
<1>8. ASSUME o + 2 > n PROVE extractNdp(buf, o) = <<>>
  <2>1. ~Holds(buf, o + 2, "ll")
    BY <1>4, <1>7, <1>8
  <2>. QED BY <2>1 DEF extractNdp
<1>9. ASSUME o + 2 <= n
      PROVE  extractNdp(buf, o) =
               << Fact("ndp", b.mac, compressIpv6(b.groups), None, b.type) >>
  <2>1. o \in 1..n /\ o + 1 \in 1..n /\ o + 2 \in 1..n
    BY <1>4, <1>9
  <2>2. buf[o] = ip6 /\ buf[o + 1] = icmp /\ buf[o + 2] = ll
    BY <1>4, <1>5, <2>1
  <2>3. /\ Holds(buf, o, "ip6") /\ Holds(buf, o + 1, "icmp") /\ Holds(buf, o + 2, "ll")
        /\ buf[o + 1].type \in {"solicitation", "advertisement"}
    BY <1>2, <1>7, <2>1, <2>2 DEF WellFormedNdp
  <2>4. extractNdp(buf, o) =
          << [kind |-> "ndp", mac |-> buf[o + 2].mac, ip |-> compressIpv6(buf[o].src),
              name |-> None, as |-> buf[o + 1].type] >>
    BY <2>3 DEF extractNdp
  <2>. QED BY <1>2, <2>2, <2>4 DEF Fact
<1>. QED BY <1>5, <1>8, <1>9

-----------------------------------------------------------------------------
(* IPv4 and UDP *)

Ip4Header(b) ==
  [k |-> "ip4", ihl |-> b.ihl, src |-> b.ip,
   protocol |-> IF b.kind = "other" THEN "tcp" ELSE "udp"]
Ip4Payload(b) ==
  CASE b.kind = "dhcp" -> (IF b.as = "ack" THEN Server ELSE Client) \o EncodeDhcp(b)
    [] b.kind = "mdns" -> Udp(b.port, 5353) \o EncodeMdns(b)
    [] b.kind = "other" -> << [k |-> "tcp"] >>

LEMMA Ip4Seq ==
  ASSUME NEW b, b.kind \notin {"arp", "ndp"}, b.ihl \in Nat \ {0}, IsSeq(Ip4Payload(b))
  PROVE  /\ IsSeq(EncodeBody(b))
         /\ Len(EncodeBody(b)) = b.ihl + Len(Ip4Payload(b))
         /\ EncodeBody(b)[1] = Ip4Header(b)
         /\ \A i \in 1..Len(Ip4Payload(b)) : EncodeBody(b)[b.ihl + i] = Ip4Payload(b)[i]
<1>. DEFINE head == Ip4Header(b)
            options == [i \in 1..(b.ihl - 1) |-> [k |-> "ip option"]]
            payload == Ip4Payload(b)
            front == << head >> \o options
<1>1. EncodeBody(b) = front \o payload
  BY DEF EncodeBody, Ip4Header, Ip4Payload
<1>2. IsSeq(options) /\ Len(options) = b.ihl - 1
  <2>1. options = [i \in 1..(b.ihl - 1) |-> options[i]]
    OBVIOUS
  <2>. HIDE DEF options
  <2>2. b.ihl - 1 \in Nat
    <3>1. \A h \in Nat \ {0} : h - 1 \in Nat
      OBVIOUS
    <3>. QED BY <3>1
  <2>. QED BY <2>1, <2>2, SeqOfFunction
<1>3. IsSeq(<< head >>) /\ Len(<< head >>) = 1 /\ << head >>[1] = head
  BY SeqOne
<1>. HIDE DEF options, head
<1>4. Joined(<< head >>, options, 1, b.ihl - 1)
  BY <1>2, <1>3, ConcatOf
<1>5. IsSeq(front) /\ Len(front) = b.ihl /\ front[1] = head
  <2>1. 1 + (b.ihl - 1) = b.ihl /\ 1 \in 1..1
    OBVIOUS
  <2>. QED BY <1>3, <1>4, <2>1 DEF Joined
<1>. HIDE DEF front, payload
<1>6. Joined(front, payload, b.ihl, Len(payload))
  <2>1. IsSeq(payload)
    BY DEF payload
  <2>. QED BY <1>5, <2>1, ConcatOf
<1>7. 1 \in 1..b.ihl
  OBVIOUS
<1>. QED BY <1>1, <1>5, <1>6, <1>7 DEF Joined, head, payload

\* No cell of the header is a part of one.
LEMMA Ip4Front ==
  ASSUME NEW b, b.kind \notin {"arp", "ndp"}, b.ihl \in Nat \ {0}, IsSeq(Ip4Payload(b)),
         NEW i \in 1..b.ihl
  PROVE  EncodeBody(b)[i].k # "partial"
<1>. DEFINE head == Ip4Header(b)
            options == [x \in 1..(b.ihl - 1) |-> [k |-> "ip option"]]
            payload == Ip4Payload(b)
            front == << head >> \o options
<1>1. EncodeBody(b) = front \o payload
  BY DEF EncodeBody, Ip4Header, Ip4Payload
<1>2. IsSeq(options) /\ Len(options) = b.ihl - 1
  <2>1. options = [x \in 1..(b.ihl - 1) |-> options[x]]
    OBVIOUS
  <2>. HIDE DEF options
  <2>2. b.ihl - 1 \in Nat
    <3>1. \A h \in Nat \ {0} : h - 1 \in Nat
      OBVIOUS
    <3>. QED BY <3>1
  <2>. QED BY <2>1, <2>2, SeqOfFunction
<1>3. IsSeq(<< head >>) /\ Len(<< head >>) = 1 /\ << head >>[1] = head
  BY SeqOne
<1>4. head.k # "partial" /\ \A x \in 1..(b.ihl - 1) : options[x].k # "partial"
  BY DEF Ip4Header
<1>. HIDE DEF options, head
<1>5. Joined(<< head >>, options, 1, b.ihl - 1)
  BY <1>2, <1>3, ConcatOf
<1>6. 1 + (b.ihl - 1) = b.ihl
  OBVIOUS
<1>7. IsSeq(front) /\ Len(front) = b.ihl
  BY <1>5, <1>6 DEF Joined
<1>8. front[i].k # "partial"
  <2>1. CASE i = 1
    <3>1. 1 \in 1..1
      OBVIOUS
    <3>2. front[1] = head
      BY <1>3, <1>5, <3>1 DEF Joined
    <3>. QED BY <1>4, <2>1, <3>2
  <2>2. CASE i # 1
    <3>1. i - 1 \in 1..(b.ihl - 1) /\ 1 + (i - 1) = i
      BY <2>2
    <3>2. front[1 + (i - 1)] = options[i - 1]
      BY <1>5, <3>1 DEF Joined
    <3>. QED BY <1>4, <3>1, <3>2
  <2>. QED BY <2>1, <2>2
<1>. HIDE DEF front, payload
<1>9. Joined(front, payload, b.ihl, Len(payload))
  <2>1. IsSeq(payload)
    BY DEF payload
  <2>. QED BY <1>7, <2>1, ConcatOf
<1>10. EncodeBody(b)[i] = front[i]
  BY <1>1, <1>9 DEF Joined
<1>. QED BY <1>8, <1>10

\* decodeIpv4 finds the payload behind the options of the header.
LEMMA Ip4Shown ==
  ASSUME NEW b, b.kind \notin {"arp", "ndp"}, b.ihl \in Nat \ {0}, IsSeq(Ip4Payload(b)),
         NEW cells, IsSeq(cells), NEW o \in Nat \ {0}, Stands(EncodeBody(b), o, cells),
         NEW buf, NEW n, Shows(buf, cells, n)
  PROVE  LET all == << [src |-> b.ip, protocol |-> Ip4Header(b).protocol,
                          payload |-> o + b.ihl] >> IN
         /\ decodeIpv4(buf, o) \in {<<>>, all}
         /\ o + b.ihl <= n + 1 => decodeIpv4(buf, o) = all
         /\ Stands(Ip4Payload(b), o + b.ihl, cells)
         /\ o + Len(EncodeBody(b)) = (o + b.ihl) + Len(Ip4Payload(b))
<1>. DEFINE head == Ip4Header(b)
            payload == Ip4Payload(b)
            all == << [src |-> b.ip, protocol |-> head.protocol, payload |-> o + b.ihl] >>
<1>1. /\ Len(EncodeBody(b)) = b.ihl + Len(payload)
      /\ EncodeBody(b)[1] = head
      /\ \A i \in 1..Len(payload) : EncodeBody(b)[b.ihl + i] = payload[i]
      /\ Len(payload) \in Nat
  BY Ip4Seq, SeqIsFunction
<1>2. head.k = "ip4" /\ head.ihl = b.ihl /\ head.src = b.ip
  BY DEF Ip4Header
<1>. HIDE DEF head, payload
<1>3. /\ n \in Nat /\ Len(cells) \in Nat /\ n <= Len(cells) /\ \A i \in 1..n : buf[i] = cells[i]
      /\ Len(buf) \in Nat /\ Len(buf) >= n
  BY SeqIsFunction DEF Shows
<1>4. /\ o + (b.ihl + Len(payload)) <= Len(cells) + 1
      /\ \A i \in 1..(b.ihl + Len(payload)) : cells[o - 1 + i] = EncodeBody(b)[i]
  BY <1>1 DEF Stands
<1>5. cells[o] = head
  <2>1. 1 \in 1..(b.ihl + Len(payload)) /\ o - 1 + 1 = o
    BY <1>1
  <2>. QED BY <1>1, <1>4, <2>1
<1>6. Stands(payload, o + b.ihl, cells)
  <2>1. ASSUME NEW i \in 1..Len(payload) PROVE cells[(o + b.ihl) - 1 + i] = payload[i]
    <3>0. \A h \in Nat, l \in Nat : \A x \in 1..l :
            h + x \in 1..(h + l) /\ o - 1 + (h + x) = (o + h) - 1 + x
      OBVIOUS
    <3>1. b.ihl + i \in 1..(b.ihl + Len(payload)) /\ o - 1 + (b.ihl + i) = (o + b.ihl) - 1 + i
      BY <1>1, <3>0
    <3>. QED BY <1>1, <1>4, <3>1
  <2>2. (o + b.ihl) + Len(payload) <= Len(cells) + 1
    BY <1>1, <1>4
  <2>. QED BY <2>1, <2>2 DEF Stands
<1>7. Holds(buf, o, "ip4") <=> o <= n
  BY <1>2, <1>5, HoldsShown
<1>8. o <= n => buf[o] = head
  <2>1. o <= n => o \in 1..n
    BY <1>3
  <2>. QED BY <1>3, <1>5, <2>1
<1>. DEFINE last == o + b.ihl - 1
            Taken == o <= n /\ Len(buf) >= last /\ ~Holds(buf, last, "partial")
<1>9. ASSUME Taken PROVE decodeIpv4(buf, o) = all
  <2>1. /\ Holds(buf, o, "ip4") /\ buf[o].ihl >= 1
        /\ Len(buf) >= o + buf[o].ihl - 1 /\ ~Holds(buf, o + buf[o].ihl - 1, "partial")
    BY <1>2, <1>7, <1>8, <1>9
  <2>2. decodeIpv4(buf, o) = << [src |-> buf[o].src, protocol |-> buf[o].protocol,
                                 payload |-> payloadOf(buf[o], o)] >>
    BY <2>1 DEF decodeIpv4
  <2>3. payloadOf(buf[o], o) = o + b.ihl
    BY <1>2, <1>8, <1>9 DEF payloadOf
  <2>. QED BY <1>2, <1>8, <1>9, <2>2, <2>3
<1>10. ASSUME ~Taken PROVE decodeIpv4(buf, o) = <<>>
  <2>1. ~(/\ Holds(buf, o, "ip4") /\ buf[o].ihl >= 1
          /\ Len(buf) >= o + buf[o].ihl - 1 /\ ~Holds(buf, o + buf[o].ihl - 1, "partial"))
    BY <1>2, <1>7, <1>8, <1>10
  <2>. QED BY <2>1 DEF decodeIpv4
<1>11. o + b.ihl <= n + 1 => Taken
  <2>. SUFFICES ASSUME o + b.ihl <= n + 1 PROVE Taken
    OBVIOUS
  <2>1. o <= n /\ last \in 1..n /\ Len(buf) >= last
    <3>1. \A h \in Nat \ {0}, m \in Nat, l \in Nat : o + h <= m + 1 /\ l >= m =>
            o <= m /\ o + h - 1 \in 1..m /\ l >= o + h - 1
      OBVIOUS
    <3>. QED BY <1>3, <3>1
  <2>2. EncodeBody(b)[b.ihl].k # "partial"
    <3>1. b.ihl \in 1..b.ihl
      OBVIOUS
    <3>. QED BY <3>1, Ip4Front
  <2>3. cells[last] = EncodeBody(b)[b.ihl]
    <3>1. b.ihl \in 1..(b.ihl + Len(payload)) /\ o - 1 + b.ihl = last
      BY <1>1
    <3>. QED BY <1>4, <3>1
  <2>4. buf[last] = cells[last]
    BY <1>3, <2>1
  <2>5. ~Holds(buf, last, "partial")
    BY <2>2, <2>3, <2>4 DEF Holds
  <2>. QED BY <2>1, <2>5
<1>12. o + Len(EncodeBody(b)) = (o + b.ihl) + Len(payload)
  BY <1>1
<1>. HIDE DEF all, Taken
<1>13. decodeIpv4(buf, o) \in {<<>>, all} /\ (o + b.ihl <= n + 1 => decodeIpv4(buf, o) = all)
  BY <1>9, <1>10, <1>11
<1>. QED BY <1>6, <1>12, <1>13 DEF all, head, payload

\* decodeUdp finds the message behind the header.
LEMMA UdpShown ==
  ASSUME NEW src, NEW dst, NEW rest, IsSeq(rest), NEW cells, IsSeq(cells), NEW o \in Nat \ {0},
         Stands(Udp(src, dst) \o rest, o, cells), NEW buf, NEW n, Shows(buf, cells, n)
  PROVE  /\ Stands(rest, o + 1, cells) /\ o + Len(Udp(src, dst) \o rest) = (o + 1) + Len(rest)
         /\ decodeUdp(buf, o) = IF o <= n THEN << [src |-> src, dst |-> dst, payload |-> o + 1] >>
                                ELSE <<>>
<1>. DEFINE head == [k |-> "udp", src |-> src, dst |-> dst]
<1>1. Udp(src, dst) = << head >> /\ head.k = "udp" /\ head.src = src /\ head.dst = dst
  BY DEF Udp
<1>. HIDE DEF head
<1>2. IsSeq(<< head >>) /\ Len(<< head >>) = 1 /\ << head >>[1] = head
  BY SeqOne
<1>3. Stands(<< head >>, o, cells) /\ Stands(rest, o + 1, cells)
  BY <1>1, <1>2, ConcatStands
<1>4. n \in Nat /\ Len(cells) \in Nat /\ \A i \in 1..n : buf[i] = cells[i]
  BY SeqIsFunction DEF Shows
<1>5. cells[o] = head
  <2>1. cells[o - 1 + 1] = head /\ o - 1 + 1 = o
    BY <1>2, <1>3 DEF Stands
  <2>. QED BY <2>1
<1>6. Holds(buf, o, "udp") <=> o <= n
  BY <1>1, <1>5, HoldsShown
<1>7. o <= n => buf[o] = head
  <2>1. o <= n => o \in 1..n
    BY <1>4
  <2>. QED BY <1>4, <1>5, <2>1
<1>8. decodeUdp(buf, o) = IF o <= n THEN << [src |-> src, dst |-> dst, payload |-> o + 1] >>
                          ELSE <<>>
  BY <1>1, <1>6, <1>7 DEF decodeUdp
<1>9. o + Len(Udp(src, dst) \o rest) = (o + 1) + Len(rest)
  <2>1. Len(<< head >> \o rest) = 1 + Len(rest) /\ Len(rest) \in Nat
    BY <1>2, SeqConcat, SeqIsFunction
  <2>. QED BY <1>1, <2>1
<1>. QED BY <1>3, <1>8, <1>9

-----------------------------------------------------------------------------
(* The observations of an IPv4 packet *)

\* The parts that the observations of a packet come from.
Parts(buf, o, ip, udp, dhcp, mdns) ==
  /\ ip = decodeIpv4(buf, o)
  /\ udp = IF ip # <<>> /\ ip[1].protocol = "udp" THEN decodeUdp(buf, ip[1].payload) ELSE <<>>
  /\ dhcp = IF udp # <<>> /\ IsDhcp(udp[1]) THEN decodeDhcp(buf, udp[1].payload) ELSE <<>>
  /\ mdns = IF udp # <<>> /\ 5353 \in {udp[1].src, udp[1].dst}
            THEN decodeMdns(buf, udp[1].payload) ELSE [st |-> "undefined"]

Observations(mac, ip, dhcp, mdns) ==
  (IF ip = <<>> THEN <<>>
   ELSE << [kind |-> "ipv4", mac |-> mac, ip |-> ip[1].src, name |-> None, as |-> None] >>)
  \o (IF dhcp = <<>> THEN <<>> ELSE extractDhcp(dhcp[1]))
  \o (IF mdns.st = "undefined" THEN <<>> ELSE extractMdns(mac, mdns))

\* extractIpv4 concatenates what the three decoders yield.
LEMMA Ip4Is ==
  ASSUME NEW buf, NEW mac, NEW o, NEW ip, NEW udp, NEW dhcp, NEW mdns,
         Parts(buf, o, ip, udp, dhcp, mdns), mdns.st # "reading"
  PROVE  extractIpv4(buf, mac, o) = Observations(mac, ip, dhcp, mdns)
<1>. DEFINE ips == decodeIpv4(buf, o)
            udps == IF ips # <<>> /\ ips[1].protocol = "udp" THEN decodeUdp(buf, ips[1].payload)
                    ELSE <<>>
            dhcps == IF udps # <<>> /\ IsDhcp(udps[1]) THEN decodeDhcp(buf, udps[1].payload)
                     ELSE <<>>
            mdnss == IF udps # <<>> /\ 5353 \in {udps[1].src, udps[1].dst}
                     THEN decodeMdns(buf, udps[1].payload) ELSE [st |-> "undefined"]
<1>1. extractIpv4(buf, mac, o) =
        IF mdnss.st = "reading" THEN Endless ELSE Observations(mac, ips, dhcps, mdnss)
  BY Zenon DEF extractIpv4, Observations
<1>2. ips = ip
  BY DEF Parts
<1>. HIDE DEF ips
<1>3. udps = udp
  BY <1>2 DEF Parts
<1>. HIDE DEF udps
<1>4. dhcps = dhcp /\ mdnss = mdns
  BY <1>3 DEF Parts
<1>. HIDE DEF dhcps, mdnss
<1>. QED BY <1>1, <1>2, <1>4

NoMdns == [st |-> "undefined"]

LEMMA NoIp4 ==
  ASSUME NEW buf, NEW mac, NEW o, decodeIpv4(buf, o) = <<>>
  PROVE  extractIpv4(buf, mac, o) = <<>>
<1>1. Parts(buf, o, <<>>, <<>>, <<>>, NoMdns)
  BY DEF Parts, NoMdns
<1>2. NoMdns.st = "undefined"
  BY DEF NoMdns
<1>3. extractIpv4(buf, mac, o) = Observations(mac, <<>>, <<>>, NoMdns)
  BY <1>1, <1>2, Ip4Is
<1>4. Observations(mac, <<>>, <<>>, NoMdns) = (<<>> \o <<>>) \o <<>>
  BY <1>2 DEF Observations
<1>. QED BY <1>3, <1>4, SeqEmpty, ConcatEmpty

\* Without a datagram that concerns it, a packet tells of its sender alone.
LEMMA Ip4Alone ==
  ASSUME NEW buf, NEW mac, NEW o, NEW ip, decodeIpv4(buf, o) = << ip >>,
         ip.protocol # "udp" \/ decodeUdp(buf, ip.payload) = <<>>
  PROVE  extractIpv4(buf, mac, o) = << Fact("ipv4", mac, ip.src, None, None) >>
<1>. DEFINE first == Fact("ipv4", mac, ip.src, None, None)
<1>1. << ip >> # <<>> /\ << ip >>[1] = ip
  OBVIOUS
<1>2. Parts(buf, o, << ip >>, <<>>, <<>>, NoMdns)
  BY <1>1 DEF Parts, NoMdns
<1>3. NoMdns.st = "undefined"
  BY DEF NoMdns
<1>4. extractIpv4(buf, mac, o) = Observations(mac, << ip >>, <<>>, NoMdns)
  BY <1>2, <1>3, Ip4Is
<1>5. Observations(mac, << ip >>, <<>>, NoMdns) = (<< first >> \o <<>>) \o <<>>
  BY <1>1, <1>3 DEF Observations, Fact
<1>. HIDE DEF first
<1>6. (<< first >> \o <<>>) \o <<>> = << first >>
  BY SeqOne, ConcatEmpty
<1>. QED BY <1>4, <1>5, <1>6 DEF first

\* A first observation, and that of the message behind it, if there is one.
WithDhcp(first, dhcp) == << first >> \o IF dhcp = <<>> THEN <<>> ELSE extractDhcp(dhcp[1])
WithMdns(first, mac, mdns) ==
  << first >> \o IF mdns.st = "undefined" THEN <<>> ELSE extractMdns(mac, mdns)

LEMMA Ip4Dhcp ==
  ASSUME NEW buf, NEW mac, NEW o, NEW ip, decodeIpv4(buf, o) = << ip >>, ip.protocol = "udp",
         NEW udp, decodeUdp(buf, ip.payload) = << udp >>, IsDhcp(udp)
  PROVE  extractIpv4(buf, mac, o) =
           WithDhcp(Fact("ipv4", mac, ip.src, None, None), decodeDhcp(buf, udp.payload))
<1>. DEFINE first == Fact("ipv4", mac, ip.src, None, None)
            dhcp == decodeDhcp(buf, udp.payload)
            second == IF dhcp = <<>> THEN <<>> ELSE extractDhcp(dhcp[1])
<1>1. << ip >> # <<>> /\ << ip >>[1] = ip /\ << udp >> # <<>> /\ << udp >>[1] = udp
  OBVIOUS
<1>2. IsDhcp(udp) /\ 5353 \notin {udp.src, udp.dst}
  <2>1. 5353 \notin {67, 68}
    OBVIOUS
  <2>. QED BY <2>1 DEF IsDhcp
<1>3. Parts(buf, o, << ip >>, << udp >>, dhcp, NoMdns)
  BY <1>1, <1>2 DEF Parts, NoMdns
<1>4. NoMdns.st = "undefined"
  BY DEF NoMdns
<1>. HIDE DEF dhcp
<1>5. extractIpv4(buf, mac, o) = Observations(mac, << ip >>, dhcp, NoMdns)
  BY <1>3, <1>4, Ip4Is
<1>6. Observations(mac, << ip >>, dhcp, NoMdns) = (<< first >> \o second) \o <<>>
  BY <1>1, <1>4 DEF Observations, Fact
<1>7. IsSeq(second)
  <2>1. \A x : IsSeq(<< x >>)
    BY SeqOne
  <2>. QED BY <2>1, SeqEmpty DEF extractDhcp
<1>. HIDE DEF first, second
<1>8. (<< first >> \o second) \o <<>> = << first >> \o second
  <2>1. IsSeq(<< first >> \o second)
    BY <1>7, SeqOne, SeqConcat
  <2>. QED BY <2>1, ConcatEmpty
<1>. QED BY <1>5, <1>6, <1>8 DEF first, second, dhcp, WithDhcp

LEMMA Ip4Mdns ==
  ASSUME NEW buf, NEW mac, NEW o, NEW ip, decodeIpv4(buf, o) = << ip >>, ip.protocol = "udp",
         NEW udp, decodeUdp(buf, ip.payload) = << udp >>, udp.dst = 5353,
         decodeMdns(buf, udp.payload).st # "reading"
  PROVE  extractIpv4(buf, mac, o) =
           WithMdns(Fact("ipv4", mac, ip.src, None, None), mac, decodeMdns(buf, udp.payload))
<1>. DEFINE first == Fact("ipv4", mac, ip.src, None, None)
            mdns == decodeMdns(buf, udp.payload)
            second == IF mdns.st = "undefined" THEN <<>> ELSE extractMdns(mac, mdns)
<1>1. << ip >> # <<>> /\ << ip >>[1] = ip /\ << udp >> # <<>> /\ << udp >>[1] = udp
  OBVIOUS
<1>2. 5353 \in {udp.src, udp.dst} /\ ~IsDhcp(udp)
  <2>1. 5353 \notin {67, 68} /\ 5353 \in {udp.src, udp.dst}
    OBVIOUS
  <2>. QED BY <2>1 DEF IsDhcp
<1>3. Parts(buf, o, << ip >>, << udp >>, <<>>, mdns)
  BY <1>1, <1>2 DEF Parts
<1>4. mdns.st # "reading"
  OBVIOUS
<1>. HIDE DEF mdns
<1>5. extractIpv4(buf, mac, o) = Observations(mac, << ip >>, <<>>, mdns)
  BY <1>3, <1>4, Ip4Is
<1>6. Observations(mac, << ip >>, <<>>, mdns) = (<< first >> \o <<>>) \o second
  BY <1>1 DEF Observations, Fact
<1>. HIDE DEF first, second
<1>7. << first >> \o <<>> = << first >>
  BY SeqOne, ConcatEmpty
<1>. QED BY <1>5, <1>6, <1>7 DEF first, second, mdns, WithMdns

\* The second observation of a packet, of the message in it: what the message
\* says, all of it if it has arrived whole.
TellsOf(o, mac, b, complete) ==
  \/ /\ b.kind = "dhcp"
     /\ \E ip, name, as :
          /\ Telling(b, complete, ip, name, as)
          /\ o = Fact("dhcp", b.client, ip, name, as)
  \/ /\ b.kind = "mdns"
     /\ \E ip \in {None, Host(b).ip},
           name \in {None} \union Owners(b) :
          /\ o = Fact("mdns", mac, ip, name, None)
          /\ complete => ip = Host(b).ip /\ name = Host(b).name

Heard(facts, mac, b, complete) ==
  LET first == Fact("ipv4", mac, b.ip, None, None) IN
  \/ facts = <<>> /\ ~complete
  \/ facts = << first >> /\ (complete => b.kind = "other")
  \/ \E o : facts = << first, o >> /\ TellsOf(o, mac, b, complete)

\* What the standards ask of a packet, for sequences of any elements.
PacketToSend(b) ==
  /\ b.ihl \in Nat \ {0}
  /\ \/ b.kind = "dhcp" /\ DhcpToSend(b)
     \/ b.kind = "mdns" /\ b.packed = FALSE /\ WellFormedMessage(b)
     \/ b.kind = "other"

LEMMA PayloadSeq ==
  ASSUME NEW b, PacketToSend(b)
  PROVE  IsSeq(Ip4Payload(b)) /\ Len(Ip4Payload(b)) \in Nat \ {0}
<1>1. \A src, dst : IsSeq(Udp(src, dst)) /\ Len(Udp(src, dst)) = 1
  BY SeqOne DEF Udp
<1>2. ASSUME NEW src, NEW dst, NEW rest, IsSeq(rest)
      PROVE  IsSeq(Udp(src, dst) \o rest) /\ Len(Udp(src, dst) \o rest) \in Nat \ {0}
  <2>1. Joined(Udp(src, dst), rest, 1, Len(rest))
    BY <1>1, <1>2, ConcatOf
  <2>2. Len(rest) \in Nat
    BY <1>2, SeqIsFunction
  <2>. QED BY <2>1, <2>2 DEF Joined
<1>3. CASE b.kind = "dhcp" /\ DhcpToSend(b)
  <2>1. IsSeq(EncodeDhcp(b))
    BY <1>3, DhcpSeq DEF DhcpToSend
  <2>. QED BY <1>2, <1>3, <2>1 DEF Ip4Payload, Server, Client
<1>4. CASE b.kind = "mdns" /\ b.packed = FALSE /\ WellFormedMessage(b)
  <2>1. IsSeq(EncodeMdns(b))
    BY <1>4, MdnsSeq
  <2>. QED BY <1>2, <1>4, <2>1 DEF Ip4Payload
<1>5. CASE b.kind = "other"
  BY <1>5, SeqOne DEF Ip4Payload
<1>. QED BY <1>3, <1>4, <1>5 DEF PacketToSend

\* What extractIpv4 hears of a packet of which n cells came.
LEMMA PacketShown ==
  ASSUME NEW b, PacketToSend(b), NEW cells, IsSeq(cells), NEW o \in Nat \ {0},
         Stands(EncodeBody(b), o, cells), o + Len(EncodeBody(b)) = Len(cells) + 1,
         NEW buf, NEW n, Shows(buf, cells, n), NEW mac
  PROVE  Heard(extractIpv4(buf, mac, o), mac, b, n = Len(cells))
<1>. DEFINE c == o + b.ihl
            ip == [src |-> b.ip, protocol |-> Ip4Header(b).protocol, payload |-> c]
            facts == extractIpv4(buf, mac, o)
            payload == Ip4Payload(b)
            first == Fact("ipv4", mac, b.ip, None, None)
<1>1. b.kind \in {"dhcp", "mdns", "other"} /\ b.kind \notin {"arp", "ndp"}
  BY DEF PacketToSend
<1>2. IsSeq(payload) /\ Len(payload) \in Nat \ {0} /\ b.ihl \in Nat \ {0}
  BY PayloadSeq DEF PacketToSend
<1>3. /\ decodeIpv4(buf, o) \in {<<>>, << ip >>}
      /\ c <= n + 1 => decodeIpv4(buf, o) = << ip >>
      /\ Stands(payload, c, cells)
      /\ c + Len(payload) = Len(cells) + 1
  BY <1>1, <1>2, Ip4Shown
<1>4. c \in Nat \ {0} /\ n \in Nat /\ Len(cells) \in Nat /\ n <= Len(cells)
  <2>1. \A h \in Nat : o + h \in Nat \ {0}
    OBVIOUS
  <2>2. c \in Nat \ {0}
    BY <1>2, <2>1
  <2>. QED BY <2>2, SeqIsFunction DEF Shows
<1>5. ip.src = b.ip /\ ip.payload = c
      /\ (b.kind = "other" => ip.protocol # "udp") /\ (b.kind # "other" => ip.protocol = "udp")
  BY DEF Ip4Header
<1>. HIDE DEF c, ip, facts, payload
<1>6. n = Len(cells) => c <= n
  BY <1>2, <1>3, <1>4
<1>7. CASE decodeIpv4(buf, o) = <<>>
  <2>1. facts = <<>>
    BY <1>7, NoIp4 DEF facts
  <2>2. n # Len(cells)
    <3>1. << ip >> # <<>>
      OBVIOUS
    <3>2. n = Len(cells) => c <= n + 1
      BY <1>4, <1>6
    <3>. QED BY <1>3, <1>7, <3>1, <3>2
  <2>. QED BY <2>1, <2>2 DEF Heard, facts
<1>8. CASE decodeIpv4(buf, o) = << ip >> /\ b.kind = "other"
  <2>1. facts = << first >>
    BY <1>5, <1>8, Ip4Alone DEF facts
  <2>. QED BY <1>8, <2>1 DEF Heard, facts
<1>9. CASE decodeIpv4(buf, o) = << ip >> /\ b.kind # "other"
  <2>. DEFINE src == IF b.kind = "mdns" THEN b.port ELSE IF b.as = "ack" THEN 67 ELSE 68
              dst == IF b.kind = "mdns" THEN 5353 ELSE IF b.as = "ack" THEN 68 ELSE 67
              message == IF b.kind = "mdns" THEN EncodeMdns(b) ELSE EncodeDhcp(b)
              udp == [src |-> src, dst |-> dst, payload |-> c + 1]
  <2>1. payload = Udp(src, dst) \o message
    <3>1. CASE b.kind = "mdns"
      BY <3>1 DEF payload, Ip4Payload
    <3>2. CASE b.kind = "dhcp"
      <4>1. CASE b.as = "ack"
        BY <3>2, <4>1 DEF payload, Ip4Payload, Server
      <4>2. CASE b.as # "ack"
        BY <3>2, <4>2 DEF payload, Ip4Payload, Client
      <4>. QED BY <4>1, <4>2
    <3>. QED BY <1>1, <1>9, <3>1, <3>2
  <2>2. IsSeq(message)
    BY <1>1, <1>9, DhcpSeq, MdnsSeq DEF PacketToSend, DhcpToSend
  <2>3. udp.src = src /\ udp.dst = dst /\ udp.payload = c + 1
    OBVIOUS
  <2>. HIDE DEF message, src, dst
  <2>4. /\ Stands(message, c + 1, cells) /\ (c + 1) + Len(message) = Len(cells) + 1
        /\ decodeUdp(buf, c) = IF c <= n THEN << udp >> ELSE <<>>
    <3>1. Stands(Udp(src, dst) \o message, c, cells)
      BY <1>3, <2>1
    <3>2. /\ Stands(message, c + 1, cells)
          /\ c + Len(Udp(src, dst) \o message) = (c + 1) + Len(message)
          /\ decodeUdp(buf, c) = IF c <= n THEN << [src |-> src, dst |-> dst,
                                                    payload |-> c + 1] >> ELSE <<>>
      BY <1>4, <2>2, <3>1, UdpShown
    <3>. QED BY <1>3, <2>1, <3>2
  <2>. HIDE DEF udp
  <2>5. CASE c > n
    <3>1. ~(c <= n)
      BY <1>4, <2>5
    <3>2. facts = << first >>
      BY <1>5, <1>9, <2>4, <3>1, Ip4Alone DEF facts
    <3>. QED BY <1>6, <3>1, <3>2 DEF Heard, facts
  <2>6. CASE c <= n /\ b.kind = "dhcp"
    <3>. DEFINE dhcp == decodeDhcp(buf, c + 1)
    <3>1. DhcpRead(dhcp, b, n = Len(cells))
      <4>1. c + 1 \in Nat \ {0} /\ DhcpToSend(b) /\ message = EncodeDhcp(b)
        BY <1>4, <2>6 DEF message, PacketToSend
      <4>. QED BY <2>4, <4>1, DhcpShown
    <3>2. IsDhcp(udp)
      BY <2>3, <2>6 DEF src, dst, IsDhcp
    <3>3. facts = << first >> \o IF dhcp = <<>> THEN <<>> ELSE extractDhcp(dhcp[1])
      <4>1. decodeIpv4(buf, o) = << ip >> /\ ip.protocol = "udp" /\ decodeUdp(buf, ip.payload) = << udp >>
        BY <1>5, <1>9, <2>4, <2>6
      <4>2. facts = WithDhcp(Fact("ipv4", mac, ip.src, None, None), decodeDhcp(buf, udp.payload))
        BY <3>2, <4>1, Ip4Dhcp DEF facts
      <4>3. decodeDhcp(buf, udp.payload) = dhcp /\ Fact("ipv4", mac, ip.src, None, None) = first
        BY <1>5, <2>3
      <4>. HIDE DEF dhcp, first
      <4>. QED BY <4>2, <4>3 DEF WithDhcp
    <3>. HIDE DEF dhcp, first
    <3>4. CASE dhcp = <<>>
      <4>1. n # Len(cells)
        BY <3>1, <3>4 DEF DhcpRead
      <4>2. facts = << first >>
        BY <3>3, <3>4, SeqOne, ConcatEmpty
      <4>. QED BY <4>1, <4>2 DEF Heard, facts, first
    <3>5. CASE dhcp # <<>>
      <4>1. PICK x, name, as :
              /\ Telling(b, n = Len(cells), x, name, as)
              /\ extractDhcp(dhcp[1]) = << Fact("dhcp", b.client, x, name, as) >>
        BY <3>1, <3>5 DEF DhcpRead
      <4>. DEFINE second == Fact("dhcp", b.client, x, name, as)
      <4>2. TellsOf(second, mac, b, n = Len(cells))
        BY <2>6, <4>1 DEF TellsOf
      <4>3. facts = << first, second >>
        <5>. HIDE DEF second
        <5>1. facts = << first >> \o << second >>
          BY <3>3, <3>5, <4>1 DEF second
        <5>. QED BY <5>1, ConcatOnes
      <4>. HIDE DEF second
      <4>. QED BY <4>2, <4>3 DEF Heard, facts, first
    <3>. QED BY <3>4, <3>5
  <2>7. CASE c <= n /\ b.kind = "mdns"
    <3>. DEFINE mdns == decodeMdns(buf, c + 1)
    <3>1. MdnsRead(mdns, b, n + 1 >= (c + 1) + Len(EncodeMdns(b)))
      <4>1. c + 1 \in Nat \ {0} /\ b.packed = FALSE /\ WellFormedMessage(b) /\ message = EncodeMdns(b)
        BY <1>4, <2>7 DEF message, PacketToSend
      <4>. QED BY <2>4, <4>1, MdnsShown
    <3>2. (n + 1 >= (c + 1) + Len(EncodeMdns(b))) <=> n = Len(cells)
      <4>1. (c + 1) + Len(EncodeMdns(b)) = Len(cells) + 1
        BY <2>4, <2>7 DEF message
      <4>. QED BY <1>4, <4>1
    <3>3. mdns.st # "reading"
      BY <3>1 DEF MdnsRead
    <3>4. facts = << first >> \o IF mdns.st = "undefined" THEN <<>> ELSE extractMdns(mac, mdns)
      <4>1. udp.dst = 5353
        BY <2>3, <2>7 DEF dst
      <4>2. decodeIpv4(buf, o) = << ip >> /\ ip.protocol = "udp" /\ decodeUdp(buf, ip.payload) = << udp >>
        BY <1>5, <1>9, <2>4, <2>7
      <4>3. decodeMdns(buf, udp.payload) = mdns /\ Fact("ipv4", mac, ip.src, None, None) = first
        BY <1>5, <2>3
      <4>4. decodeMdns(buf, udp.payload).st # "reading"
        BY <3>3, <4>3
      <4>5. facts = WithMdns(Fact("ipv4", mac, ip.src, None, None), mac, decodeMdns(buf, udp.payload))
        BY <4>1, <4>2, <4>4, Ip4Mdns DEF facts
      <4>. HIDE DEF mdns, first
      <4>. QED BY <4>3, <4>5 DEF WithMdns
    <3>. HIDE DEF mdns, first
    <3>5. CASE mdns.st = "undefined"
      <4>1. n # Len(cells)
        BY <3>1, <3>2, <3>5 DEF MdnsRead
      <4>2. facts = << first >>
        BY <3>4, <3>5, SeqOne, ConcatEmpty
      <4>. QED BY <4>1, <4>2 DEF Heard, facts, first
    <3>6. CASE mdns.st # "undefined"
      <4>1. PICK k \in 0..Len(b.answers) : /\ Found(b.answers, k, mdns.a, mdns.names)
                                           /\ n = Len(cells) => k = Len(b.answers)
        BY <3>1, <3>2, <3>6 DEF MdnsRead
      <4>. DEFINE x == HeardIp(mdns.a)
                  name == HeardName(mdns.a, mdns.names)
                  second == Fact("mdns", mac, x, name, None)
      <4>2. /\ x \in {None, Host(b).ip} /\ name \in {None} \union Owners(b)
            /\ n = Len(cells) => x = Host(b).ip /\ name = Host(b).name
        <5>1. IsSeq(b.answers) /\ \A i \in 1..Len(b.answers) : WellFormedAnswer(b.answers[i])
          BY <2>7 DEF PacketToSend, WellFormedMessage
        <5>2. /\ x \in {None, Host(b).ip} /\ name \in {None} \union Owners(b)
              /\ k = Len(b.answers) => x = Host(b).ip /\ name = Host(b).name
          <6>1. ASSUME NEW a, NEW names, Found(b.answers, k, a, names)
                PROVE  /\ HeardIp(a) \in {None, Host(b).ip}
                       /\ HeardName(a, names) \in {None} \union Owners(b)
                       /\ k = Len(b.answers) =>
                            HeardIp(a) = Host(b).ip /\ HeardName(a, names) = Host(b).name
            BY <5>1, <6>1, HostFound
          <6>. QED BY <4>1, <6>1
        <5>. QED BY <4>1, <5>2
      <4>3. extractMdns(mac, mdns) = << second >>
        BY DEF extractMdns, Fact, HeardIp, HeardName
      <4>. HIDE DEF x, name
      <4>4. TellsOf(second, mac, b, n = Len(cells))
        BY <2>7, <4>2 DEF TellsOf
      <4>. HIDE DEF second
      <4>5. facts = << first, second >>
        BY <3>4, <3>6, <4>3, ConcatOnes
      <4>. QED BY <4>4, <4>5 DEF Heard, facts, first
    <3>. QED BY <3>5, <3>6
  <2>. QED BY <1>1, <1>4, <1>9, <2>5, <2>6, <2>7
<1>. QED BY <1>3, <1>7, <1>8, <1>9

-----------------------------------------------------------------------------
(* The frame as a whole *)

\* IsSequence is the same, as TLC can evaluate it.
LEMMA SequenceIs == ASSUME NEW s, IsSequence(s) PROVE IsSeq(s)
BY DEF IsSequence, IsSeq

\* A packet that is well formed is one that the decoders read.
LEMMA PacketIs ==
  ASSUME NEW f, WellFormed(f), ~Packed(f), f.body.kind \notin {"arp", "ndp"}
  PROVE  PacketToSend(f.body)
<1>. DEFINE b == f.body
<1>1. b.ihl \in Nat \ {0}
  BY DEF WellFormed
<1>2. \/ b.kind = "dhcp" /\ WellFormedDhcp(b)
      \/ b.kind = "mdns" /\ WellFormedMdns(b)
      \/ b.kind = "other"
  BY DEF WellFormed
<1>3. b.kind = "mdns" => ~b.packed
  BY DEF Packed
<1>. HIDE DEF b
<1>4. ASSUME WellFormedDhcp(b) PROVE DhcpToSend(b)
  <2>1. IsSeq(b.options)
    BY <1>4, SequenceIs DEF WellFormedDhcp
  <2>2. OptionsInOrder(b.options)
    BY <1>4 DEF WellFormedDhcp, OptionsInOrder
  <2>. QED BY <1>4, <2>1, <2>2 DEF WellFormedDhcp, DhcpToSend
<1>5. ASSUME b.kind = "mdns", WellFormedMdns(b) PROVE b.packed = FALSE /\ WellFormedMessage(b)
  <2>1. b.packed = FALSE
    BY <1>3, <1>5 DEF WellFormedMdns
  <2>2. IsSeq(b.questions) /\ \A i \in 1..Len(b.questions) : IsSeq(b.questions[i])
    BY <1>5, SequenceIs DEF WellFormedMdns
  <2>3. IsSeq(b.answers)
    BY <1>5, SequenceIs DEF WellFormedMdns
  <2>4. ASSUME NEW i \in 1..Len(b.answers) PROVE WellFormedAnswer(b.answers[i])
    BY <1>5, SequenceIs DEF WellFormedMdns, WellFormedAnswer
  <2>. QED BY <2>1, <2>2, <2>3, <2>4 DEF WellFormedMessage
<1>6. PacketToSend(b)
  BY <1>1, <1>2, <1>4, <1>5 DEF PacketToSend
<1>. QED BY <1>6 DEF b

\* What a frame carries takes at least one cell.
LEMMA BodySeq ==
  ASSUME NEW f, WellFormed(f), ~Packed(f)
  PROVE  IsSeq(EncodeBody(f.body)) /\ EncodeBody(f.body) # <<>>
<1>. DEFINE b == f.body
<1>1. b.kind \in {"arp", "ndp"} \/ b.kind \notin {"arp", "ndp"}
  OBVIOUS
<1>2. CASE b.kind = "arp"
  <2>. DEFINE x == [k |-> "arp", ethernetIpv4 |-> TRUE, operation |-> b.operation, mac |-> b.mac,
                    ip |-> b.ip, target |-> b.target]
  <2>1. EncodeBody(b) = << x >>
    BY <1>2 DEF EncodeBody
  <2>. HIDE DEF x
  <2>2. IsSeq(<< x >>) /\ << x >> # <<>>
    BY SeqOne
  <2>. QED BY <2>1, <2>2
<1>3. CASE b.kind = "ndp"
  <2>. DEFINE x == [k |-> "ip6", src |-> b.groups]
              y == [k |-> "icmp", type |-> b.type]
              z == [k |-> "ll", mac |-> b.mac]
  <2>1. EncodeBody(b) = << x, y, z >>
    BY <1>3 DEF EncodeBody
  <2>. HIDE DEF x, y, z
  <2>2. << x, y, z >> \in Seq({x, y, z}) /\ << x, y, z >> # <<>>
    OBVIOUS
  <2>. QED BY <2>1, <2>2 DEF IsSeq
<1>4. CASE b.kind \notin {"arp", "ndp"}
  <2>1. PacketToSend(b)
    BY <1>4, PacketIs
  <2>2. IsSeq(Ip4Payload(b)) /\ Len(Ip4Payload(b)) \in Nat /\ b.ihl \in Nat \ {0}
    BY <2>1, PayloadSeq DEF PacketToSend
  <2>3. IsSeq(EncodeBody(b)) /\ Len(EncodeBody(b)) = b.ihl + Len(Ip4Payload(b))
    BY <1>4, <2>2, Ip4Seq
  <2>4. Len(EncodeBody(b)) # 0
    BY <2>2, <2>3
  <2>. QED BY <2>3, <2>4
<1>. QED BY <1>1, <1>2, <1>3, <1>4

-----------------------------------------------------------------------------
(* What is heard against what is meant *)

Reading(facts) == [i \in 1..Len(facts) |-> Read(facts[i])]

LEMMA ReadNone == Reading(<<>>) = <<>>
BY DEF Reading

LEMMA ReadOne == ASSUME NEW a PROVE Reading(<< a >>) = << Read(a) >>
<1>. HIDE DEF Read
<1>. QED BY DEF Reading

LEMMA ReadTwo == ASSUME NEW a, NEW b PROVE Reading(<< a, b >>) = << Read(a), Read(b) >>
BY DEF Reading

\* Only an address of the sixth version is read in its full form.
LEMMA ReadFact ==
  ASSUME NEW kind, NEW mac, NEW ip, NEW name, NEW as
  PROVE  Read(Fact(kind, mac, ip, name, as)) =
           Fact(kind, mac, IF kind = "ndp" THEN Expanded(ip) ELSE ip, name, as)
BY DEF Read, Fact

\* What o says of what was said.
Says(o, said, b) ==
  /\ o.kind = said.kind /\ o.mac = said.mac
  /\ o.ip \in {None, said.ip}
  /\ o.name \in {None, said.name} \union
       CASE o.kind = "dhcp" -> {""}
         [] o.kind = "mdns" -> ToSet([n \in 1..Len(b.answers) |-> b.answers[n].owner])
         [] OTHER -> {}

\* A fact says no more than what was said if its address and name are those or
\* none, or its name is empty in a DHCP message,
LEMMA SaysFact ==
  ASSUME NEW kind, NEW mac, NEW ip, NEW name, NEW as, NEW x, NEW y, NEW z, NEW b,
         x = None \/ x = ip, y = None \/ y = name \/ (kind = "dhcp" /\ y = "")
  PROVE  Says(Fact(kind, mac, x, y, z), Fact(kind, mac, ip, name, as), b)
<1>. DEFINE o == Fact(kind, mac, x, y, z)
            said == Fact(kind, mac, ip, name, as)
            owners == [n \in 1..Len(b.answers) |-> b.answers[n].owner]
<1>1. /\ o.kind = kind /\ o.mac = mac /\ o.ip = x /\ o.name = y
      /\ said.kind = kind /\ said.mac = mac /\ said.ip = ip /\ said.name = name
  BY DEF Fact
<1>2. Owners(b) \subseteq ToSet(owners)
  BY DEF Owners, ToSet
<1>3. "dhcp" # "mdns"
  OBVIOUS
<1>. HIDE DEF o, said
<1>4. Says(o, said, b)
  BY <1>1, <1>2, <1>3 DEF Says
<1>. QED BY <1>4 DEF o, said

\* or if its name is that of an owner in the same mDNS message.
LEMMA SaysOwner ==
  ASSUME NEW kind, NEW mac, NEW ip, NEW name, NEW as, NEW x, NEW y, NEW z, NEW b,
         x = None \/ x = ip, kind = "mdns", y = None \/ y \in Owners(b)
  PROVE  Says(Fact(kind, mac, x, y, z), Fact(kind, mac, ip, name, as), b)
<1>. DEFINE o == Fact(kind, mac, x, y, z)
            said == Fact(kind, mac, ip, name, as)
            owners == [n \in 1..Len(b.answers) |-> b.answers[n].owner]
<1>1. /\ o.kind = kind /\ o.mac = mac /\ o.ip = x /\ o.name = y
      /\ said.kind = kind /\ said.mac = mac /\ said.ip = ip /\ said.name = name
  BY DEF Fact
<1>2. Owners(b) \subseteq ToSet(owners)
  BY DEF Owners, ToSet
<1>. HIDE DEF o, said
<1>3. Says(o, said, b)
  BY <1>1, <1>2 DEF Says
<1>. QED BY <1>3 DEF o, said

\* What is heard of a frame.
Hears(f, facts, complete) ==
  /\ complete => Meaning(f) = Reading(facts)
  /\ \A i \in 1..Len(facts) :
       i <= Len(Meaning(f)) /\ Says(Read(facts[i]), Meaning(f)[i], f.body)

LEMMA HearsNothing ==
  ASSUME NEW f, NEW complete, complete => Meaning(f) = <<>>
  PROVE  Hears(f, <<>>, complete)
BY ReadNone DEF Hears

LEMMA HearsOne ==
  ASSUME NEW f, NEW complete, NEW o, NEW said, Meaning(f)[1] = said, Len(Meaning(f)) \in Nat \ {0},
         Says(Read(o), said, f.body), complete => Meaning(f) = << Read(o) >>
  PROVE  Hears(f, << o >>, complete)
<1>1. Len(<< o >>) = 1 /\ << o >>[1] = o
  BY SeqOne
<1>2. \A i \in 1..1 : i = 1
  OBVIOUS
<1>3. 1 <= Len(Meaning(f))
  OBVIOUS
<1>4. \A i \in 1..Len(<< o >>) :
        i <= Len(Meaning(f)) /\ Says(Read(<< o >>[i]), Meaning(f)[i], f.body)
  BY <1>1, <1>2, <1>3
<1>. QED BY <1>4, ReadOne DEF Hears

LEMMA HearsTwo ==
  ASSUME NEW f, NEW complete, NEW o, NEW p, NEW said, NEW meant, Meaning(f) = << said, meant >>,
         Says(Read(o), said, f.body), Says(Read(p), meant, f.body),
         complete => said = Read(o) /\ meant = Read(p)
  PROVE  Hears(f, << o, p >>, complete)
<1>1. Len(<< o, p >>) = 2 /\ << o, p >>[1] = o /\ << o, p >>[2] = p
  OBVIOUS
<1>2. Len(Meaning(f)) = 2 /\ Meaning(f)[1] = said /\ Meaning(f)[2] = meant
  OBVIOUS
<1>3. \A i \in 1..2 : i <= 2 /\ i \in {1, 2}
  OBVIOUS
<1>4. \A i \in 1..Len(<< o, p >>) :
        i <= Len(Meaning(f)) /\ Says(Read(<< o, p >>[i]), Meaning(f)[i], f.body)
  BY <1>1, <1>2, <1>3
<1>. QED BY <1>4, ReadTwo DEF Hears

\* The meaning of a frame that carries a packet.
SecondOf(f) ==
  IF f.body.kind = "dhcp"
  THEN Fact("dhcp", f.body.client, f.body.address, Told(f.body, "hostname"),
            Told(f.body, "message-type"))
  ELSE Fact("mdns", f.mac, Host(f.body).ip, Host(f.body).name, None)

\* A frame of another link, or with too many tags, says nothing that is heard.
LEMMA MeaningSilent ==
  ASSUME NEW f, f.link # "ethernet" \/ ~(f.tags <= MaxVlanTags), f.tags \in Nat
  PROVE  Meaning(f) = <<>>
<1>1. f.link # "ethernet" \/ f.tags > MaxVlanTags
  BY DEF MaxVlanTags
<1>2. ~(f.link = "ethernet" /\ f.tags <= MaxVlanTags)
  OBVIOUS
<1>. QED BY <1>1, <1>2 DEF Meaning

LEMMA MeaningHeard ==
  ASSUME NEW f, f.link = "ethernet", f.tags \in Nat, f.tags <= MaxVlanTags
  PROVE  LET b == f.body IN
         /\ b.kind = "arp" => Meaning(f) = << Fact("arp", b.mac, b.ip, None,
                                               <<b.operation, b.ip # Zero /\ b.ip = b.target>>) >>
         /\ b.kind = "ndp" => Meaning(f) = << Fact("ndp", b.mac, b.groups, None, b.type) >>
         /\ b.kind \in {"dhcp", "mdns"} =>
              Meaning(f) = << Fact("ipv4", f.mac, b.ip, None, None), SecondOf(f) >>
         /\ b.kind = "other" => Meaning(f) = << Fact("ipv4", f.mac, b.ip, None, None) >>
<1>1. ~(f.link # "ethernet" \/ f.tags > MaxVlanTags)
  BY DEF MaxVlanTags
<1>. QED BY <1>1 DEF Meaning, SecondOf

\* Of a frame that the decoder takes, and of which n cells came.
LEMMA FrameHeard ==
  ASSUME NEW f, WellFormed(f), ~Packed(f), f.link = "ethernet", f.tags <= MaxVlanTags,
         NEW buf, NEW n, Shows(buf, Encode(f), n), n > f.tags
  PROVE  Hears(f, extractObservations(f.link, buf), n = Len(Encode(f)))
<1>. DEFINE b == f.body
            cells == Encode(f)
            o == f.tags + 2
            complete == n = Len(cells)
            eth == decodeEthernet(buf)
            facts == extractObservations(f.link, buf)
            first == Fact("ipv4", f.mac, b.ip, None, None)
<1>1. IsSeq(EncodeBody(b)) /\ EncodeBody(b) # <<>> /\ f.tags \in Nat
  BY BodySeq DEF WellFormed
<1>2. /\ IsSeq(cells) /\ Stands(EncodeBody(b), o, cells)
      /\ Len(cells) = f.tags + 1 + Len(EncodeBody(b))
  BY <1>1, FrameStands
<1>3. eth = << EthernetHeader(f) >>
  BY <1>1, EthernetShown
<1>4. /\ eth # <<>> /\ eth[1].src = f.mac /\ eth[1].type = EtherType(b) /\ eth[1].payload = o
  BY <1>3 DEF EthernetHeader
<1>5. o \in Nat \ {0} /\ n \in Nat /\ Len(cells) \in Nat /\ Len(EncodeBody(b)) \in Nat
  BY <1>1, <1>2, SeqIsFunction DEF Shows
<1>. HIDE DEF eth
<1>6. /\ EtherType(b) = "arp" =>
           facts = LET arp == decodeArp(buf, o) IN IF arp = <<>> THEN <<>> ELSE extractArp(arp[1])
      /\ EtherType(b) = "ipv4" => facts = extractIpv4(buf, f.mac, o)
      /\ EtherType(b) = "ipv6" => facts = extractNdp(buf, o)
  BY <1>4 DEF extractObservations, eth
<1>7. \/ b.kind = "arp" /\ WellFormedArp(b)
      \/ b.kind = "ndp" /\ WellFormedNdp(b)
      \/ b.kind = "dhcp" \/ b.kind = "mdns" \/ b.kind = "other"
  BY DEF WellFormed
<1>. HIDE DEF b, cells, o, facts
<1>8. CASE b.kind = "arp" /\ WellFormedArp(b)
  <2>. DEFINE arp == decodeArp(buf, o)
              said == Fact("arp", b.mac, b.ip, None, <<b.operation, b.ip # Zero /\ b.ip = b.target>>)
  <2>1. /\ o <= Len(cells)
        /\ o > n => arp = <<>>
        /\ o <= n => arp # <<>> /\ extractArp(arp[1]) = << said >>
    BY <1>2, <1>5, <1>8, ArpShown DEF cells
  <2>2. Meaning(f) = << said >>
    BY <1>1, <1>8, MeaningHeard DEF b
  <2>3. facts = IF arp = <<>> THEN <<>> ELSE extractArp(arp[1])
    BY <1>6, <1>8 DEF EtherType
  <2>4. Read(said) = said
    BY ReadFact
  <2>5. Says(said, said, b)
    BY SaysFact
  <2>. HIDE DEF arp, said
  <2>6. CASE o > n
    <3>1. facts = <<>> /\ ~complete
      BY <1>5, <2>1, <2>3, <2>6
    <3>. QED BY <3>1, HearsNothing DEF facts, cells
  <2>7. CASE o <= n
    <3>1. facts = << said >>
      BY <2>1, <2>3, <2>7
    <3>2. Hears(f, << said >>, complete)
      BY <2>2, <2>4, <2>5, SeqOne, HearsOne DEF b
    <3>. QED BY <3>1, <3>2 DEF facts, cells
  <2>. QED BY <1>5, <2>6, <2>7
<1>9. CASE b.kind = "ndp" /\ WellFormedNdp(b)
  <2>. DEFINE said == Fact("ndp", b.mac, b.groups, None, b.type)
              heard == Fact("ndp", b.mac, compressIpv6(b.groups), None, b.type)
  <2>1. /\ o + 2 <= Len(cells)
        /\ o + 2 > n => extractNdp(buf, o) = <<>>
        /\ o + 2 <= n => extractNdp(buf, o) = << heard >>
    BY <1>2, <1>5, <1>9, NdpShown DEF cells
  <2>2. Meaning(f) = << said >>
    BY <1>1, <1>9, MeaningHeard DEF b
  <2>3. facts = extractNdp(buf, o)
    BY <1>6, <1>9 DEF EtherType
  <2>4. Read(heard) = said
    BY <1>9, ReadFact, Expansion DEF WellFormedNdp
  <2>5. Says(said, said, b)
    BY SaysFact
  <2>. HIDE DEF said, heard
  <2>6. CASE o + 2 > n
    <3>1. facts = <<>> /\ ~complete
      BY <1>5, <2>1, <2>3, <2>6
    <3>. QED BY <3>1, HearsNothing DEF facts, cells
  <2>7. CASE o + 2 <= n
    <3>1. facts = << heard >>
      BY <2>1, <2>3, <2>7
    <3>2. Hears(f, << heard >>, complete)
      BY <2>2, <2>4, <2>5, SeqOne, HearsOne DEF b
    <3>. QED BY <3>1, <3>2 DEF facts, cells
  <2>. QED BY <1>5, <2>6, <2>7
<1>10. CASE b.kind \in {"dhcp", "mdns", "other"}
  <2>1. PacketToSend(b)
    BY <1>10, PacketIs DEF b
  <2>2. o + Len(EncodeBody(b)) = Len(cells) + 1
    BY <1>1, <1>2, <1>5 DEF o, b, cells
  <2>3. facts = extractIpv4(buf, f.mac, o)
    BY <1>6, <1>10 DEF EtherType
  <2>4. Heard(facts, f.mac, b, complete)
    BY <1>2, <1>5, <2>1, <2>2, <2>3, PacketShown DEF cells
  <2>5. Read(first) = first /\ Says(first, first, b)
    BY ReadFact, SaysFact
  <2>6. /\ b.kind = "other" => Meaning(f) = << first >>
        /\ b.kind \in {"dhcp", "mdns"} => Meaning(f) = << first, SecondOf(f) >>
    BY <1>1, MeaningHeard DEF b
  <2>. HIDE DEF first, complete
  <2>7. CASE facts = <<>> /\ ~complete
    BY <2>7, HearsNothing DEF facts, complete, cells
  <2>8. CASE facts = << first >> /\ (complete => b.kind = "other")
    <3>1. Meaning(f)[1] = first /\ Len(Meaning(f)) \in Nat \ {0}
      <4>1. CASE b.kind = "other"
        BY <2>6, <4>1, SeqOne
      <4>2. CASE b.kind \in {"dhcp", "mdns"}
        BY <2>6, <4>2
      <4>. QED BY <1>10, <4>1, <4>2
    <3>2. Hears(f, << first >>, complete)
      BY <2>5, <2>6, <2>8, <3>1, HearsOne DEF b
    <3>. QED BY <2>8, <3>2 DEF facts, complete, cells
  <2>9. ASSUME NEW p, facts = << first, p >>, TellsOf(p, f.mac, b, complete)
        PROVE  Hears(f, facts, complete)
    <3>1. Says(Read(p), SecondOf(f), b) /\ (complete => SecondOf(f) = Read(p))
      <4>1. CASE b.kind = "dhcp"
        <5>1. PICK ip, name, as :
                /\ Telling(b, complete, ip, name, as)
                /\ p = Fact("dhcp", b.client, ip, name, as)
          BY <2>9, <4>1 DEF TellsOf
        <5>2. Read(p) = p
          BY <5>1, ReadFact
        <5>3. SecondOf(f) = Fact("dhcp", b.client, b.address, Told(b, "hostname"),
                                 Told(b, "message-type"))
          BY <4>1 DEF SecondOf, b
        <5>4. Says(Fact("dhcp", b.client, ip, name, as),
                   Fact("dhcp", b.client, b.address, Told(b, "hostname"),
                        Told(b, "message-type")), b)
          BY <5>1, SaysFact DEF Telling
        <5>5. Says(p, SecondOf(f), b)
          BY <5>1, <5>3, <5>4
        <5>. QED BY <5>1, <5>2, <5>3, <5>5 DEF Telling
      <4>2. CASE b.kind = "mdns"
        <5>1. PICK ip \in {None, Host(b).ip}, name \in {None} \union Owners(b) :
                /\ p = Fact("mdns", f.mac, ip, name, None)
                /\ complete => ip = Host(b).ip /\ name = Host(b).name
          BY <2>9, <4>2 DEF TellsOf
        <5>2. Read(p) = p
          BY <5>1, ReadFact
        <5>3. SecondOf(f) = Fact("mdns", f.mac, Host(b).ip, Host(b).name, None)
          BY <4>2 DEF SecondOf, b
        <5>4. Says(p, SecondOf(f), b)
          BY <5>1, <5>3, SaysOwner
        <5>. QED BY <5>1, <5>2, <5>3, <5>4
      <4>. QED BY <2>9, <4>1, <4>2 DEF TellsOf
    <3>2. b.kind \in {"dhcp", "mdns"}
      BY <2>9 DEF TellsOf
    <3>3. Meaning(f) = << first, SecondOf(f) >>
      BY <2>6, <3>2
    <3>4. Hears(f, << first, p >>, complete)
      <4>1. Says(Read(first), first, f.body) /\ Says(Read(p), SecondOf(f), f.body)
        BY <2>5, <3>1 DEF b
      <4>2. complete => first = Read(first) /\ SecondOf(f) = Read(p)
        BY <2>5, <3>1
      <4>. QED BY <3>3, <4>1, <4>2, HearsTwo
    <3>. QED BY <2>9, <3>4
  <2>10. Hears(f, facts, complete)
    BY <2>4, <2>7, <2>8, <2>9 DEF Heard, first, facts, complete, cells
  <2>. QED BY <2>10 DEF facts, complete, cells
<1>. QED BY <1>7, <1>8, <1>9, <1>10

\* Of every frame that comes whole or in part.
LEMMA FrameShown ==
  ASSUME NEW f, WellFormed(f), ~Packed(f), NEW buf, NEW n, Shows(buf, Encode(f), n)
  PROVE  Hears(f, extractObservations(f.link, buf), n = Len(Encode(f)))
<1>. DEFINE cells == Encode(f)
            eth == decodeEthernet(buf)
            facts == extractObservations(f.link, buf)
<1>1. IsSeq(EncodeBody(f.body)) /\ EncodeBody(f.body) # <<>> /\ f.tags \in Nat
  BY BodySeq DEF WellFormed
<1>2. /\ f.tags <= MaxVlanTags /\ n <= f.tags => eth = <<>>
      /\ f.tags > MaxVlanTags => eth = <<>> \/ eth[1].type = "vlan"
  BY <1>1, EthernetShown
<1>3. n \in Nat /\ Len(cells) = f.tags + 1 + Len(EncodeBody(f.body))
      /\ Len(EncodeBody(f.body)) \in Nat
  <2>1. IsSeq(cells) /\ Len(cells) = f.tags + 1 + Len(EncodeBody(f.body))
    BY <1>1, FrameStands
  <2>2. Len(cells) \in Nat /\ Len(EncodeBody(f.body)) \in Nat
    BY <1>1, <2>1, SeqIsFunction
  <2>. HIDE DEF cells
  <2>3. n \in Nat
    BY <2>2 DEF Shows, cells
  <2>. QED BY <2>1, <2>2, <2>3
<1>. HIDE DEF eth
<1>4. f.link # "ethernet" \/ eth = <<>> \/ eth[1].type = "vlan" => facts = <<>>
  BY DEF extractObservations, eth
<1>. HIDE DEF facts, cells
<1>5. CASE f.link # "ethernet" \/ f.tags > MaxVlanTags
  <2>1. ~(f.tags <= MaxVlanTags) \/ f.link # "ethernet"
    BY <1>1, <1>5 DEF MaxVlanTags
  <2>2. Meaning(f) = <<>>
    BY <1>1, <2>1, MeaningSilent
  <2>3. facts = <<>>
    BY <1>2, <1>4, <1>5
  <2>. QED BY <2>2, <2>3, HearsNothing DEF facts
<1>6. CASE f.link = "ethernet" /\ f.tags <= MaxVlanTags /\ n <= f.tags
  <2>1. facts = <<>>
    BY <1>2, <1>4, <1>6
  <2>2. n # Len(cells)
    BY <1>1, <1>3, <1>6
  <2>. QED BY <2>1, <2>2, HearsNothing DEF facts, cells
<1>7. CASE f.link = "ethernet" /\ f.tags <= MaxVlanTags /\ n > f.tags
  BY <1>7, FrameHeard
<1>8. (f.tags > MaxVlanTags \/ f.tags <= MaxVlanTags) /\ (n > f.tags \/ n <= f.tags)
  BY <1>1, <1>3 DEF MaxVlanTags
<1>. QED BY <1>5, <1>6, <1>7, <1>8

-----------------------------------------------------------------------------
(* The reception *)

\* What is sent is a frame, and what has been seen of it is what it says.
IInv ==
  /\ sent = None => seen = None
  /\ sent # None => sent \in Frame
  /\ DecodesWhatWasSent
  /\ CutFramesInventNothing

LEMMA InitIInv == Init => IInv
BY DEF Init, IInv, DecodesWhatWasSent, CutFramesInventNothing

LEMMA StepIInv == IInv /\ [Next]_vars => IInv'
<1>. SUFFICES ASSUME IInv, [Next]_vars PROVE IInv'
  OBVIOUS
<1>1. CASE Send
  <2>1. seen = None /\ seen' = None /\ sent' \in Frame
    BY <1>1 DEF Send, IInv
  <2>. QED BY <2>1 DEF IInv, DecodesWhatWasSent, CutFramesInventNothing
<1>2. CASE Receive
  <2>1. sent \in Frame /\ sent' = sent /\ sent # None
    BY <1>2 DEF Receive, IInv
  <2>2. WellFormed(sent)
    BY <2>1, FrameAssumption
  <2>3. ASSUME ~Packed(sent) PROVE Hears(sent', seen', TRUE)
    <3>1. IsSeq(Encode(sent))
      BY <2>2, <2>3, BodySeq, FrameStands DEF WellFormed
    <3>2. Shows(Encode(sent), Encode(sent), Len(Encode(sent)))
      BY <3>1, WholeShows
    <3>3. Hears(sent, extractObservations(sent.link, Encode(sent)),
                Len(Encode(sent)) = Len(Encode(sent)))
      BY <2>2, <2>3, <3>2, FrameShown
    <3>. QED BY <1>2, <2>1, <3>3 DEF Receive
  <2>4. DecodesWhatWasSent' /\ CutFramesInventNothing'
    <3>1. CASE Packed(sent)
      BY <2>1, <3>1 DEF DecodesWhatWasSent, CutFramesInventNothing
    <3>2. CASE ~Packed(sent)
      <4>1. Meaning(sent') = Reading(seen')
        BY <2>3, <3>2 DEF Hears
      <4>2. \A i \in 1..Len(seen') :
              i <= Len(Meaning(sent')) /\ Says(Read(seen'[i]), Meaning(sent')[i], sent'.body)
        BY <2>3, <3>2 DEF Hears
      <4>3. DecodesWhatWasSent'
        BY <4>1 DEF Reading, DecodesWhatWasSent
      <4>4. CutFramesInventNothing'
        BY <4>2 DEF Says, CutFramesInventNothing
      <4>. QED BY <4>3, <4>4
    <3>. QED BY <3>1, <3>2
  <2>. QED BY <2>1, <2>4 DEF IInv
<1>3. CASE ReceiveCut
  <2>1. sent \in Frame /\ sent' = sent /\ sent # None /\ whole' = FALSE
    BY <1>3 DEF ReceiveCut, IInv
  <2>2. WellFormed(sent)
    BY <2>1, FrameAssumption
  <2>3. PICK n \in 0..(Len(Encode(sent)) - 1), partial \in BOOLEAN :
          seen' = extractObservations(sent.link, Cut(Encode(sent), n, partial))
    BY <1>3 DEF ReceiveCut
  <2>4. ASSUME ~Packed(sent) PROVE Hears(sent', seen', n = Len(Encode(sent)))
    <3>1. IsSeq(Encode(sent))
      BY <2>2, <2>4, BodySeq, FrameStands DEF WellFormed
    <3>2. Shows(Cut(Encode(sent), n, partial), Encode(sent), n)
      BY <3>1, CutShows
    <3>3. Hears(sent, extractObservations(sent.link, Cut(Encode(sent), n, partial)),
                n = Len(Encode(sent)))
      BY <2>2, <2>4, <3>2, FrameShown
    <3>. QED BY <2>1, <2>3, <3>3
  <2>5. DecodesWhatWasSent'
    BY <2>1 DEF DecodesWhatWasSent
  <2>6. CutFramesInventNothing'
    <3>1. CASE Packed(sent)
      BY <2>1, <3>1 DEF CutFramesInventNothing
    <3>2. CASE ~Packed(sent)
      <4>1. \A i \in 1..Len(seen') :
              i <= Len(Meaning(sent')) /\ Says(Read(seen'[i]), Meaning(sent')[i], sent'.body)
        BY <2>4, <3>2 DEF Hears
      <4>. QED BY <4>1 DEF Says, CutFramesInventNothing
    <3>. QED BY <3>1, <3>2
  <2>. QED BY <2>1, <2>5, <2>6 DEF IInv
<1>4. CASE Observed
  BY <1>4 DEF Observed, IInv, DecodesWhatWasSent, CutFramesInventNothing
<1>5. CASE UNCHANGED vars
  BY <1>5 DEF vars, IInv, DecodesWhatWasSent, CutFramesInventNothing
<1>. QED BY <1>1, <1>2, <1>3, <1>4, <1>5 DEF Next

\* Of any frame that is well formed, with any number of tags, header options,
\* DHCP options, questions and records in any order, a whole copy yields what
\* its sender said (extractObservations and the decoders behind it).
THEOREM DecodesWhatWasSentHolds == Spec => []DecodesWhatWasSent
<1>1. IInv => DecodesWhatWasSent
  BY DEF IInv
<1>. QED BY <1>1, InitIInv, StepIInv, PTL DEF Spec

\* Cut at any cell, or within one, it yields nothing that its sender did not say.
THEOREM CutFramesInventNothingHolds == Spec => []CutFramesInventNothing
<1>1. IInv => CutFramesInventNothing
  BY DEF IInv
<1>. QED BY <1>1, InitIInv, StepIInv, PTL DEF Spec
================================================================================
