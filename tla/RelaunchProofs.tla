--------------------------- MODULE RelaunchProofs ---------------------------
(***************************************************************************)
(* Proof that the ramps of an armed run tile, for any sequences, windows   *)
(* and ramps: _resolve_steps places no level over another's dwell.     *)
(***************************************************************************)
EXTENDS Relaunch, TLAPS, WellFoundedInduction, FiniteSetTheorems

-----------------------------------------------------------------------------
(* The greatest of some numbers, and the members of a set by their rank.   *)

\* Induction over the numbers goes by the least counterexample.
Less == {p \in Nat \X Nat : p[1] < p[2]}

\* Any numbers have a least one.
LEMMA LeastNatural ==
  ASSUME NEW T \in SUBSET Nat, T # {}
  PROVE  \E m \in T : \A k \in T : m <= k
<1>1. IsWellFoundedOn(Less, Nat)
  BY NatLessThanWellFounded DEF OpToRel, Less
<1>2. PICK m \in T : \A k \in T : <<k, m>> \notin Less
  BY <1>1, WFMin
<1>3. \A k \in T : ~(k < m)
  BY <1>2 DEF Less
<1> QED
  BY <1>3

\* Furthest gives the greatest of the numbers when they are bounded.
LEMMA FurthestBounded ==
  ASSUME NEW S \in SUBSET Int, S # {}, NEW b \in Int, \A x \in S : x <= b
  PROVE  Furthest(S) \in S /\ \A y \in S : y <= Furthest(S)
<1> DEFINE T == {b - x : x \in S}
<1>1. T \in SUBSET Nat /\ T # {}
  <2>1. \A x \in S : x \in Int /\ x <= b /\ b - x \in Nat
    OBVIOUS
  <2> QED
    BY <2>1
<1>2. PICK m \in T : \A k \in T : m <= k
  BY <1>1, LeastNatural
<1>3. PICK x \in S : m = b - x
  BY <1>2
<1>4. \A y \in S : y <= x
  BY <1>2, <1>3
<1> QED
  BY <1>3, <1>4 DEF Furthest

\* The numbers in the slots of a table are bounded.
LEMMA Bounded ==
  ASSUME NEW n \in Nat, NEW f \in [1 .. n -> Int]
  PROVE  \E b \in Int : \A i \in 1 .. n : f[i] <= b
<1> DEFINE Up(m) == \E b \in Int : \A i \in 1 .. m : f[i] <= b
           T == {m \in 0 .. n : ~Up(m)}
<1> SUFFICES ASSUME T # {} PROVE FALSE
  <2>1. n \in 0 .. n
    OBVIOUS
  <2>2. T = {} => Up(n)
    BY <2>1
  <2> QED
    BY <2>2
<1>0. T \in SUBSET Nat
  OBVIOUS
<1>1. PICK m \in T : \A k \in T : m <= k
  BY <1>0, LeastNatural
<1>2. m \in 0 .. n /\ ~Up(m)
  BY <1>1
<1>3. m # 0
  <2>1. \A i \in 1 .. 0 : f[i] <= 0
    OBVIOUS
  <2>2. Up(0)
    BY <2>1
  <2> QED
    BY <1>2, <2>2
<1>4. m - 1 \in 0 .. n /\ ~(m <= m - 1)
  BY <1>2, <1>3
<1>5. Up(m - 1)
  <2>1. m - 1 \notin T
    BY <1>1, <1>4
  <2> QED
    BY <2>1, <1>4
<1>6. PICK b \in Int : \A i \in 1 .. m - 1 : f[i] <= b
  BY <1>5
<1>7. m \in 1 .. n /\ f[m] \in Int
  BY <1>2, <1>3
<1>8. \A i \in 1 .. m : i \in 1 .. m - 1 \/ i = m
  BY <1>2
<1>9. PICK c \in Int : b <= c /\ f[m] <= c
  <2>1. CASE b <= f[m]
    BY <2>1, <1>7
  <2>2. CASE ~(b <= f[m])
    BY <2>2, <1>7
  <2> QED
    BY <2>1, <2>2
<1>10. \A i \in 1 .. m : f[i] <= c
  <2> TAKE i \in 1 .. m
  <2>1. CASE i = m
    BY <2>1, <1>9
  <2>2. CASE i \in 1 .. m - 1
    <3>1. i \in 1 .. n /\ f[i] \in Int
      BY <1>2
    <3>2. f[i] <= b
      BY <2>2, <1>6
    <3> QED
      BY <3>1, <3>2, <1>9
  <2> QED
    BY <2>1, <2>2, <1>8
<1>11. Up(m)
  BY <1>10
<1> QED
  BY <1>2, <1>11

\* What Furthest gives of a number and of the instants of some slots.
LEMMA FurthestOf ==
  ASSUME NEW n \in Nat, NEW f \in [1 .. n -> Int], NEW D \in SUBSET (1 .. n), NEW e \in Int
  PROVE  LET m == Furthest({e} \cup {f[i] : i \in D}) IN
         m \in Int /\ e <= m /\ (\A i \in D : f[i] <= m) /\ (m = e \/ \E i \in D : m = f[i])
<1> DEFINE S == {e} \cup {f[i] : i \in D}
<1>1. PICK b \in Int : \A i \in 1 .. n : f[i] <= b
  BY Bounded
<1>2. PICK c \in Int : b <= c /\ e <= c
  <2>1. CASE b <= e
    BY <2>1
  <2>2. CASE ~(b <= e)
    BY <2>2
  <2> QED
    BY <2>1, <2>2
<1>3. \A i \in D : f[i] \in Int /\ f[i] <= c
  BY <1>1, <1>2
<1>4. S \in SUBSET Int /\ S # {} /\ \A x \in S : x <= c
  BY <1>2, <1>3
<1>5. Furthest(S) \in S /\ \A y \in S : y <= Furthest(S)
  BY <1>4, FurthestBounded
<1> QED
  BY <1>4, <1>5

\* In a finite set with a strict order each rank is that of one member.
LEMMA RankMember ==
  ASSUME NEW S, IsFiniteSet(S), NEW R,
         \A x \in S : <<x, x>> \notin R,
         \A x, y, z \in S : <<x, y>> \in R /\ <<y, z>> \in R => <<x, z>> \in R,
         \A x, y \in S : x = y \/ <<x, y>> \in R \/ <<y, x>> \in R,
         NEW n \in 1 .. Cardinality(S)
  PROVE  \E x \in S : Cardinality({y \in S : <<y, x>> \in R}) = n - 1
<1> DEFINE below(x) == {y \in S : <<y, x>> \in R}
           T == 0 .. Cardinality(S) - 1
           rank == [x \in S |-> Cardinality(below(x))]
<1>1. Cardinality(S) \in Nat
  BY FS_CardinalityType
<1>2. \A x \in S : IsFiniteSet(below(x)) /\ Cardinality(below(x)) \in T
  <2> SUFFICES ASSUME NEW x \in S PROVE IsFiniteSet(below(x)) /\ Cardinality(below(x)) \in T
    OBVIOUS
  <2>1. below(x) \in SUBSET S /\ x \notin below(x)
    OBVIOUS
  <2>2. /\ IsFiniteSet(below(x)) /\ Cardinality(below(x)) <= Cardinality(S)
        /\ Cardinality(S) = Cardinality(below(x)) => S = below(x)
    BY <2>1, FS_Subset
  <2>3. Cardinality(below(x)) \in Nat
    BY <2>2, FS_CardinalityType
  <2> QED
    BY <1>1, <2>1, <2>2, <2>3
<1>3. \A x, y \in S : <<x, y>> \in R => Cardinality(below(x)) < Cardinality(below(y))
  <2> SUFFICES ASSUME NEW x \in S, NEW y \in S, <<x, y>> \in R
               PROVE  Cardinality(below(x)) < Cardinality(below(y))
    OBVIOUS
  <2>1. below(x) \in SUBSET below(y) /\ x \in below(y) /\ x \notin below(x)
    OBVIOUS
  <2>2. /\ Cardinality(below(x)) <= Cardinality(below(y))
        /\ Cardinality(below(y)) = Cardinality(below(x)) => below(y) = below(x)
    BY <1>2, <2>1, FS_Subset
  <2>3. below(x) # below(y)
    BY <2>1
  <2> HIDE DEF below
  <2> QED
    BY <1>2, <2>2, <2>3
<1>4. rank \in [S -> T]
  BY <1>2
<1>5. \A x, y \in S : rank[x] = rank[y] => x = y
  <2> SUFFICES ASSUME NEW x \in S, NEW y \in S, rank[x] = rank[y] PROVE x = y
    OBVIOUS
  <2>1. Cardinality(below(x)) = Cardinality(below(y)) /\ Cardinality(below(x)) \in T
    BY <1>2
  <2>2. <<x, y>> \notin R /\ <<y, x>> \notin R
    <3> HIDE DEF below
    <3> QED
      BY <1>3, <2>1
  <2> QED
    BY <2>2
<1>6. rank \in Injection(S, T)
  BY <1>4, <1>5 DEF Injection, IsInjective
<1>7. IsFiniteSet(T) /\ Cardinality(T) = Cardinality(S)
  <2>1. 0 \in Int /\ Cardinality(S) - 1 \in Int
    BY <1>1
  <2>2. /\ IsFiniteSet(T)
        /\ Cardinality(T) = IF 0 > Cardinality(S) - 1 THEN 0 ELSE Cardinality(S) - 1 - 0 + 1
    BY <2>1, FS_Interval
  <2> QED
    BY <1>1, <2>2
<1>8. rank \in Surjection(S, T)
  BY <1>6, <1>7, FS_Injection
<1>9. n - 1 \in T
  BY <1>1
<1> QED
  BY <1>8, <1>9 DEF Surjection

-----------------------------------------------------------------------------
(* Ramps: how many levels there are and how long each is held.             *)

\* A ladder of n increments has n + 1 levels.
LEMMA LadderOf ==
  ASSUME NEW r, NEW n \in Nat
  PROVE  LET full == Ladder(r, n) IN
         /\ full \in Seq({full[i] : i \in 1 .. n + 1})
         /\ Len(full) = n + 1
<1> DEFINE full == Ladder(r, n)
           T == {full[i] : i \in 1 .. n + 1}
<1>1. DOMAIN full = 1 .. n + 1 /\ full = [i \in 1 .. n + 1 |-> full[i]]
  BY DEF Ladder
<1> HIDE DEF full
<1>2. full \in [1 .. n + 1 -> T]
  BY <1>1
<1>3. n + 1 \in Nat
  OBVIOUS
<1> HIDE DEF T
<1>4. full \in Seq(T) /\ Len(full) = n + 1
  BY <1>1, <1>2, <1>3
<1> QED
  BY <1>4 DEF full, T

\* A ramp that says how it is divided has a whole number of increments.
LEMMA IncrementsOf ==
  ASSUME NEW r \in RampType, NEW span \in Int, r.step > 0 \/ r.steps > 0 \/ r.hold > 0
  PROVE  Increments(r, span) \in Int
<1>1. /\ r.step \in Nat /\ r.steps \in Nat /\ r.hold \in Nat
      /\ r.start \in Int /\ r.stop \in Int
  BY DEF RampType
<1>2. CASE r.step > 0
  <2>1. Size(r.stop - r.start) \in Int
    BY <1>1 DEF Size
  <2>2. RoundUp(Size(r.stop - r.start), r.step) \in Int
    BY <1>1, <1>2, <2>1 DEF RoundUp
  <2> QED
    BY <1>1, <1>2, <2>2 DEF Increments, Upper
<1>3. CASE r.step = 0 /\ r.steps > 0
  BY <1>1, <1>3 DEF Increments
<1>4. CASE r.step = 0 /\ r.steps = 0 /\ r.hold > 0
  <2>1. span \div r.hold \in Int
    BY <1>1, <1>4
  <2>2. Nearest(span, r.hold) \in Int
    BY <2>1 DEF Nearest
  <2>3. Increments(r, span) = Nearest(span, r.hold) - 1
    BY <1>1, <1>4 DEF Increments
  <2> QED
    BY <2>2, <2>3
<1> QED
  BY <1>1, <1>2, <1>3, <1>4

\* What is left of a ladder is numbered from 1 on.
LEMMA TrimOf ==
  ASSUME NEW r \in RampType, NEW S, NEW full \in Seq(S)
  PROVE  /\ Len(Trim(r, full)) \in Nat
         /\ DOMAIN Trim(r, full) = 1 .. Len(Trim(r, full))
<1> DEFINE a == IF r.first THEN 1 ELSE 2
           b == IF r.last THEN Len(full) ELSE Len(full) - 1
<1>1. a \in 1 .. 2 /\ b \in Int /\ b <= Len(full) /\ Len(full) \in Nat
  OBVIOUS
<1> HIDE DEF a, b
<1>2. SubSeq(full, a, b) \in Seq(S)
  BY <1>1
<1>3. Trim(r, full) = SubSeq(full, a, b)
  BY DEF Trim, a, b
<1> QED
  BY <1>2, <1>3

\* A ramp that is accepted has levels, and a dwell.
LEMMA ResolvedOf ==
  ASSUME NEW r \in RampType, WellFormed(r)
  PROVE  /\ Len(Resolved(r).values) \in Nat
         /\ DOMAIN Resolved(r).values = 1 .. Len(Resolved(r).values)
         /\ Resolved(r).hold \in Nat
<1> DEFINE n == Increments(r, r.dur)
           full == Ladder(r, n)
<1>1. /\ r.step > 0 \/ r.steps > 0 \/ r.hold > 0
      /\ n >= 1 /\ r.dur \in Nat /\ r.hold \in Nat
  BY DEF WellFormed, RampType
<1>2. n \in Nat
  BY <1>1, IncrementsOf
<1> HIDE DEF n
<1>3. full \in Seq({full[i] : i \in 1 .. n + 1}) /\ Len(full) = n + 1
  BY <1>2, LadderOf
<1> HIDE DEF full
<1>4. Dwell(r, full) \in Nat
  <2>1. r.dur \div (n + 1) \in Nat
    BY <1>1, <1>2
  <2> QED
    BY <1>1, <1>3, <2>1 DEF Dwell
<1>5. Resolved(r).values = Trim(r, full) /\ Resolved(r).hold = Dwell(r, full)
  BY DEF Resolved, full, n
<1> QED
  BY <1>3, <1>4, <1>5, TrimOf

\* So has one that fills the window.
LEMMA FillingOf ==
  ASSUME NEW r \in RampType, NEW window \in Int, FillsWindow(r, window)
  PROVE  /\ Len(Filling(r, window).values) \in Nat
         /\ DOMAIN Filling(r, window).values = 1 .. Len(Filling(r, window).values)
         /\ Filling(r, window).hold \in Nat
<1>7. Spread(r) \in RampType
  BY DEF Spread, RampType
<1>8. PICK even \in RampType : even = Spread(r)
  BY <1>7
<1> DEFINE n == Upper(1, Increments(even, window))
           full == Ladder(even, n)
<1>1. even.step > 0 \/ even.steps > 0 \/ even.hold > 0
  BY <1>8 DEF FillsWindow, Spread, RampType
<1>2. n \in Nat
  BY <1>1, IncrementsOf DEF Upper
<1> HIDE DEF n
<1>3. full \in Seq({full[i] : i \in 1 .. n + 1}) /\ Len(full) = n + 1
  BY <1>2, LadderOf
<1> HIDE DEF full
<1>4. window \div (n + 1) \in Int
  BY <1>2
<1>5. Filling(r, window).values = full /\ Filling(r, window).hold = window \div Len(full)
  BY <1>8 DEF Filling, full, n
<1>6. Filling(r, window).hold > 0
  BY DEF FillsWindow
<1> QED
  BY <1>2, <1>3, <1>4, <1>5, <1>6

-----------------------------------------------------------------------------
(* Points: where a step of a sequence that is accepted has its fires.      *)

\* What is numbered from 1 to n has length n.
LEMMA Numbered ==
  ASSUME NEW n \in Nat, NEW f, f = [k \in 1 .. n |-> f[k]]
  PROVE  DOMAIN f = 1 .. n /\ Len(f) = n
<1> DEFINE T == {f[k] : k \in 1 .. n}
<1>1. f \in [1 .. n -> T]
  OBVIOUS
<1> HIDE DEF T
<1>2. f \in Seq(T)
  BY <1>1
<1> QED
  BY <1>1, <1>2

\* The points of a step are as far apart as each is held, 0 if it is no ramp,
\* and run up to its offset if it is timed from off-air.
LEMMA PointsOf ==
  ASSUME NEW seq \in Sequence, NEW w \in Window, Valid(seq), NEW i \in DOMAIN seq
  PROVE  \E n, h \in Nat :
           LET s == seq[i]  points == Points(seq[i], w) IN
           /\ DOMAIN points = 1 .. n /\ Len(points) = n
           /\ \A k \in 1 .. n :
                /\ points[k].dwell = h
                /\ points[k].off = IF s.anchor = "stop" THEN s.off - (n - k + 1) * h
                                   ELSE s.off + (k - 1) * h
           /\ s.act # "ramp" => n = 1 /\ h = 0
           /\ s.anchor # "both" => Span(s) = n * h
<1> DEFINE s == seq[i]
           points == Points(s, w)
<1>1. s.off \in Int /\ s.end \in Int /\ s.ramp \in RampType /\ w.on \in Nat /\ w.off \in Nat
  BY SequenceAssumption, RelaunchAssumption
<1>2. CASE s.act # "ramp"
  <2>1. points = <<[off |-> s.off, set |-> s.set, dwell |-> 0]>>
    BY <1>2 DEF Points
  <2>2. DOMAIN points = 1 .. 1 /\ Len(points) = 1
    BY <2>1
  <2>3. points[1].dwell = 0 /\ points[1].off = s.off
    BY <2>1
  <2>4. Span(s) = 0
    BY <1>2 DEF Span
  <2>5. \A k \in 1 .. 1 :
          /\ points[k].dwell = 0
          /\ points[k].off = IF s.anchor = "stop" THEN s.off - (1 - k + 1) * 0
                             ELSE s.off + (k - 1) * 0
    BY <1>1, <2>3
  <2> HIDE DEF s, points
  <2>6. 1 \in Nat /\ 0 \in Nat /\ Span(s) = 1 * 0
    BY <2>4
  <2>7. s.act # "ramp" => 1 = 1 /\ 0 = 0
    OBVIOUS
  <2>8. \E n, h \in Nat :
           /\ DOMAIN points = 1 .. n /\ Len(points) = n
           /\ \A k \in 1 .. n :
                /\ points[k].dwell = h
                /\ points[k].off = IF s.anchor = "stop" THEN s.off - (n - k + 1) * h
                                   ELSE s.off + (k - 1) * h
           /\ s.act # "ramp" => n = 1 /\ h = 0
           /\ s.anchor # "both" => Span(s) = n * h
    BY <2>2, <2>5, <2>6
  <2> QED
    BY <2>8 DEF s, points
<1>3. CASE s.act = "ramp"
  <2> DEFINE ramp == RampOf(s, w)
             n == Len(ramp.values)
             h == ramp.hold
  <2>1. /\ n \in Nat /\ DOMAIN ramp.values = 1 .. n /\ h \in Nat
        /\ s.anchor # "both" => ramp = Resolved(s.ramp)
    <3>1. CASE s.anchor = "both"
      <4> DEFINE window == w.off - w.on - s.off + s.end
      <4>1. window \in Int
        BY <1>1
      <4>2. CASE FillsWindow(s.ramp, window)
        <5>1. ramp = Filling(s.ramp, window)
          BY <3>1, <4>2 DEF RampOf
        <5> HIDE DEF s, ramp, window
        <5> QED
          BY <1>1, <3>1, <4>1, <4>2, <5>1, FillingOf
      <4>3. CASE ~FillsWindow(s.ramp, window)
        <5>1. ramp = [values |-> <<>>, hold |-> 0]
          BY <3>1, <4>3 DEF RampOf
        <5>2. Len(<<>>) = 0 /\ DOMAIN <<>> = 1 .. 0
          OBVIOUS
        <5> QED
          BY <3>1, <5>1, <5>2
      <4> QED
        BY <4>2, <4>3
    <3>2. CASE s.anchor # "both"
      <4>1. WellFormed(s.ramp)
        BY <1>3, <3>2 DEF Valid
      <4>2. ramp = Resolved(s.ramp)
        BY <3>2 DEF RampOf
      <4> HIDE DEF s, ramp
      <4> QED
        BY <1>1, <4>1, <4>2, ResolvedOf
    <3> QED
      BY <3>1, <3>2
  <2>2. points = [k \in 1 .. n |-> [off   |-> Offset(s.anchor = "stop", s.off, ramp, k),
                                    set   |-> s.param :> ramp.values[k],
                                    dwell |-> h]]
    BY <1>3, <2>1 DEF Points
  <2>3. s.anchor # "both" => Span(s) = n * h
    BY <1>3, <2>1 DEF Span
  <2>4. \A k \in 1 .. n :
          /\ points[k].dwell = h
          /\ points[k].off = IF s.anchor = "stop" THEN s.off - (n - k + 1) * h
                             ELSE s.off + (k - 1) * h
    BY <2>1, <2>2 DEF Offset
  <2>5. DOMAIN points = 1 .. n /\ points = [k \in 1 .. n |-> points[k]]
    BY <2>2
  <2> HIDE DEF s, points, ramp, n, h
  <2>6. Len(points) = n
    BY <2>1, <2>5, Numbered
  <2>7. \E m, g \in Nat :
           /\ DOMAIN points = 1 .. m /\ Len(points) = m
           /\ \A k \in 1 .. m :
                /\ points[k].dwell = g
                /\ points[k].off = IF s.anchor = "stop" THEN s.off - (m - k + 1) * g
                                   ELSE s.off + (k - 1) * g
           /\ s.act # "ramp" => m = 1 /\ g = 0
           /\ s.anchor # "both" => Span(s) = m * g
    BY <1>3, <2>1, <2>3, <2>4, <2>5, <2>6
  <2> QED
    BY <2>7 DEF s, points
<1> QED
  BY <1>2, <1>3

-----------------------------------------------------------------------------
(* Bases: what hangs off another step has an instant, as no circle of steps *)
(* is accepted.                                                            *)

\* What Rooted computes, step by step.
Reached(seq, r, k) ==
  {i \in DOMAIN seq : seq[i].anchor # "step" \/ (k > 0 /\ seq[i].of \in r[k - 1])}
Roots(seq, r) == [k \in 0 .. Len(seq) |-> Reached(seq, r, k)]

\* Its recursion has a solution.
LEMMA RootedIs ==
  ASSUME NEW seq \in Sequence
  PROVE  \E r : r = Roots(seq, r) /\ Rooted(seq) = r[Len(seq)]
<1> DEFINE L == Len(seq)
           Ex(m) == \E r \in [0 .. m -> SUBSET DOMAIN seq] :
                      \A k \in 0 .. m : r[k] = Reached(seq, r, k)
           T == {m \in 0 .. L : ~Ex(m)}
<1>1. L \in Nat
  BY SequenceAssumption
<1> HIDE DEF L
<1>2. T = {}
  <2> SUFFICES ASSUME T # {} PROVE FALSE
    OBVIOUS
  <2>1. T \in SUBSET Nat
    BY <1>1
  <2>2. PICK m \in T : \A k \in T : m <= k
    BY <2>1, LeastNatural
  <2>3. m \in 0 .. L /\ ~Ex(m)
    BY <2>2
  <2>4. m # 0
    <3> DEFINE r == [k \in 0 .. 0 |-> {i \in DOMAIN seq : seq[i].anchor # "step"}]
    <3>1. r \in [0 .. 0 -> SUBSET DOMAIN seq] /\ \A k \in 0 .. 0 : r[k] = Reached(seq, r, k)
      BY DEF Reached
    <3>2. Ex(0)
      BY <3>1
    <3> QED
      BY <2>3, <3>2
  <2>5. m - 1 \in 0 .. L /\ m - 1 \notin T
    BY <1>1, <2>2, <2>3, <2>4
  <2>6. PICK r \in [0 .. m - 1 -> SUBSET DOMAIN seq] :
          \A k \in 0 .. m - 1 : r[k] = Reached(seq, r, k)
    BY <2>5
  <2> DEFINE q == [k \in 0 .. m |-> IF k = m THEN Reached(seq, r, m) ELSE r[k]]
  <2>7. \A k \in 0 .. m : k = m \/ k \in 0 .. m - 1
    BY <2>3
  <2>8. q \in [0 .. m -> SUBSET DOMAIN seq]
    BY <2>6, <2>7 DEF Reached
  <2>9. ASSUME NEW k \in 0 .. m PROVE q[k] = Reached(seq, q, k)
    <3>1. k > 0 => q[k - 1] = r[k - 1]
      BY <2>3, <2>7
    <3>2. Reached(seq, q, k) = Reached(seq, r, k)
      <4> HIDE DEF q
      <4> QED
        BY <3>1 DEF Reached
    <3> QED
      BY <2>6, <2>7, <3>2
  <2>10. Ex(m)
    <3> HIDE DEF q
    <3> QED
      BY <2>8, <2>9
  <2> QED
    BY <2>3, <2>10
<1>3. Ex(L)
  <2>1. L \in 0 .. L
    BY <1>1
  <2> QED
    BY <1>2, <2>1
<1>4. \E r : r = Roots(seq, r)
  <2>1. PICK r \in [0 .. L -> SUBSET DOMAIN seq] : \A k \in 0 .. L : r[k] = Reached(seq, r, k)
    BY <1>3
  <2>2. r = [k \in 0 .. L |-> r[k]]
    OBVIOUS
  <2>3. r = [k \in 0 .. L |-> Reached(seq, r, k)]
    BY <2>1, <2>2
  <2> QED
    BY <2>3 DEF Roots, L
<1> DEFINE q == CHOOSE x : x = Roots(seq, x)
<1>5. q = Roots(seq, q)
  BY <1>4
<1>6. Rooted(seq) = q[Len(seq)]
  BY DEF Rooted, Roots, Reached
<1> QED
  BY <1>5, <1>6

\* A value that a root has and that grows by something along each anchor is
\* determined for every step.
LEMMA Walk ==
  ASSUME NEW seq \in Sequence, Rooted(seq) = DOMAIN seq,
         NEW more \in [DOMAIN seq -> Int], NEW root \in [DOMAIN seq -> Int]
  PROVE  /\ \A i \in DOMAIN seq : seq[i].anchor = "step" => seq[i].of \in DOMAIN seq
         /\ \E f \in [DOMAIN seq -> Int] : \A i \in DOMAIN seq :
              f[i] = IF seq[i].anchor = "step" THEN f[seq[i].of] + more[i] ELSE root[i]
<1> DEFINE D == DOMAIN seq
           L == Len(seq)
<1>1. L \in Nat
  BY SequenceAssumption
<1>2. PICK r : r = Roots(seq, r) /\ Rooted(seq) = r[L]
  BY RootedIs
<1>3. \A k \in 0 .. L : r[k] = Reached(seq, r, k)
  BY <1>2 DEF Roots
<1>4. r[L] = D
  BY <1>2
<1> HIDE DEF L
<1> DEFINE Solves(X, f) ==
             /\ f \in [X -> Int]
             /\ \A i \in X : seq[i].anchor = "step" => seq[i].of \in X
             /\ \A i \in X : f[i] = IF seq[i].anchor = "step" THEN f[seq[i].of] + more[i]
                                    ELSE root[i]
           Ex(m) == \E X \in SUBSET D : r[m] \subseteq X /\ \E f : Solves(X, f)
           T == {m \in 0 .. L : ~Ex(m)}
<1>5. T = {}
  <2> SUFFICES ASSUME T # {} PROVE FALSE
    OBVIOUS
  <2>1. T \in SUBSET Nat
    BY <1>1
  <2>2. PICK m \in T : \A k \in T : m <= k
    BY <2>1, LeastNatural
  <2>3. m \in 0 .. L /\ ~Ex(m)
    BY <2>2
  <2>4. m # 0
    <3> DEFINE X == {i \in D : seq[i].anchor # "step"}
               f == [i \in X |-> root[i]]
    <3>1. 0 \in 0 .. L /\ r[0] = X
      BY <1>1, <1>3 DEF Reached
    <3>2. Solves(X, f)
      OBVIOUS
    <3>3. X \in SUBSET D
      OBVIOUS
    <3>4. Ex(0)
      <4> HIDE DEF X, f, Solves
      <4> QED
        BY <3>1, <3>2, <3>3
    <3> QED
      BY <2>3, <3>4
  <2>5. m - 1 \in 0 .. L /\ m - 1 \notin T
    <3> HIDE DEF T, Ex
    <3> QED
      BY <1>1, <2>2, <2>3, <2>4
  <2>6. Ex(m - 1)
    <3> HIDE DEF Ex
    <3> QED
      BY <2>5
  <2>7. PICK X, f : X \in SUBSET D /\ r[m - 1] \subseteq X /\ Solves(X, f)
    <3> HIDE DEF Solves
    <3> QED
      BY <2>6
  <2> DEFINE Y == X \cup r[m]
             g == [i \in Y |-> IF i \in X THEN f[i]
                               ELSE IF seq[i].anchor = "step" THEN f[seq[i].of] + more[i]
                               ELSE root[i]]
  <2>8. r[m] = Reached(seq, r, m)
    BY <1>3, <2>3
  <2>9. Y \in SUBSET D
    BY <2>7, <2>8 DEF Reached
  <2>10. \A i \in Y : seq[i].anchor = "step" => seq[i].of \in X
    BY <2>3, <2>4, <2>7, <2>8 DEF Reached
  <2>11. f \in [X -> Int]
    BY <2>7
  <2>12. g \in [Y -> Int]
    <3> SUFFICES ASSUME NEW i \in Y PROVE g[i] \in Int
      OBVIOUS
    <3>1. more[i] \in Int /\ root[i] \in Int
      BY <2>9
    <3> QED
      BY <2>10, <2>11, <3>1
  <2>13. \A i \in Y : g[i] = IF seq[i].anchor = "step" THEN g[seq[i].of] + more[i] ELSE root[i]
    <3> SUFFICES ASSUME NEW i \in Y
                 PROVE  g[i] = IF seq[i].anchor = "step" THEN g[seq[i].of] + more[i] ELSE root[i]
      OBVIOUS
    <3>1. seq[i].anchor = "step" => g[seq[i].of] = f[seq[i].of]
      BY <2>10
    <3>2. i \in X => f[i] = IF seq[i].anchor = "step" THEN f[seq[i].of] + more[i] ELSE root[i]
      BY <2>7
    <3> QED
      BY <3>1, <3>2
  <2>14. \A i \in Y : seq[i].anchor = "step" => seq[i].of \in Y
    BY <2>10
  <2>15. Ex(m)
    <3> HIDE DEF g
    <3>1. Solves(Y, g)
      BY <2>12, <2>13, <2>14
    <3> HIDE DEF Solves
    <3> QED
      BY <2>9, <3>1
  <2> QED
    BY <2>3, <2>15
<1>6. Ex(L)
  <2>1. L \in 0 .. L
    BY <1>1
  <2> HIDE DEF Ex
  <2> QED
    BY <1>5, <2>1
<1>7. PICK X \in SUBSET D : r[L] \subseteq X /\ \E f : Solves(X, f)
  BY <1>6
<1>8. X = D
  BY <1>4, <1>7
<1>9. PICK f : Solves(D, f)
  BY <1>7, <1>8
<1> QED
  BY <1>9

\* Whatever satisfies such a recursion has numbers for values.
LEMMA WalkNumbers ==
  ASSUME NEW seq \in Sequence, Rooted(seq) = DOMAIN seq,
         NEW more \in [DOMAIN seq -> Int], NEW root \in [DOMAIN seq -> Int],
         NEW f, \A i \in DOMAIN seq :
           f[i] = IF seq[i].anchor = "step" THEN f[seq[i].of] + more[i] ELSE root[i]
  PROVE  \A i \in DOMAIN seq : f[i] \in Int
<1> DEFINE D == DOMAIN seq
           L == Len(seq)
<1>1. L \in Nat
  BY SequenceAssumption
<1>2. PICK r : r = Roots(seq, r) /\ Rooted(seq) = r[L]
  BY RootedIs
<1>3. \A k \in 0 .. L : r[k] = Reached(seq, r, k)
  BY <1>2 DEF Roots
<1>4. r[L] = D
  BY <1>2
<1> HIDE DEF L
<1> DEFINE T == {m \in 0 .. L : ~\A i \in r[m] : f[i] \in Int}
<1>5. T = {}
  <2> SUFFICES ASSUME T # {} PROVE FALSE
    OBVIOUS
  <2>1. T \in SUBSET Nat
    BY <1>1
  <2>2. PICK m \in T : \A k \in T : m <= k
    BY <2>1, LeastNatural
  <2>3. PICK i \in r[m] : f[i] \notin Int
    BY <2>2
  <2>4. m \in 0 .. L /\ r[m] = Reached(seq, r, m)
    BY <1>3, <2>2
  <2>5. /\ i \in D /\ more[i] \in Int /\ root[i] \in Int
        /\ seq[i].anchor # "step" \/ (m > 0 /\ seq[i].of \in r[m - 1])
        /\ f[i] = IF seq[i].anchor = "step" THEN f[seq[i].of] + more[i] ELSE root[i]
    BY <2>3, <2>4 DEF Reached
  <2>6. m > 0 => m - 1 \in 0 .. L /\ m - 1 \notin T
    <3> HIDE DEF T
    <3> QED
      BY <1>1, <2>1, <2>2, <2>4
  <2> QED
    BY <2>3, <2>5, <2>6
<1> QED
  <2>1. L \in 0 .. L
    BY <1>1
  <2> QED
    BY <1>4, <1>5, <2>1

\* Steps are only anchored to an edge that there is.
HasEdge(s, w, edge) ==
  Len(Points(s, w)) >= IF s.act = "ramp" /\ edge # "start" THEN 2 ELSE 1
Anchorable ==
  \A seq \in Sequence, w \in Window : \A i \in DOMAIN seq :
    (Valid(seq) /\ seq[i].anchor = "step") => HasEdge(seq[seq[i].of], w, seq[i].edge)

\* A step that has an edge has it at an instant.
LEMMA EdgeOf ==
  ASSUME NEW seq \in Sequence, NEW w \in Window, Valid(seq), NEW i \in DOMAIN seq,
         NEW edge, HasEdge(seq[i], w, edge)
  PROVE  Edge(edge, Points(seq[i], w)) \in Int
<1> DEFINE s == seq[i]
           points == Points(s, w)
<1>1. PICK n, h \in Nat :
           /\ Len(points) = n
           /\ \A k \in 1 .. n :
                points[k].off = IF s.anchor = "stop" THEN s.off - (n - k + 1) * h
                                ELSE s.off + (k - 1) * h
  BY PointsOf
<1>2. s.off \in Int
  BY SequenceAssumption
<1>3. n >= 1
  BY <1>1 DEF HasEdge
<1> HIDE DEF s, points
<1>4. \A k \in 1 .. n : points[k].off \in Int
  <2> SUFFICES ASSUME NEW k \in 1 .. n PROVE points[k].off \in Int
    OBVIOUS
  <2>1. (n - k + 1) * h \in Int /\ (k - 1) * h \in Int
    BY <1>1
  <2> QED
    BY <1>1, <1>2, <2>1
<1>5. points[1].off \in Int
  BY <1>3, <1>4
<1>6. n >= 2 => points[n].off \in Int /\ points[n - 1].off \in Int
  BY <1>4
<1>7. Edge(edge, points) \in Int
  BY <1>1, <1>5, <1>6 DEF Edge
<1> QED
  BY <1>7 DEF s, points

\* The instant of every step's base.
LEMMA BasesIs ==
  ASSUME Anchorable, NEW seq \in Sequence, NEW w \in Window, Valid(seq)
  PROVE  /\ Bases(seq, w) \in [DOMAIN seq -> Int]
         /\ \A i \in DOMAIN seq :
              /\ seq[i].anchor = "step" => seq[i].of \in DOMAIN seq
              /\ Bases(seq, w)[i] =
                   IF seq[i].anchor = "step"
                   THEN Bases(seq, w)[seq[i].of] + Edge(seq[i].edge, Points(seq[seq[i].of], w))
                   ELSE IF seq[i].anchor = "stop" THEN w.off ELSE w.on
<1> DEFINE D == DOMAIN seq
           edge(i) == Edge(seq[i].edge, Points(seq[seq[i].of], w))
           more == [i \in D |-> IF seq[i].anchor = "step" THEN edge(i) ELSE 0]
           root == [i \in D |-> IF seq[i].anchor = "stop" THEN w.off ELSE w.on]
           body(b) == [i \in D |-> IF seq[i].anchor = "step" THEN b[seq[i].of] + edge(i)
                                   ELSE IF seq[i].anchor = "stop" THEN w.off ELSE w.on]
<1>1. Rooted(seq) = D
  BY DEF Valid
<1>2. root \in [D -> Int]
  BY RelaunchAssumption
<1>3. \A i \in D : seq[i].anchor = "step" => seq[i].of \in D
  <2>1. [i \in D |-> 0] \in [D -> Int]
    OBVIOUS
  <2> HIDE DEF root
  <2> QED
    BY <1>1, <1>2, <2>1, Walk
<1>4. more \in [D -> Int]
  <2> SUFFICES ASSUME NEW i \in D, seq[i].anchor = "step" PROVE edge(i) \in Int
    OBVIOUS
  <2> QED
    BY <1>3, EdgeOf DEF Anchorable
<1>5. PICK f \in [D -> Int] : \A i \in D :
        f[i] = IF seq[i].anchor = "step" THEN f[seq[i].of] + more[i] ELSE root[i]
  <2> HIDE DEF more, root
  <2> QED
    BY <1>1, <1>2, <1>4, Walk
<1>6. f = body(f)
  <2>1. \A i \in D : f[i] = IF seq[i].anchor = "step" THEN f[seq[i].of] + edge(i)
                            ELSE IF seq[i].anchor = "stop" THEN w.off ELSE w.on
    <3> HIDE DEF edge
    <3> QED
      BY <1>5
  <2> HIDE DEF edge
  <2> QED
    BY <2>1
<1> DEFINE q == CHOOSE x : x = body(x)
<1>7. q = body(q)
  BY <1>6
<1>8. Bases(seq, w) = q
  BY DEF Bases
<1>9. \A i \in D : q[i] = IF seq[i].anchor = "step" THEN q[seq[i].of] + edge(i)
                          ELSE IF seq[i].anchor = "stop" THEN w.off ELSE w.on
  <2> HIDE DEF q, edge
  <2> QED
    BY <1>7
<1>10. q \in [D -> Int]
  <2>1. q = [i \in D |-> q[i]]
    <3> HIDE DEF q, edge
    <3> QED
      BY <1>7
  <2>2. \A i \in D : q[i] = IF seq[i].anchor = "step" THEN q[seq[i].of] + more[i] ELSE root[i]
    <3> HIDE DEF q, edge
    <3> QED
      BY <1>9
  <2> HIDE DEF q, more, root
  <2>3. \A i \in D : q[i] \in Int
    BY <1>1, <1>2, <1>4, <2>2, WalkNumbers
  <2> QED
    BY <2>1, <2>3
<1> HIDE DEF q
<1> QED
  BY <1>3, <1>8, <1>9, <1>10

\* How far every step is from a fixed point.
LEMMA DepthIs ==
  ASSUME NEW seq \in Sequence, Valid(seq)
  PROVE  \A i \in DOMAIN seq : Depth(seq)[i] \in Int
<1> DEFINE D == DOMAIN seq
           more == [i \in D |-> 1]
           root == [i \in D |-> 0]
           body(d) == [i \in D |-> IF seq[i].anchor = "step" THEN d[seq[i].of] + 1 ELSE 0]
<1>1. Rooted(seq) = D /\ more \in [D -> Int] /\ root \in [D -> Int]
  BY DEF Valid
<1>2. PICK f \in [D -> Int] : \A i \in D :
        f[i] = IF seq[i].anchor = "step" THEN f[seq[i].of] + more[i] ELSE root[i]
  <2> HIDE DEF more, root
  <2> QED
    BY <1>1, Walk
<1>3. f = body(f)
  <2>1. \A i \in D : f[i] = IF seq[i].anchor = "step" THEN f[seq[i].of] + 1 ELSE 0
    BY <1>2
  <2> QED
    BY <2>1
<1> DEFINE q == CHOOSE x : x = body(x)
<1>4. q = body(q)
  BY <1>3
<1>5. Depth(seq) = q
  BY DEF Depth
<1> HIDE DEF q
<1>6. \A i \in D : q[i] = IF seq[i].anchor = "step" THEN q[seq[i].of] + 1 ELSE 0
  BY <1>4
<1>7. \A i \in D : q[i] = IF seq[i].anchor = "step" THEN q[seq[i].of] + more[i] ELSE root[i]
  BY <1>6
<1> HIDE DEF more, root
<1>8. \A i \in D : q[i] \in Int
  BY <1>1, <1>7, WalkNumbers
<1> QED
  BY <1>5, <1>8

-----------------------------------------------------------------------------
(* Fires: the list of them has the points of the steps, and no others.     *)

FireOf(seq, w, base, i, k) ==
  [act    |-> IF seq[i].act = "ramp" THEN "tune" ELSE seq[i].act,
   set    |-> Points(seq[i], w)[k].set,
   replace |-> seq[i].replace,
   dwell  |-> Points(seq[i], w)[k].dwell,
   step   |-> i, point |-> k,
   at     |-> base[i] + Points(seq[i], w)[k].off,
   nominal |-> base[i] + Points(seq[i], w)[k].off]
FiresOf(seq, w, base, i) == {FireOf(seq, w, base, i, k) : k \in DOMAIN Points(seq[i], w)}
FireSet(seq, w, base) == UNION {FiresOf(seq, w, base, i) : i \in DOMAIN seq}
\* The order of fires before any restart.
Ahead(depth, f, g) ==
  \/ f.at < g.at
  \/ f.at = g.at /\ depth[f.step] < depth[g.step]
  \/ f.at = g.at /\ depth[f.step] = depth[g.step]
     /\ (f.step < g.step \/ (f.step = g.step /\ f.point < g.point))

\* What a finite table holds is a finite set.
LEMMA TableFinite ==
  ASSUME NEW n \in Nat, NEW f
  PROVE  IsFiniteSet({f[k] : k \in 1 .. n})
<1> DEFINE T == {f[k] : k \in 1 .. n}
           g == [k \in 1 .. n |-> f[k]]
<1>1. g \in Surjection(1 .. n, T)
  BY DEF Surjection
<1>2. IsFiniteSet(1 .. n)
  BY FS_Interval
<1> QED
  BY <1>1, <1>2, FS_Surjection

\* There are finitely many fires.
LEMMA FireSetFinite ==
  ASSUME NEW seq \in Sequence, NEW w \in Window, Valid(seq), NEW base
  PROVE  IsFiniteSet(FireSet(seq, w, base))
<1> DEFINE all == [i \in 1 .. Len(seq) |-> FiresOf(seq, w, base, i)]
<1>1. Len(seq) \in Nat /\ DOMAIN seq = 1 .. Len(seq)
  BY SequenceAssumption
<1>2. IsFiniteSet({all[i] : i \in 1 .. Len(seq)})
  BY <1>1, TableFinite
<1>3. \A i \in 1 .. Len(seq) : IsFiniteSet(all[i])
  <2> SUFFICES ASSUME NEW i \in 1 .. Len(seq) PROVE IsFiniteSet(FiresOf(seq, w, base, i))
    OBVIOUS
  <2>1. PICK n \in Nat : DOMAIN Points(seq[i], w) = 1 .. n
    BY <1>1, PointsOf
  <2> DEFINE f == [k \in 1 .. n |-> FireOf(seq, w, base, i, k)]
  <2>2. IsFiniteSet({f[k] : k \in 1 .. n})
    BY TableFinite
  <2>3. FiresOf(seq, w, base, i) = {f[k] : k \in 1 .. n}
    BY <2>1 DEF FiresOf
  <2> QED
    BY <2>2, <2>3
<1>4. FireSet(seq, w, base) = UNION {all[i] : i \in 1 .. Len(seq)}
  BY <1>1 DEF FireSet
<1> HIDE DEF all
<1> QED
  BY <1>2, <1>3, <1>4, FS_UNION

\* What Fires computes: it gives each fire the place of its rank.
LEMMA FiresIs ==
  ASSUME NEW seq, NEW w, NEW base, NEW depth
  PROVE  Fires(seq, w, base, depth) =
           [n \in 1 .. Cardinality(FireSet(seq, w, base)) |->
              CHOOSE x \in FireSet(seq, w, base) :
                Cardinality({y \in FireSet(seq, w, base) : Ahead(depth, y, x)}) = n - 1]
BY DEF Fires, Sorted, FireSet, FiresOf, FireOf, Ahead

\* No two fires have the same place, and each place has one.
LEMMA FireMember ==
  ASSUME Anchorable, NEW seq \in Sequence, NEW w \in Window, Valid(seq),
         NEW n \in DOMAIN Fires(seq, w, Bases(seq, w), Depth(seq))
  PROVE  Fires(seq, w, Bases(seq, w), Depth(seq))[n] \in FireSet(seq, w, Bases(seq, w))
<1> DEFINE base == Bases(seq, w)
           depth == Depth(seq)
           F == FireSet(seq, w, base)
           R == {p \in F \X F : Ahead(depth, p[1], p[2])}
<1>1. /\ Len(seq) \in Nat /\ DOMAIN seq = 1 .. Len(seq)
      /\ \A i \in DOMAIN seq : base[i] \in Int /\ depth[i] \in Int
  BY BasesIs, DepthIs, SequenceAssumption
<1>2. ASSUME NEW f \in F
      PROVE  /\ f.step \in Nat /\ f.point \in Nat /\ f.at \in Int /\ depth[f.step] \in Int
             /\ f = FireOf(seq, w, base, f.step, f.point)
  <2>0. PICK i \in DOMAIN seq : f \in FiresOf(seq, w, base, i)
    BY <1>2 DEF FireSet
  <2>1. PICK k \in DOMAIN Points(seq[i], w) : f = FireOf(seq, w, base, i, k)
    BY <2>0 DEF FiresOf
  <2>2. f.step = i /\ f.point = k /\ f.at = base[i] + Points(seq[i], w)[k].off
    BY <2>1 DEF FireOf
  <2>3. PICK m, h \in Nat :
          LET s == seq[i]  points == Points(seq[i], w) IN
          /\ DOMAIN points = 1 .. m
          /\ \A j \in 1 .. m :
               points[j].off = IF s.anchor = "stop" THEN s.off - (m - j + 1) * h
                               ELSE s.off + (j - 1) * h
    BY PointsOf
  <2>4. k \in 1 .. m /\ seq[i].off \in Int
    BY <2>3, SequenceAssumption
  <2>5. (m - k + 1) * h \in Int /\ (k - 1) * h \in Int
    BY <2>4
  <2>6. Points(seq[i], w)[k].off \in Int
    BY <2>3, <2>4, <2>5
  <2> QED
    BY <1>1, <2>1, <2>2, <2>4, <2>6
<1> HIDE DEF F, base, depth
<1>3. \A x \in F : <<x, x>> \notin R
  BY <1>2 DEF Ahead
<1>4. ASSUME NEW x \in F, NEW y \in F, NEW z \in F, <<x, y>> \in R, <<y, z>> \in R
      PROVE  <<x, z>> \in R
  <2>1. Ahead(depth, x, y) /\ Ahead(depth, y, z)
    BY <1>4
  <2>2. Ahead(depth, x, z)
    BY <1>2, <2>1 DEF Ahead
  <2> QED
    BY <2>2
<1>5. ASSUME NEW x \in F, NEW y \in F
      PROVE  x = y \/ <<x, y>> \in R \/ <<y, x>> \in R
  <2>1. x = y \/ Ahead(depth, x, y) \/ Ahead(depth, y, x)
    <3>1. CASE x.step = y.step /\ x.point = y.point
      BY <1>2, <3>1
    <3>2. CASE ~(x.step = y.step /\ x.point = y.point)
      BY <1>2, <3>2 DEF Ahead
    <3> QED
      BY <3>1, <3>2
  <2> QED
    BY <2>1
<1>6. IsFiniteSet(F)
  BY FireSetFinite DEF F
<1>7. \A x \in F : {y \in F : <<y, x>> \in R} = {y \in F : Ahead(depth, y, x)}
  OBVIOUS
<1> DEFINE at(x) == Cardinality({y \in F : Ahead(depth, y, x)})
<1>8. n \in 1 .. Cardinality(F) /\ Fires(seq, w, base, depth)[n] = CHOOSE x \in F : at(x) = n - 1
  BY FiresIs DEF F, base, depth
<1> HIDE DEF R
<1>9. \E x \in F : Cardinality({y \in F : <<y, x>> \in R}) = n - 1
  BY <1>3, <1>4, <1>5, <1>6, <1>8, RankMember
<1>10. \E x \in F : at(x) = n - 1
  BY <1>7, <1>9
<1> HIDE DEF at
<1> QED
  BY <1>8, <1>10 DEF F, base, depth

\* A fire f of step a: its level k of m that are held for h each.
Placed(f, seq, w, a, m, h, k) ==
  LET s == seq[a]  points == Points(seq[a], w) IN
  /\ f.step = a /\ f.dwell = h
  /\ f.at = Bases(seq, w)[a] + IF s.anchor = "stop" THEN s.off - (m - k + 1) * h
                               ELSE s.off + (k - 1) * h
  /\ Len(points) = m
  /\ \A j \in 1 .. m :
       points[j].off = IF s.anchor = "stop" THEN s.off - (m - j + 1) * h
                       ELSE s.off + (j - 1) * h
  /\ s.act # "ramp" => m = 1 /\ h = 0
  /\ s.anchor # "both" => Span(s) = m * h

\* Every fire of the list is a level of a step, where the step is placed.
LEMMA FirePlace ==
  ASSUME Anchorable, NEW seq \in Sequence, NEW w \in Window, Valid(seq),
         NEW n \in DOMAIN Fires(seq, w, Bases(seq, w), Depth(seq))
  PROVE  \E a \in DOMAIN seq, m \in Nat, h \in Nat : \E k \in 1 .. m :
           Placed(Fires(seq, w, Bases(seq, w), Depth(seq))[n], seq, w, a, m, h, k)
<1> DEFINE base == Bases(seq, w)
           f == Fires(seq, w, base, Depth(seq))[n]
<1>1. f \in FireSet(seq, w, base)
  BY FireMember
<1> HIDE DEF base, f
<1>2. PICK a \in DOMAIN seq : f \in FiresOf(seq, w, base, a)
  BY <1>1 DEF FireSet
<1>3. PICK k \in DOMAIN Points(seq[a], w) : f = FireOf(seq, w, base, a, k)
  BY <1>2 DEF FiresOf
<1>4. /\ f.step = a /\ f.dwell = Points(seq[a], w)[k].dwell
      /\ f.at = base[a] + Points(seq[a], w)[k].off
  BY <1>3 DEF FireOf
<1>5. PICK m \in Nat, h \in Nat :
        LET s == seq[a]  points == Points(seq[a], w) IN
           /\ DOMAIN points = 1 .. m /\ Len(points) = m
           /\ \A j \in 1 .. m :
                /\ points[j].dwell = h
                /\ points[j].off = IF s.anchor = "stop" THEN s.off - (m - j + 1) * h
                                   ELSE s.off + (j - 1) * h
           /\ s.act # "ramp" => m = 1 /\ h = 0
           /\ s.anchor # "both" => Span(s) = m * h
  BY PointsOf
<1>6. k \in 1 .. m
  BY <1>5
<1>7. /\ f.step = a /\ f.dwell = h
      /\ f.at = base[a] + IF seq[a].anchor = "stop" THEN seq[a].off - (m - k + 1) * h
                          ELSE seq[a].off + (k - 1) * h
  BY <1>4, <1>5, <1>6
<1>8. Placed(f, seq, w, a, m, h, k)
  BY <1>5, <1>7 DEF base, Placed
<1> QED
  BY <1>6, <1>8 DEF base, f

\* How far the steps reach in from either edge is no more than MinOnAir.
LEMMA Reach ==
  ASSUME NEW seq \in Sequence, NEW w \in Window, Valid(seq), NEW a \in DOMAIN seq, NEW b \in DOMAIN seq
  PROVE  /\ FromOnAir(seq[a]) \in Int /\ FromOffAir(seq[b]) \in Int /\ MinOnAir(seq) \in Int
         /\ FromOnAir(seq[a]) + FromOffAir(seq[b]) <= MinOnAir(seq)
<1> DEFINE L == Len(seq)
           f == [i \in 1 .. L |-> FromOnAir(seq[i])]
           g == [i \in 1 .. L |-> FromOffAir(seq[i])]
<1>1. L \in Nat /\ DOMAIN seq = 1 .. L
  BY SequenceAssumption
<1>2. ASSUME NEW i \in 1 .. L PROVE FromOnAir(seq[i]) \in Int /\ FromOffAir(seq[i]) \in Int
  <2>1. seq[i].off \in Int /\ seq[i].end \in Int
    BY <1>1, SequenceAssumption
  <2>2. PICK m \in Nat, h \in Nat : seq[i].anchor # "both" => Span(seq[i]) = m * h
    BY <1>1, PointsOf
  <2>3. m * h \in Int
    OBVIOUS
  <2> QED
    BY <2>1, <2>2, <2>3 DEF FromOnAir, FromOffAir
<1>3. f \in [1 .. L -> Int] /\ g \in [1 .. L -> Int]
  BY <1>2
<1> DEFINE A == Furthest({0} \cup {f[i] : i \in 1 .. L})
           B == Furthest({0} \cup {g[i] : i \in 1 .. L})
<1>4. A \in Int /\ (\A i \in 1 .. L : f[i] <= A) /\ B \in Int /\ \A i \in 1 .. L : g[i] <= B
  <2> HIDE DEF f, g, L
  <2>1. \A F \in [1 .. L -> Int] :
          LET M == Furthest({0} \cup {F[i] : i \in 1 .. L}) IN M \in Int /\ \A i \in 1 .. L : F[i] <= M
    <3> SUFFICES ASSUME NEW F \in [1 .. L -> Int]
                 PROVE  LET M == Furthest({0} \cup {F[i] : i \in 1 .. L}) IN
                        M \in Int /\ \A i \in 1 .. L : F[i] <= M
      OBVIOUS
    <3>1. 0 \in Int /\ 1 .. L \in SUBSET (1 .. L)
      OBVIOUS
    <3> QED
      BY <1>1, <3>1, FurthestOf
  <2> QED
    BY <1>3, <2>1
<1>5. {f[i] : i \in 1 .. L} = {FromOnAir(seq[i]) : i \in DOMAIN seq}
      /\ {g[i] : i \in 1 .. L} = {FromOffAir(seq[i]) : i \in DOMAIN seq}
  BY <1>1
<1>6. MinOnAir(seq) = A + B
  BY <1>5 DEF MinOnAir
<1>7. FromOnAir(seq[a]) <= A /\ FromOffAir(seq[b]) <= B
      /\ FromOnAir(seq[a]) \in Int /\ FromOffAir(seq[b]) \in Int
  <2>1. f[a] <= A /\ g[b] <= B /\ a \in 1 .. L /\ b \in 1 .. L
    BY <1>1, <1>4
  <2> HIDE DEF A, B
  <2> QED
    BY <1>2, <2>1
<1> HIDE DEF A, B, f, g, L
<1> QED
  BY <1>4, <1>6, <1>7

\* More levels take no less time.
LEMMA Times ==
  ASSUME NEW k \in Int, NEW m \in Int, NEW h \in Nat, k <= m
  PROVE  k * h \in Int /\ m * h \in Int /\ k * h <= m * h
OBVIOUS

-----------------------------------------------------------------------------
(* The ramps of an armed run.                                              *)

\* What arm has checked of the run that is armed.
ArmedPlan ==
  st = "ARMED" => \E seq \in Sequence, w \in Window :
    /\ Valid(seq) /\ MinOnAir(seq) <= w.off - w.on
    /\ fire = Fires(seq, w, Bases(seq, w), Depth(seq)) /\ steps = seq /\ end = w.off

\* A level is over when what comes after its ramp, by plan, begins.
LEMMA Tiled ==
  ASSUME Anchorable, st = "ARMED", NEW seq \in Sequence, NEW w \in Window, Valid(seq),
         MinOnAir(seq) <= w.off - w.on,
         fire = Fires(seq, w, Bases(seq, w), Depth(seq)), steps = seq, end = w.off
  PROVE  RampsTile
<1> SUFFICES ASSUME NEW i \in DOMAIN fire, NEW j \in DOMAIN fire
             PROVE  LET s == steps[fire[i].step]
                        t == steps[fire[j].step]
                    IN  /\ (s.anchor = "start" /\ t.anchor = "stop") =>
                             fire[i].at + fire[i].dwell <= fire[j].at
                        /\ s.anchor = "stop" => fire[i].at + fire[i].dwell <= end + s.off
                        /\ (t.anchor = "step" /\ t.edge = "end" /\ t.of = fire[i].step) =>
                             fire[i].at + fire[i].dwell + t.off <= fire[j].at
  BY DEF RampsTile
<1> DEFINE base == Bases(seq, w)
<1>1. i \in DOMAIN Fires(seq, w, base, Depth(seq)) /\ j \in DOMAIN Fires(seq, w, base, Depth(seq))
  OBVIOUS
<1>2. PICK a \in DOMAIN seq, m \in Nat, h \in Nat : \E k \in 1 .. m :
        Placed(fire[i], seq, w, a, m, h, k)
  BY <1>1, FirePlace
<1>3. PICK k \in 1 .. m : Placed(fire[i], seq, w, a, m, h, k)
  BY <1>2
<1>4. PICK b \in DOMAIN seq, p \in Nat, g \in Nat : \E q \in 1 .. p :
        Placed(fire[j], seq, w, b, p, g, q)
  BY <1>1, FirePlace
<1>5. PICK q \in 1 .. p : Placed(fire[j], seq, w, b, p, g, q)
  BY <1>4
<1>6. /\ seq[a].off \in Int /\ seq[b].off \in Int /\ w.on \in Nat /\ w.off \in Nat
      /\ base[a] \in Int /\ base[b] \in Int
  BY SequenceAssumption, RelaunchAssumption, BasesIs
<1>7. base[a] = IF seq[a].anchor = "step"
                THEN base[seq[a].of] + Edge(seq[a].edge, Points(seq[seq[a].of], w))
                ELSE IF seq[a].anchor = "stop" THEN w.off ELSE w.on
  BY BasesIs
<1>8. base[b] = IF seq[b].anchor = "step"
                THEN base[seq[b].of] + Edge(seq[b].edge, Points(seq[seq[b].of], w))
                ELSE IF seq[b].anchor = "stop" THEN w.off ELSE w.on
  BY BasesIs
<1>9. /\ fire[i].step = a /\ fire[i].dwell = h
      /\ fire[i].at = base[a] + IF seq[a].anchor = "stop" THEN seq[a].off - (m - k + 1) * h
                                ELSE seq[a].off + (k - 1) * h
      /\ Len(Points(seq[a], w)) = m
      /\ seq[a].act # "ramp" => m = 1 /\ h = 0
      /\ seq[a].anchor # "both" => Span(seq[a]) = m * h
  BY <1>3 DEF Placed
<1>10. \A n \in 1 .. m :
         Points(seq[a], w)[n].off = IF seq[a].anchor = "stop" THEN seq[a].off - (m - n + 1) * h
                                    ELSE seq[a].off + (n - 1) * h
  BY <1>3 DEF Placed
<1>11. /\ fire[j].step = b
       /\ fire[j].at = base[b] + IF seq[b].anchor = "stop" THEN seq[b].off - (p - q + 1) * g
                                 ELSE seq[b].off + (q - 1) * g
       /\ seq[b].anchor # "both" => Span(seq[b]) = p * g
  BY <1>5 DEF Placed
<1> HIDE DEF base
<1>12. /\ m * h \in Int /\ k * h \in Int /\ k * h <= m * h /\ h <= k * h
       /\ (m - k + 1) * h = m * h - k * h + h /\ (k - 1) * h = k * h - h
  <2>1. k * h \in Int /\ m * h \in Int /\ k * h <= m * h
    BY Times
  <2>2. 1 * h <= k * h
    BY Times
  <2> QED
    BY <2>1, <2>2
<1>13. /\ p * g \in Int /\ q * g \in Int /\ q * g <= p * g /\ g <= q * g
       /\ (p - q + 1) * g = p * g - q * g + g /\ (q - 1) * g = q * g - g
  <2>1. q * g \in Int /\ p * g \in Int /\ q * g <= p * g
    BY Times
  <2>2. 1 * g <= q * g
    BY Times
  <2> QED
    BY <2>1, <2>2
\* From here on the products are numbers.
<1>14. PICK x \in Int, y \in Int, u \in Int, v \in Int :
         x = m * h /\ y = k * h /\ u = p * g /\ v = q * g
  BY <1>12, <1>13
<1>15. y <= x /\ h <= y /\ v <= u /\ g <= v
  BY <1>12, <1>13, <1>14
<1>16. /\ (m - k + 1) * h = x - y + h /\ (k - 1) * h = y - h
       /\ (p - q + 1) * g = u - v + g /\ (q - 1) * g = v - g
  BY <1>12, <1>13, <1>14
<1>17. /\ fire[i].at = base[a] + IF seq[a].anchor = "stop" THEN seq[a].off - (x - y + h)
                                 ELSE seq[a].off + (y - h)
       /\ fire[i].dwell = h
  BY <1>9, <1>16, Zenon
<1>18. fire[j].at = base[b] + IF seq[b].anchor = "stop" THEN seq[b].off - (u - v + g)
                              ELSE seq[b].off + (v - g)
  BY <1>11, <1>16, Zenon
<1>19. /\ seq[a].anchor # "both" => Span(seq[a]) = x
       /\ seq[b].anchor # "both" => Span(seq[b]) = u
  BY <1>9, <1>11, <1>14, Zenon
<1>20. ASSUME seq[a].anchor = "start", seq[b].anchor = "stop"
       PROVE  fire[i].at + fire[i].dwell <= fire[j].at
  <2>1. FromOnAir(seq[a]) = seq[a].off + x /\ FromOffAir(seq[b]) = u - seq[b].off
    BY <1>19, <1>20 DEF FromOnAir, FromOffAir
  <2>2. /\ FromOnAir(seq[a]) + FromOffAir(seq[b]) <= MinOnAir(seq) /\ MinOnAir(seq) \in Int
    BY Reach
  <2>3. fire[i].at + fire[i].dwell = w.on + seq[a].off + y
    BY <1>6, <1>7, <1>17, <1>20
  <2>4. fire[j].at = w.off + seq[b].off - u + v - g
    BY <1>6, <1>8, <1>18, <1>20
  <2>5. (seq[a].off + x) + (u - seq[b].off) <= MinOnAir(seq) /\ MinOnAir(seq) \in Int
    BY <2>1, <2>2
  <2> QED
    BY <1>6, <1>15, <2>3, <2>4, <2>5
<1>21. ASSUME seq[a].anchor = "stop"
       PROVE  fire[i].at + fire[i].dwell <= end + seq[a].off
  <2>1. fire[i].at + fire[i].dwell = w.off + seq[a].off - x + y
    BY <1>6, <1>7, <1>17, <1>21
  <2> QED
    BY <1>6, <1>15, <2>1
<1>22. ASSUME seq[b].anchor = "step", seq[b].edge = "end", seq[b].of = a
       PROVE  fire[i].at + fire[i].dwell + seq[b].off <= fire[j].at
  <2> DEFINE e == Edge("end", Points(seq[a], w))
  <2>1. base[b] = base[a] + e
    BY <1>8, <1>22
  <2>2. HasEdge(seq[a], w, "end")
    BY <1>22 DEF Anchorable
  <2>3. CASE m < 2
    <3>1. seq[a].act # "ramp" /\ m = 1 /\ h = 0
      BY <1>9, <2>2, <2>3 DEF HasEdge
    <3>2. k = 1 /\ e = Points(seq[a], w)[1].off
      BY <1>9, <1>10, <3>1 DEF Edge
    <3>3. fire[i].at + fire[i].dwell = base[a] + e /\ e \in Int
      <4>1. (m - k + 1) * h = 0 /\ (k - 1) * h = 0 /\ (m - 1 + 1) * h = 0 /\ (1 - 1) * h = 0
        BY <3>1, <3>2
      <4>2. Points(seq[a], w)[1].off = seq[a].off
        <5>1. 1 \in 1 .. m
          BY <3>1
        <5>2. Points(seq[a], w)[1].off = IF seq[a].anchor = "stop" THEN seq[a].off - (m - 1 + 1) * h
                                         ELSE seq[a].off + (1 - 1) * h
          BY <1>10, <5>1
        <5> QED
          BY <1>6, <4>1, <5>2
      <4>3. fire[i].at = base[a] + seq[a].off /\ fire[i].dwell = 0
        BY <1>9, <1>6, <3>1, <4>1
      <4> HIDE DEF e
      <4> QED
        BY <1>6, <3>2, <4>2, <4>3
    <3>4. fire[j].at = base[b] + seq[b].off + v - g
      BY <1>6, <1>18, <1>22
    <3> HIDE DEF e
    <3> QED
      BY <1>6, <1>15, <2>1, <3>3, <3>4
  <2>4. CASE m >= 2
    <3>1. e = 2 * Points(seq[a], w)[m].off - Points(seq[a], w)[m - 1].off
      BY <1>9, <2>4 DEF Edge
    <3>2. /\ (m - m + 1) * h = h /\ (m - (m - 1) + 1) * h = 2 * h
          /\ (m - 1) * h = m * h - h /\ (m - 1 - 1) * h = m * h - 2 * h
      BY <1>12
    <3>3. e = IF seq[a].anchor = "stop" THEN seq[a].off ELSE seq[a].off + x
      <4>1. m \in 1 .. m /\ m - 1 \in 1 .. m
        BY <2>4
      <4>2. CASE seq[a].anchor = "stop"
        <5>0. Points(seq[a], w)[m].off = seq[a].off - (m - m + 1) * h
              /\ Points(seq[a], w)[m - 1].off = seq[a].off - (m - (m - 1) + 1) * h
          BY <1>10, <4>1, <4>2
        <5>1. Points(seq[a], w)[m].off = seq[a].off - h
              /\ Points(seq[a], w)[m - 1].off = seq[a].off - 2 * h
          BY <3>2, <5>0
        <5> QED
          BY <1>6, <3>1, <4>2, <5>1
      <4>3. CASE seq[a].anchor # "stop"
        <5>0. Points(seq[a], w)[m].off = seq[a].off + (m - 1) * h
              /\ Points(seq[a], w)[m - 1].off = seq[a].off + (m - 1 - 1) * h
          BY <1>10, <4>1, <4>3
        <5>1. Points(seq[a], w)[m].off = seq[a].off + (m * h - h)
              /\ Points(seq[a], w)[m - 1].off = seq[a].off + (m * h - 2 * h)
          BY <3>2, <5>0
        <5>2. e = 2 * (seq[a].off + (m * h - h)) - (seq[a].off + (m * h - 2 * h))
          BY <3>1, <5>1
        <5> HIDE DEF e
        <5>3. e = 2 * (seq[a].off + (x - h)) - (seq[a].off + (x - 2 * h))
          BY <1>14, <5>2, Zenon
        <5> QED
          BY <1>6, <4>3, <5>3
      <4> QED
        BY <4>2, <4>3
    <3>4. fire[j].at = base[b] + seq[b].off + v - g
      BY <1>6, <1>18, <1>22
    <3>5. fire[i].at + fire[i].dwell = base[a] + IF seq[a].anchor = "stop"
                                                 THEN seq[a].off - x + y
                                                 ELSE seq[a].off + y
      BY <1>6, <1>17
    <3> HIDE DEF e
    <3> QED
      BY <1>6, <1>15, <2>1, <3>3, <3>4, <3>5
  <2> QED
    BY <2>3, <2>4
<1>23. steps[fire[i].step] = seq[a] /\ steps[fire[j].step] = seq[b] /\ fire[i].step = a
  BY <1>9, <1>11
<1> QED
  BY <1>20, <1>21, <1>22, <1>23

\* _resolve_steps and min_on_air_duration: for any sequences, windows and
\* ramps, no level of an armed run is overtaken by a ramp from the other edge or
\* by what follows its own ramp, and what runs back from off-air is over in time,
\* as long as no step follows a ramp of a single level.
THEOREM RampsTileHolds ==
  ASSUME Anchorable
  PROVE  Spec => []RampsTile
<1>1. Init => ArmedPlan
  BY DEF Init, ArmedPlan
<1>2. ArmedPlan /\ [Next]_vars => ArmedPlan'
  <2> SUFFICES ASSUME ArmedPlan, [Next]_vars, st' = "ARMED"
               PROVE  \E seq \in Sequence, w \in Window :
                        /\ Valid(seq) /\ MinOnAir(seq) <= w.off - w.on
                        /\ fire' = Fires(seq, w, Bases(seq, w), Depth(seq))
                        /\ steps' = seq /\ end' = w.off
    BY DEF ArmedPlan
  <2>1. CASE \E seq \in Sequence, w \in Window : Arm(seq, w)
    BY <2>1 DEF Arm
  <2>2. CASE st = "ARMED" /\ UNCHANGED plan
    BY <2>2 DEF ArmedPlan, plan
  <2>3. Tick \/ Pass \/ BindSocket \/ TimePasses \/ UNCHANGED vars => UNCHANGED <<st, plan>>
    BY DEF Tick, Pass, BindSocket, TimePasses, vars
  <2>4. \A i : ~DropTune(i) /\ ~FireTune(i) /\ ~FireStart(i) /\ ~FireStop(i)
    BY DEF DropTune, FireTune, FireStart, FireStop, Progress
  <2>5. ~Fail /\ \A i : ~LaunchFails(i)
    BY DEF Fail, LaunchFails, Couple
  <2>6. \A set : TuneByHand(set) => UNCHANGED <<st, plan>>
    BY DEF TuneByHand
  <2>7. \A how, readable : Restart(how, readable) \/ PreStop => UNCHANGED <<st, plan>>
    BY DEF Restart, PreStop
  <2>8. \A readable : RestartDeferred(readable) => UNCHANGED <<st, plan>>
    BY DEF RestartDeferred
  <2>9. \A s, how, readable, known : ~Commit(s, how, readable, known)
    BY DEF Commit, Plannable
  <2> QED
    BY <2>1, <2>2, <2>3, <2>4, <2>5, <2>6, <2>7, <2>8, <2>9 DEF Next
<1>3. ArmedPlan => RampsTile
  <2>1. CASE st = "ARMED"
    BY <2>1, Tiled DEF ArmedPlan
  <2>2. CASE st # "ARMED"
    BY <2>2 DEF RampsTile
  <2> QED
    BY <2>1, <2>2
<1> QED
  BY <1>1, <1>2, <1>3, PTL DEF Spec

=============================================================================
