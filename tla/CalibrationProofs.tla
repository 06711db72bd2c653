------------------------- MODULE CalibrationProofs -------------------------
(***************************************************************************)
(* Proof that no limit of the chain is exceeded, for any calibration the   *)
(* agent accepts whose limits can be gauged by the script: what a curve    *)
(* gives for a gain at or below the one it gives for a level is at most    *)
(* that level, both ends cap their gain by every limit, and the components *)
(* only take power away.                                                   *)
(***************************************************************************)
EXTENDS CalibratedChain, TLAPS, WellFoundedInduction, FiniteSetTheorems

-----------------------------------------------------------------------------
(* Numbers.                                                                *)

\* Induction over the numbers goes by the least counterexample.
Less == {p \in Nat \X Nat : p[1] < p[2]}

\* Any numbers have a least one.
LEMMA LeastNatural ==
  ASSUME NEW T \in SUBSET Nat, T # {}
  PROVE  \E m \in T : \A k \in T : m <= k
<1>1. IsWellFoundedOn(Less, Nat)
  BY NatLessThanWellFounded DEF OpToRel, Less
<1>2. PICK m \in T : \A k \in T : <<k, m>> \notin Less
  BY <1>1, WFMin
<1>3. \A k \in T : ~(k < m)
  BY <1>2 DEF Less
<1> QED
  BY <1>3

\* A set of numbers that has 0 and with each number the next has them all.
LEMMA Induction ==
  ASSUME NEW T, 0 \in T, \A m \in Nat : m \in T => m + 1 \in T
  PROVE  \A m \in Nat : m \in T
<1> DEFINE U == {m \in Nat : m \notin T}
<1> SUFFICES ASSUME U # {} PROVE FALSE
  OBVIOUS
<1>1. PICK m \in U : \A k \in U : m <= k
  <2>1. U \in SUBSET Nat
    OBVIOUS
  <2> HIDE DEF U
  <2> QED
    BY <2>1, LeastNatural
<1>2. m \in Nat /\ m \notin T /\ m # 0
  BY <1>1
<1>3. m - 1 \in Nat /\ ~(m <= m - 1) /\ (m - 1) + 1 = m
  BY <1>2
<1>4. m - 1 \in T
  BY <1>1, <1>3
<1> QED
  BY <1>2, <1>3, <1>4

\* Finitely many numbers have a least one, which Min gives.
LEMMA MinOf ==
  ASSUME NEW S \in SUBSET Int, IsFiniteSet(S), S # {}
  PROVE  Min(S) \in S /\ \A y \in S : Min(S) <= y
<1> DEFINE Has(R) == R = {} \/ \E x \in R : \A y \in R : x <= y
           T == {n \in Nat : \A R \in SUBSET S : IsFiniteSet(R) /\ Cardinality(R) = n => Has(R)}
<1>1. 0 \in T
  BY FS_EmptySet
<1>2. ASSUME NEW n \in Nat, n \in T PROVE n + 1 \in T
  <2> SUFFICES ASSUME NEW R \in SUBSET S, IsFiniteSet(R), Cardinality(R) = n + 1 PROVE Has(R)
    OBVIOUS
  <2>1. PICK z : z \in R
    BY FS_EmptySet
  <2> DEFINE Q == R \ {z}
  <2>2. IsFiniteSet(Q) /\ Cardinality(Q) = n
    <3>1. /\ IsFiniteSet(R \ {z})
          /\ Cardinality(R \ {z}) = IF z \in R THEN Cardinality(R) - 1 ELSE Cardinality(R)
      BY FS_RemoveElement
    <3>2. Cardinality(R) - 1 = n
      OBVIOUS
    <3> QED
      BY <2>1, <3>1, <3>2
  <2>3. Has(Q)
    BY <1>2, <2>2
  <2>4. \A y \in R : y = z \/ y \in Q
    OBVIOUS
  <2>5. R \in SUBSET Int
    OBVIOUS
  <2> HIDE DEF Q
  <2>6. CASE Q = {}
    BY <2>1, <2>4, <2>5, <2>6
  <2>7. CASE Q # {}
    <3>1. PICK x \in Q : \A y \in Q : x <= y
      BY <2>3, <2>7
    <3>2. x \in R /\ x \in Int /\ z \in Int
      BY <2>1, <2>5 DEF Q
    <3>3. CASE x <= z
      BY <2>4, <3>1, <3>2, <3>3
    <3>4. CASE ~(x <= z)
      <4>1. \A y \in R : z <= y
        <5> TAKE y \in R
        <5>1. CASE y = z
          BY <3>2, <5>1
        <5>2. CASE y \in Q
          <6>1. x <= y /\ y \in Int
            BY <2>5, <3>1, <5>2
          <6> QED
            BY <3>2, <3>4, <6>1
        <5> QED
          BY <2>4, <5>1, <5>2
      <4> QED
        BY <2>1, <4>1
    <3> QED
      BY <3>3, <3>4
  <2> QED
    BY <2>6, <2>7
<1>3. \A n \in Nat : n \in T
  <2> HIDE DEF T
  <2> QED
    BY <1>1, <1>2, Induction
<1>4. Cardinality(S) \in Nat
  BY FS_CardinalityType
<1>5. Has(S)
  BY <1>3, <1>4
<1> QED
  BY <1>5 DEF Min

\* And a greatest, which Max gives.
LEMMA MaxOf ==
  ASSUME NEW S \in SUBSET Int, IsFiniteSet(S), S # {}
  PROVE  Max(S) \in S /\ \A y \in S : y <= Max(S)
<1> DEFINE N == {-x : x \in S}
           neg == [x \in S |-> -x]
<1>1. neg \in Surjection(S, N)
  BY DEF Surjection
<1>2. IsFiniteSet(N)
  BY <1>1, FS_Surjection
<1>3. N \in SUBSET Int /\ N # {}
  OBVIOUS
<1>4. Min(N) \in N /\ \A y \in N : Min(N) <= y
  <2> HIDE DEF N
  <2> QED
    BY <1>2, <1>3, MinOf
<1>5. PICK x \in S : Min(N) = -x
  BY <1>4
<1>6. \A y \in S : y <= x
  <2> TAKE y \in S
  <2>1. -y \in N
    OBVIOUS
  <2>2. -x <= -y
    BY <1>4, <1>5, <2>1
  <2> QED
    BY <2>2
<1> QED
  BY <1>6 DEF Max

\* The values of finitely many things are finitely many.
LEMMA ImageFinite ==
  ASSUME NEW S, IsFiniteSet(S), NEW h
  PROVE  IsFiniteSet({h[x] : x \in S})
<1> DEFINE V == {h[x] : x \in S}
           f == [x \in S |-> h[x]]
<1>1. f \in Surjection(S, V)
  BY DEF Surjection
<1> QED
  BY <1>1, FS_Surjection

-----------------------------------------------------------------------------
(* Quotients.                                                              *)

\* A quotient rounded down: its product is at most the dividend.
LEMMA Quotient ==
  ASSUME NEW a \in Int, NEW b \in Int, b > 0
  PROVE  a \div b \in Int /\ b * (a \div b) <= a /\ a < b * (a \div b) + b
OBVIOUS

\* Products by a positive number keep the order.
LEMMA TimesOrder ==
  ASSUME NEW b \in Int, b > 0, NEW u \in Int, NEW v \in Int
  PROVE  /\ b * u \in Int /\ b * v \in Int
         /\ u <= v <=> b * u <= b * v
<1>1. b * u \in Int /\ b * v \in Int
  OBVIOUS
<1>2. ASSUME u <= v PROVE b * u <= b * v
  <2>1. b * (v - u) >= 0
    BY <1>2
  <2>2. b * (v - u) = b * v - b * u
    OBVIOUS
  <2> QED
    BY <1>1, <2>1, <2>2
<1>3. ASSUME ~(u <= v) PROVE ~(b * u <= b * v)
  <2>1. b * (u - v) > 0
    BY <1>3
  <2>2. b * (u - v) = b * u - b * v
    OBVIOUS
  <2> QED
    BY <1>1, <2>1, <2>2
<1> QED
  BY <1>1, <1>2, <1>3

\* A dividend at most, or at least, a multiple has a quotient at most, or at
\* least, the factor.
LEMMA QuotientBound ==
  ASSUME NEW a \in Int, NEW b \in Int, b > 0, NEW c \in Int
  PROVE  /\ a <= b * c => a \div b <= c
         /\ a >= b * c => a \div b >= c
<1> DEFINE q == a \div b
<1>1. q \in Int /\ b * q \in Int /\ b * q <= a /\ a < b * q + b /\ b * c \in Int
  BY Quotient
<1>2. b * (c + 1) = b * c + b /\ b * (q + 1) = b * q + b
  BY <1>1
<1>3. /\ q <= c <=> b * q <= b * c
      /\ c + 1 <= q <=> b * (c + 1) <= b * q
      /\ q + 1 <= c <=> b * (q + 1) <= b * c
  <2> HIDE DEF q
  <2> QED
    BY <1>1, TimesOrder
<1> HIDE DEF q
<1>4. a <= b * c => q <= c
  BY <1>1, <1>3
<1>5. a >= b * c => q >= c
  <2> SUFFICES ASSUME a >= b * c, ~(q >= c) PROVE FALSE
    BY <1>1
  <2>1. q + 1 <= c
    BY <1>1
  <2>2. b * (q + 1) <= b * c
    BY <1>3, <2>1
  <2> QED
    BY <1>1, <1>2, <2>2
<1> QED
  BY <1>4, <1>5 DEF q

\* Going over by one slope and back by its inverse does not end above.
LEMMA ThereAndBack ==
  ASSUME NEW dx \in Int, dx > 0, NEW dy \in Int, dy > 0, NEW u \in Int, NEW v \in Int,
         u <= (dx * v) \div dy
  PROVE  (dy * u) \div dx <= v
<1> DEFINE q == (dx * v) \div dy
<1>1. dx * v \in Int /\ dy * u \in Int
  OBVIOUS
<1>2. q \in Int /\ dy * q <= dx * v
  BY <1>1, Quotient
<1>3. dy * u <= dy * q
  <2>1. u <= q
    OBVIOUS
  <2> HIDE DEF q
  <2> QED
    BY <1>2, <2>1, TimesOrder
<1>4. dy * u <= dx * v
  <2>1. dy * q \in Int
    <3> HIDE DEF q
    <3> QED
      BY <1>2
  <2> HIDE DEF q
  <2> QED
    BY <1>1, <1>2, <1>3, <2>1
<1> QED
  BY <1>1, <1>4, QuotientBound

-----------------------------------------------------------------------------
(* Curves.                                                                 *)

\* The coordinates of a point are numbers, and turned over they change places.
LEMMA PointOf ==
  ASSUME NEW T \in Points, NEW i \in 1 .. Len(T)
  PROVE  /\ X(T, i) \in Int /\ Y(T, i) \in Int
         /\ X(Flipped(T), i) = Y(T, i) /\ Y(Flipped(T), i) = X(T, i)
<1>1. T[i] \in Int \X Int /\ DOMAIN T = 1 .. Len(T)
  BY DEF Points
<1>2. Flipped(T)[i] = <<T[i][2], T[i][1]>>
  BY <1>1 DEF Flipped, X, Y
<1> QED
  BY <1>1, <1>2 DEF X, Y

\* A table turned over is one of the same length.
LEMMA FlippedPoints ==
  ASSUME NEW T \in Points
  PROVE  /\ Flipped(T) \in Points /\ Len(Flipped(T)) = Len(T)
         /\ DOMAIN T = 1 .. Len(T) /\ Len(T) \in Nat /\ (T = <<>> <=> Len(T) = 0)
<1>1. DOMAIN T = 1 .. Len(T) /\ Len(T) \in Nat /\ (T = <<>> <=> Len(T) = 0)
  BY DEF Points
<1>2. \A i \in 1 .. Len(T) : <<Y(T, i), X(T, i)>> \in Int \X Int
  BY PointOf
<1>3. Flipped(T) = [i \in 1 .. Len(T) |-> <<Y(T, i), X(T, i)>>]
  BY <1>1 DEF Flipped
<1> QED
  BY <1>1, <1>2, <1>3 DEF Points

\* A curve turned over is a curve.
LEMMA FlippedCurve ==
  ASSUME NEW T \in Points, IsCurve(T)
  PROVE  IsCurve(Flipped(T)) /\ Flipped(T) \in Points /\ Len(Flipped(T)) = Len(T)
<1>1. Flipped(T) \in Points /\ Len(Flipped(T)) = Len(T) /\ Len(T) \in Nat /\ Len(T) # 0
  BY FlippedPoints DEF IsCurve, IsTable
<1>2. Flipped(T) # <<>>
  BY <1>1, FlippedPoints
<1>3. \A i \in 1 .. Len(T) - 1 : i \in 1 .. Len(T) /\ i + 1 \in 1 .. Len(T)
  BY <1>1
<1> QED
  BY <1>1, <1>2, <1>3, PointOf DEF IsCurve, IsTable, Increasing

\* Along a table the first coordinate goes up.
LEMMA Rising ==
  ASSUME NEW T \in Points, Increasing(T), NEW i \in 1 .. Len(T), NEW j \in 1 .. Len(T)
  PROVE  (i <= j => X(T, i) <= X(T, j)) /\ (i < j => X(T, i) < X(T, j))
<1> DEFINE U == {m \in Nat : \A k \in 1 .. Len(T) : k + m \in 1 .. Len(T) =>
                   X(T, k) <= X(T, k + m) /\ (m > 0 => X(T, k) < X(T, k + m))}
<1>0. Len(T) \in Nat
  BY FlippedPoints
<1>1. 0 \in U
  <2>1. \A k \in 1 .. Len(T) : k + 0 = k /\ X(T, k) \in Int
    BY <1>0, PointOf
  <2> QED
    BY <2>1
<1>2. ASSUME NEW m \in Nat, m \in U PROVE m + 1 \in U
  <2> SUFFICES ASSUME NEW k \in 1 .. Len(T), k + (m + 1) \in 1 .. Len(T)
               PROVE  X(T, k) < X(T, k + (m + 1))
    <3>1. \A k \in 1 .. Len(T) : k + (m + 1) \in 1 .. Len(T) =>
            X(T, k) \in Int /\ X(T, k + (m + 1)) \in Int
      BY PointOf
    <3>2. m + 1 \in Nat
      OBVIOUS
    <3> QED
      BY <3>1, <3>2
  <2>1. k + m \in 1 .. Len(T) - 1 /\ k + m \in 1 .. Len(T) /\ (k + m) + 1 = k + (m + 1)
    BY <1>0
  <2>2. X(T, k) <= X(T, k + m)
    BY <1>2, <2>1
  <2>3. X(T, k + m) < X(T, k + (m + 1))
    BY <2>1 DEF Increasing
  <2>4. X(T, k) \in Int /\ X(T, k + m) \in Int /\ X(T, k + (m + 1)) \in Int
    BY <2>1, PointOf
  <2> QED
    BY <2>2, <2>3, <2>4
<1>3. \A m \in Nat : m \in U
  <2> HIDE DEF U
  <2> QED
    BY <1>1, <1>2, Induction
<1>4. CASE i <= j
  <2>1. j - i \in Nat /\ i + (j - i) = j /\ (i < j => j - i > 0)
    BY <1>0, <1>4
  <2>2. j - i \in U
    BY <1>3, <2>1
  <2> QED
    BY <2>1, <2>2
<1> QED
  BY <1>4

\* A number between the ends of a table lies between two neighbouring points.
LEMMA Between ==
  ASSUME NEW T \in Points, Increasing(T), Len(T) > 1, NEW x \in Int,
         X(T, 1) < x, x < X(T, Len(T))
  PROVE  \E i \in 1 .. Len(T) - 1 : X(T, i) < x /\ x <= X(T, i + 1)
<1> DEFINE K == {k \in 1 .. Len(T) : x <= X(T, k)}
<1>0. Len(T) \in Nat
  BY FlippedPoints
<1>1. K \in SUBSET Nat /\ Len(T) \in K
  <2>1. Len(T) \in 1 .. Len(T) /\ X(T, Len(T)) \in Int
    BY <1>0, PointOf
  <2> QED
    BY <2>1
<1>2. PICK k \in K : \A j \in K : k <= j
  <2> HIDE DEF K
  <2> QED
    BY <1>1, LeastNatural
<1>3. k \in 1 .. Len(T) /\ x <= X(T, k) /\ k # 1
  <2>1. 1 \in 1 .. Len(T) /\ X(T, 1) \in Int
    BY <1>0, PointOf
  <2> QED
    BY <1>2, <2>1
<1>4. k - 1 \in 1 .. Len(T) - 1 /\ k - 1 \in 1 .. Len(T) /\ (k - 1) + 1 = k /\ ~(k <= k - 1)
  BY <1>0, <1>3
<1>5. X(T, k - 1) < x
  <2>1. k - 1 \notin K
    BY <1>2, <1>4
  <2>2. X(T, k - 1) \in Int
    BY <1>4, PointOf
  <2> QED
    BY <1>4, <2>1, <2>2
<1> QED
  BY <1>3, <1>4, <1>5

\* The line through two neighbouring points is a number; it stays at or below
\* the second up to there and at or below the first up to there.
LEMMA SegmentOf ==
  ASSUME NEW T \in Points, Increasing(T), NEW i \in 1 .. Len(T) - 1, NEW x \in Int,
         Y(T, i) < Y(T, i + 1)
  PROVE  /\ Segment(x, T, i) \in Int
         /\ x <= X(T, i + 1) => Segment(x, T, i) <= Y(T, i + 1)
         /\ x <= X(T, i) => Segment(x, T, i) <= Y(T, i)
<1> DEFINE dx == X(T, i + 1) - X(T, i)
           dy == Y(T, i + 1) - Y(T, i)
           u == x - X(T, i)
<1>1. /\ X(T, i) \in Int /\ X(T, i + 1) \in Int /\ Y(T, i) \in Int /\ Y(T, i + 1) \in Int
      /\ X(T, i) < X(T, i + 1)
  <2>1. i \in 1 .. Len(T) /\ i + 1 \in 1 .. Len(T)
    BY FlippedPoints
  <2> QED
    BY <2>1, PointOf DEF Increasing
<1>2. dx \in Int /\ dx > 0 /\ dy \in Int /\ dy > 0 /\ u \in Int
  BY <1>1
<1>3. Segment(x, T, i) = Y(T, i) + (dy * u) \div dx
  BY DEF Segment
<1>4. x <= X(T, i + 1) => u <= dx
  BY <1>1
<1>5. x <= X(T, i) => u <= 0
  BY <1>1
<1> HIDE DEF dx, u
<1>6. Y(T, i + 1) = Y(T, i) + dy
  BY <1>1
<1> HIDE DEF dy
<1>7. dy * u \in Int /\ (dy * u) \div dx \in Int
  BY <1>2, Quotient
<1>8. u <= dx => (dy * u) \div dx <= dy
  <2>1. u <= dx => dy * u <= dy * dx
    BY <1>2, TimesOrder
  <2>2. dy * dx = dx * dy
    BY <1>2
  <2> QED
    BY <1>2, <1>7, <2>1, <2>2, QuotientBound
<1>9. u <= 0 => (dy * u) \div dx <= 0
  <2>1. u <= 0 => dy * u <= dy * 0
    BY <1>2, TimesOrder
  <2>2. dy * 0 = 0 /\ dx * 0 = 0
    BY <1>2
  <2> QED
    BY <1>2, <1>7, <2>1, <2>2, QuotientBound
<1> QED
  BY <1>1, <1>2, <1>3, <1>4, <1>5, <1>6, <1>7, <1>8, <1>9

\* On any segment of a table the line gives a number.
LEMMA SegmentNumber ==
  ASSUME NEW T \in Points, Increasing(T), NEW i \in 1 .. Len(T) - 1, NEW x \in Int
  PROVE  Segment(x, T, i) \in Int
<1> DEFINE dx == X(T, i + 1) - X(T, i)
           dy == Y(T, i + 1) - Y(T, i)
           u == x - X(T, i)
<1>1. /\ X(T, i) \in Int /\ X(T, i + 1) \in Int /\ Y(T, i) \in Int /\ Y(T, i + 1) \in Int
      /\ X(T, i) < X(T, i + 1)
  <2>1. i \in 1 .. Len(T) /\ i + 1 \in 1 .. Len(T)
    BY FlippedPoints
  <2> QED
    BY <2>1, PointOf DEF Increasing
<1>2. dx \in Int /\ dx > 0 /\ dy \in Int /\ u \in Int
  BY <1>1
<1>3. Segment(x, T, i) = Y(T, i) + (dy * u) \div dx
  BY DEF Segment
<1> HIDE DEF dx, u, dy
<1>4. dy * u \in Int /\ (dy * u) \div dx \in Int
  BY <1>2, Quotient
<1> QED
  BY <1>1, <1>3, <1>4

\* What _interp gives: a line of slope 1, an end, or a point of a segment.
LEMMA InterpIs ==
  ASSUME NEW T \in Points, IsTable(T), NEW x \in Int
  PROVE  /\ Len(T) = 1 => Interp(x, T) = Y(T, 1) + (x - X(T, 1))
         /\ Len(T) > 1 /\ x <= X(T, 1) => Interp(x, T) = Y(T, 1)
         /\ Len(T) > 1 /\ X(T, Len(T)) <= x => Interp(x, T) = Y(T, Len(T))
         /\ Len(T) > 1 /\ X(T, 1) < x /\ x < X(T, Len(T)) =>
              \E i \in 1 .. Len(T) - 1 : /\ X(T, i) < x /\ x <= X(T, i + 1)
                                         /\ Interp(x, T) = Segment(x, T, i)
<1> DEFINE n == Len(T)
<1>1. n \in Nat /\ n # 0 /\ Increasing(T)
  BY FlippedPoints DEF IsTable
<1>2. 1 \in 1 .. n /\ n \in 1 .. n
  BY <1>1
<1>3. X(T, 1) \in Int /\ X(T, n) \in Int /\ (n > 1 => X(T, 1) < X(T, n))
  <2>1. n > 1 => X(T, 1) < X(T, n)
    BY <1>1, <1>2, Rising
  <2> QED
    BY <1>2, <2>1, PointOf
<1>4. n = 1 => Interp(x, T) = Y(T, 1) + (x - X(T, 1))
  BY <1>1 DEF Interp
<1>5. n > 1 /\ x <= X(T, 1) => Interp(x, T) = Y(T, 1)
  BY <1>1, <1>3 DEF Interp
<1>6. n > 1 /\ X(T, n) <= x => Interp(x, T) = Y(T, n)
  BY <1>1, <1>3 DEF Interp
<1>7. ASSUME n > 1, X(T, 1) < x, x < X(T, n)
      PROVE  \E i \in 1 .. n - 1 : /\ X(T, i) < x /\ x <= X(T, i + 1)
                                   /\ Interp(x, T) = Segment(x, T, i)
  <2> DEFINE i == CHOOSE i \in 1 .. n - 1 : X(T, i) < x /\ x <= X(T, i + 1)
  <2>1. \E j \in 1 .. n - 1 : X(T, j) < x /\ x <= X(T, j + 1)
    BY <1>1, <1>7, Between
  <2>2. i \in 1 .. n - 1 /\ X(T, i) < x /\ x <= X(T, i + 1)
    BY <2>1
  <2>3. ~(n = 1) /\ ~(x <= X(T, 1)) /\ ~(x >= X(T, n))
    <3> HIDE DEF n
    <3>1. n # 1
      BY <1>1, <1>7
    <3>2. ~(x <= X(T, 1))
      BY <1>3, <1>7
    <3>3. ~(x >= X(T, n))
      BY <1>3, <1>7
    <3> QED
      BY <3>1, <3>2, <3>3
  <2>4. Interp(x, T) = Segment(x, T, i)
    BY <2>3 DEF Interp
  <2> HIDE DEF i
  <2> QED
    BY <2>2, <2>4
<1> QED
  BY <1>4, <1>5, <1>6, <1>7

\* A table gives numbers for numbers.
LEMMA InterpNumber ==
  ASSUME NEW T \in Points, IsTable(T), NEW x \in Int, NEW mode
  PROVE  Interp(x, T) \in Int /\ InterpExtrap(x, T, mode) \in Int /\ EvalTable(T, x) \in Int
<1> DEFINE n == Len(T)
<1>1. n \in Nat /\ n # 0 /\ Increasing(T)
  BY FlippedPoints DEF IsTable
<1>2. 1 \in 1 .. n /\ n \in 1 .. n /\ (n > 1 => 1 \in 1 .. n - 1 /\ n - 1 \in 1 .. n - 1)
  BY <1>1
<1>3. X(T, 1) \in Int /\ X(T, n) \in Int /\ Y(T, 1) \in Int /\ Y(T, n) \in Int
  BY <1>2, PointOf
<1>4. \A i \in 1 .. n - 1 : Segment(x, T, i) \in Int
  BY <1>1, SegmentNumber
<1>5. n = 1 \/ (n > 1 /\ (x <= X(T, 1) \/ X(T, n) <= x \/ (X(T, 1) < x /\ x < X(T, n))))
  <2> HIDE DEF n
  <2>1. n = 1 \/ n > 1
    BY <1>1
  <2>2. x <= X(T, 1) \/ X(T, n) <= x \/ (X(T, 1) < x /\ x < X(T, n))
    BY <1>3
  <2> QED
    BY <2>1, <2>2
<1>6. Interp(x, T) \in Int
  BY <1>3, <1>4, <1>5, InterpIs
<1>7. InterpExtrap(x, T, mode) \in {Interp(x, T)} \cup (IF n > 1 THEN {Segment(x, T, 1), Segment(x, T, n - 1)} ELSE {})
  BY DEF InterpExtrap
<1>8. InterpExtrap(x, T, mode) \in Int
  BY <1>2, <1>4, <1>6, <1>7
<1>9. EvalTable(T, x) \in Int
  BY <1>3, <1>6 DEF EvalTable
<1> QED
  BY <1>6, <1>8, <1>9

\* Up to a point of a curve the level is at most that point's.
LEMMA InterpBelow ==
  ASSUME NEW T \in Points, IsCurve(T), Len(T) > 1, NEW x \in Int,
         NEW j \in 1 .. Len(T), x <= X(T, j)
  PROVE  Interp(x, T) <= Y(T, j)
<1> DEFINE n == Len(T)  F == Flipped(T)
<1>1. n \in Nat /\ Increasing(T) /\ IsTable(T)
  BY FlippedPoints DEF IsCurve, IsTable
<1>2. F \in Points /\ Increasing(F) /\ Len(F) = n
  BY FlippedCurve DEF IsCurve, IsTable
<1>3. \A i \in 1 .. n : X(T, i) \in Int /\ Y(T, i) \in Int /\ X(F, i) = Y(T, i)
  BY PointOf
<1>4. \A i, k \in 1 .. n : i <= k => Y(T, i) <= Y(T, k)
  <2> HIDE DEF F
  <2>1. \A i, k \in 1 .. n : i <= k => X(F, i) <= X(F, k)
    BY <1>2, Rising
  <2> QED
    BY <1>3, <2>1
<1>5. 1 \in 1 .. n /\ n \in 1 .. n
  BY <1>1
<1>6. CASE x <= X(T, 1)
  <2>1. Interp(x, T) = Y(T, 1)
    BY <1>1, <1>6, InterpIs
  <2> QED
    BY <1>4, <1>5, <2>1
<1>7. CASE X(T, n) <= x
  <2>1. Interp(x, T) = Y(T, n)
    BY <1>1, <1>7, InterpIs
  <2>2. j = n
    <3>1. j < n => X(T, j) < X(T, n)
      BY <1>1, <1>5, Rising
    <3> QED
      BY <1>1, <1>3, <1>5, <1>7, <3>1
  <2> QED
    BY <1>3, <2>1, <2>2
<1>8. CASE X(T, 1) < x /\ x < X(T, n)
  <2>1. PICK i \in 1 .. n - 1 : X(T, i) < x /\ x <= X(T, i + 1) /\ Interp(x, T) = Segment(x, T, i)
    BY <1>1, <1>8, InterpIs
  <2>2. i \in 1 .. n /\ i + 1 \in 1 .. n
    BY <1>1
  <2>3. i + 1 <= j
    <3>1. j <= i => X(T, j) <= X(T, i)
      BY <1>1, <2>2, Rising
    <3> QED
      BY <1>1, <1>3, <2>1, <2>2, <3>1
  <2>4. Y(T, i) < Y(T, i + 1)
    BY DEF IsCurve
  <2>5. Segment(x, T, i) \in Int /\ Segment(x, T, i) <= Y(T, i + 1)
    BY <1>1, <2>1, <2>4, SegmentOf
  <2>6. Y(T, i + 1) <= Y(T, j)
    BY <1>4, <2>2, <2>3
  <2> QED
    BY <1>3, <2>1, <2>2, <2>5, <2>6
<1> QED
  BY <1>3, <1>5, <1>6, <1>7, <1>8

\* What _interp_extrap gives: the slope of an end beyond it, or what _interp does.
LEMMA InterpExtrapIs ==
  ASSUME NEW T \in Points, IsTable(T), NEW x \in Int, NEW mode
  PROVE  /\ Len(T) = 1 => InterpExtrap(x, T, mode) = Interp(x, T)
         /\ Len(T) > 1 /\ x < X(T, 1) => InterpExtrap(x, T, mode) \in {Interp(x, T), Segment(x, T, 1)}
         /\ Len(T) > 1 /\ X(T, Len(T)) < x =>
              InterpExtrap(x, T, mode) = IF mode \in {"up", "both"} THEN Segment(x, T, Len(T) - 1)
                                         ELSE Interp(x, T)
         /\ Len(T) > 1 /\ X(T, 1) <= x /\ x <= X(T, Len(T)) =>
              InterpExtrap(x, T, mode) = Interp(x, T)
<1> DEFINE n == Len(T)
<1>1. n \in Nat /\ n # 0 /\ Increasing(T)
  BY FlippedPoints DEF IsTable
<1>2. 1 \in 1 .. n /\ n \in 1 .. n
  BY <1>1
<1>3. X(T, 1) \in Int /\ X(T, n) \in Int /\ (n > 1 => X(T, 1) < X(T, n))
  <2>1. n > 1 => X(T, 1) < X(T, n)
    BY <1>1, <1>2, Rising
  <2> QED
    BY <1>2, <2>1, PointOf
<1> DEFINE a == n > 1 /\ x < X(T, 1) /\ mode \in {"down", "both"}
           b == n > 1 /\ x > X(T, n) /\ mode \in {"up", "both"}
<1>4. InterpExtrap(x, T, mode) =
        CASE a -> Segment(x, T, 1) [] b -> Segment(x, T, n - 1) [] OTHER -> Interp(x, T)
  BY DEF InterpExtrap
<1>5. ~(a /\ b)
  <2> HIDE DEF n
  <2> QED
    BY <1>1, <1>3
<1> HIDE DEF a, b
<1>6. /\ a => InterpExtrap(x, T, mode) = Segment(x, T, 1)
      /\ b => InterpExtrap(x, T, mode) = Segment(x, T, n - 1)
      /\ ~a /\ ~b => InterpExtrap(x, T, mode) = Interp(x, T)
  BY <1>4, <1>5
<1> HIDE DEF n
<1>7. n = 1 => ~a /\ ~b
  BY <1>1 DEF a, b
<1>8. n > 1 /\ x < X(T, 1) => ~b
  BY <1>1, <1>3 DEF b
<1>9. n > 1 /\ X(T, n) < x => ~a /\ (b <=> mode \in {"up", "both"})
  BY <1>1, <1>3 DEF a, b
<1>10. n > 1 /\ X(T, 1) <= x /\ x <= X(T, n) => ~a /\ ~b
  BY <1>1, <1>3 DEF a, b
<1> QED
  BY <1>6, <1>7, <1>8, <1>9, <1>10 DEF n

\* The ceiling a level gives is safe: at a gain above the lowest measured one
\* and not above the gain a curve gives for a level, the curve's level is at
\* most that one, whether it is extrapolated, clamped, or between two points.
THEOREM InverseSafe ==
  ASSUME NEW T \in Points, IsCurve(T), NEW mode, NEW t \in Int, NEW g \in Int,
         g > X(T, 1), g <= InterpExtrap(t, Flipped(T), mode)
  PROVE  InterpExtrap(g, T, mode) <= t
<1> DEFINE n == Len(T)  F == Flipped(T)
<1>1. n \in Nat /\ n # 0 /\ IsTable(T) /\ Increasing(T)
  BY FlippedPoints DEF IsCurve, IsTable
<1>2. F \in Points /\ IsCurve(F) /\ IsTable(F) /\ Increasing(F) /\ Len(F) = n
  BY FlippedCurve DEF IsCurve, IsTable
<1>3. \A i \in 1 .. n : /\ X(T, i) \in Int /\ Y(T, i) \in Int
                        /\ X(F, i) = Y(T, i) /\ Y(F, i) = X(T, i)
  BY PointOf
<1>4. 1 \in 1 .. n /\ n \in 1 .. n /\ (n > 1 => n - 1 \in 1 .. n - 1 /\ n - 1 \in 1 .. n /\ 1 \in 1 .. n - 1)
  BY <1>1
<1> HIDE DEF F
\* On one segment: over and back.
<1>5. ASSUME NEW i \in 1 .. n - 1, g <= Segment(t, F, i)
      PROVE  Segment(g, T, i) <= t
  <2>1. i \in 1 .. n /\ i + 1 \in 1 .. n
    BY <1>1
  <2> DEFINE dx == X(T, i + 1) - X(T, i)
             dy == Y(T, i + 1) - Y(T, i)
             u == g - X(T, i)
             v == t - Y(T, i)
  <2>2. dx \in Int /\ dx > 0 /\ dy \in Int /\ dy > 0 /\ u \in Int /\ v \in Int
    BY <1>1, <1>3, <2>1 DEF IsCurve, Increasing
  <2>3. Segment(g, T, i) = Y(T, i) + (dy * u) \div dx
    BY DEF Segment
  <2>4. Segment(t, F, i) = X(T, i) + (dx * v) \div dy
    BY <1>3, <2>1 DEF Segment
  <2>5. g = X(T, i) + u /\ t = Y(T, i) + v
    BY <1>3, <2>1
  <2> HIDE DEF dx, dy, u, v
  <2>6. (dx * v) \div dy \in Int /\ (dy * u) \div dx \in Int
    BY <2>2, Quotient
  <2>7. u <= (dx * v) \div dy
    BY <1>3, <1>5, <2>1, <2>2, <2>4, <2>5, <2>6
  <2>8. (dy * u) \div dx <= v
    BY <2>2, <2>7, ThereAndBack
  <2> QED
    BY <1>3, <2>1, <2>2, <2>3, <2>5, <2>6, <2>8
<1>6. CASE n = 1
  <2>1. InterpExtrap(t, F, mode) = X(T, 1) + (t - Y(T, 1))
    BY <1>2, <1>3, <1>4, <1>6, InterpExtrapIs, InterpIs
  <2>2. InterpExtrap(g, T, mode) = Y(T, 1) + (g - X(T, 1))
    BY <1>1, <1>6, InterpExtrapIs, InterpIs
  <2>3. g <= X(T, 1) + (t - Y(T, 1))
    BY <2>1 DEF F
  <2> QED
    BY <1>3, <1>4, <2>2, <2>3
<1>7. CASE n > 1 /\ t <= Y(T, 1)
  <2>1. X(F, 1) = Y(T, 1) /\ Y(F, 1) = X(T, 1) /\ X(F, n) = Y(T, n) /\ X(T, 1) \in Int /\ Y(T, 1) \in Int
    BY <1>3, <1>4
  <2>2. Interp(t, F) = X(T, 1)
    BY <1>2, <1>7, <2>1, InterpIs
  <2>3. InterpExtrap(t, F, mode) \in {Interp(t, F), Segment(t, F, 1)}
    <3>1. X(F, 1) <= X(F, n)
      BY <1>2, <1>4, <1>7, Rising
    <3>2. X(F, n) \in Int
      BY <1>3, <1>4
    <3>3. CASE t < X(F, 1)
      BY <1>2, <1>7, <3>3, InterpExtrapIs
    <3>4. CASE t = X(F, 1)
      <4>1. X(F, 1) <= t /\ t <= X(F, n)
        BY <2>1, <3>1, <3>4
      <4> QED
        BY <1>2, <1>7, <4>1, InterpExtrapIs
    <3> QED
      BY <1>7, <2>1, <3>3, <3>4
  <2>4. Segment(t, F, 1) <= X(T, 1) /\ Segment(t, F, 1) \in Int
    <3>1. Y(F, 1) < Y(F, 1 + 1)
      BY <1>2, <1>4, <1>7 DEF IsCurve
    <3> QED
      BY <1>2, <1>4, <1>7, <2>1, <3>1, SegmentOf
  <2>5. InterpExtrap(t, F, mode) <= X(T, 1) /\ InterpExtrap(t, F, mode) \in Int
    BY <2>1, <2>2, <2>3, <2>4
  <2> QED
    BY <2>1, <2>5 DEF F
<1>8. CASE n > 1 /\ Y(T, n) < t
  <2>1. X(F, 1) = Y(T, 1) /\ X(F, n) = Y(T, n) /\ Y(F, n) = X(T, n)
    BY <1>3, <1>4
  <2>2. Interp(t, F) = X(T, n)
    <3>1. X(F, n) <= t
      BY <1>3, <1>4, <1>8, <2>1
    <3> QED
      BY <1>2, <1>8, <2>1, <3>1, InterpIs
  <2>3. InterpExtrap(t, F, mode) = IF mode \in {"up", "both"} THEN Segment(t, F, n - 1) ELSE X(T, n)
    BY <1>2, <1>8, <2>1, <2>2, InterpExtrapIs
  <2>4. CASE g <= X(T, n)
    <3>1. InterpExtrap(g, T, mode) = Interp(g, T)
      <4>1. X(T, 1) <= g
        BY <1>3, <1>4
      <4> QED
        BY <1>1, <1>8, <2>4, <4>1, InterpExtrapIs
    <3>2. Interp(g, T) <= Y(T, n)
      BY <1>4, <1>8, <2>4, InterpBelow
    <3>3. Interp(g, T) \in Int
      BY <1>1, InterpNumber
    <3> QED
      BY <1>3, <1>4, <1>8, <3>1, <3>2, <3>3
  <2>5. CASE ~(g <= X(T, n))
    <3>1. X(T, n) < g
      BY <1>3, <1>4, <2>5
    <3>2. mode \in {"up", "both"}
      BY <2>3, <2>5 DEF F
    <3>3. InterpExtrap(g, T, mode) = Segment(g, T, n - 1)
      BY <1>1, <1>8, <3>1, <3>2, InterpExtrapIs
    <3>4. g <= Segment(t, F, n - 1)
      BY <2>3, <3>2 DEF F
    <3> QED
      BY <1>4, <1>5, <1>8, <3>3, <3>4
  <2> QED
    BY <2>4, <2>5
<1>9. CASE n > 1 /\ t = Y(T, n)
  <2>1. X(F, 1) = Y(T, 1) /\ X(F, n) = Y(T, n) /\ Y(F, n) = X(T, n) /\ Y(T, n) \in Int
    BY <1>3, <1>4
  <2>2. X(F, 1) <= t /\ t <= X(F, n)
    <3>1. X(F, 1) <= X(F, n)
      BY <1>2, <1>4, <1>8, Rising
    <3> QED
      BY <1>9, <2>1, <3>1
  <2>3. InterpExtrap(t, F, mode) = X(T, n)
    BY <1>2, <1>9, <2>1, <2>2, InterpExtrapIs, InterpIs
  <2>4. X(T, 1) <= g /\ g <= X(T, n)
    BY <1>3, <1>4, <2>3 DEF F
  <2>5. InterpExtrap(g, T, mode) = Interp(g, T)
    BY <1>1, <1>9, <2>4, InterpExtrapIs
  <2> QED
    BY <1>4, <1>9, <2>4, <2>5, InterpBelow
<1>10. CASE n > 1 /\ Y(T, 1) < t /\ t < Y(T, n)
  <2>1. X(F, 1) = Y(T, 1) /\ X(F, n) = Y(T, n) /\ Y(T, 1) \in Int /\ Y(T, n) \in Int
    BY <1>3, <1>4
  <2>2. PICK i \in 1 .. n - 1 : X(F, i) < t /\ t <= X(F, i + 1) /\ Interp(t, F) = Segment(t, F, i)
    BY <1>2, <1>10, <2>1, InterpIs
  <2>3. i \in 1 .. n /\ i + 1 \in 1 .. n
    BY <1>1
  <2>4. X(F, 1) <= t /\ t <= X(F, n)
    BY <1>10, <2>1
  <2>5. g <= Segment(t, F, i)
    <3>1. InterpExtrap(t, F, mode) = Interp(t, F)
      BY <1>2, <1>10, <2>4, InterpExtrapIs
    <3> QED
      BY <2>2, <3>1 DEF F
  <2>6. g <= X(T, i + 1)
    <3>1. Y(F, i) < Y(F, i + 1)
      BY <1>2 DEF IsCurve
    <3>2. Segment(t, F, i) \in Int /\ Segment(t, F, i) <= Y(F, i + 1)
      BY <1>2, <2>2, <3>1, SegmentOf
    <3> QED
      BY <1>3, <2>3, <2>5, <3>2
  <2>7. g <= X(T, n) /\ X(T, 1) <= g
    <3>1. X(T, i + 1) <= X(T, n)
      BY <1>1, <1>4, <2>3, Rising
    <3> QED
      BY <1>3, <1>4, <2>3, <2>6, <3>1
  <2>8. InterpExtrap(g, T, mode) = Interp(g, T)
    BY <1>1, <1>10, <2>7, InterpExtrapIs
  <2>9. CASE g <= X(T, i)
    <3>1. Interp(g, T) <= Y(T, i)
      BY <1>10, <2>3, <2>9, InterpBelow
    <3>2. Interp(g, T) \in Int
      BY <1>1, InterpNumber
    <3> QED
      BY <1>3, <2>2, <2>3, <2>8, <3>1, <3>2
  <2>10. CASE ~(g <= X(T, i))
    <3>1. X(T, i) < g
      BY <1>3, <2>3, <2>10
    <3>2. CASE g = X(T, n)
      <4>1. i + 1 = n
        <5>1. i + 1 < n => X(T, i + 1) < X(T, n)
          BY <1>1, <1>4, <2>3, Rising
        <5> QED
          BY <1>1, <1>3, <1>4, <2>3, <2>6, <3>2, <5>1
      <4>2. Segment(g, T, i) = Y(T, n)
        <5> DEFINE dx == X(T, n) - X(T, i)
                   dy == Y(T, n) - Y(T, i)
        <5>1. dx \in Int /\ dx > 0 /\ dy \in Int
          <6>1. X(T, n) \in Int /\ X(T, i) \in Int /\ Y(T, n) \in Int /\ Y(T, i) \in Int
            BY <1>3, <1>4, <2>3
          <6>2. X(T, i) < X(T, n)
            BY <3>1, <3>2
          <6> QED
            BY <6>1, <6>2
        <5>2. Segment(g, T, i) = Y(T, i) + (dy * dx) \div dx
          BY <3>2, <4>1 DEF Segment
        <5>3. Y(T, n) = Y(T, i) + dy
          BY <1>3, <1>4, <2>3
        <5> HIDE DEF dx, dy
        <5>4. (dy * dx) \div dx = dy
          <6>1. dy * dx = dx * dy /\ dy * dx \in Int
            BY <5>1
          <6>2. (dy * dx) \div dx \in Int
            BY <5>1, <6>1, Quotient
          <6> QED
            BY <5>1, <6>1, <6>2, QuotientBound
        <5> QED
          BY <5>2, <5>3, <5>4
      <4>3. Interp(g, T) = Y(T, n)
        <5>1. X(T, n) <= g
          BY <1>3, <1>4, <3>2
        <5> QED
          BY <1>1, <1>10, <5>1, InterpIs
      <4> QED
        BY <1>5, <2>5, <2>8, <4>2, <4>3
    <3>3. CASE g < X(T, n)
      <4>1. PICK j \in 1 .. n - 1 : X(T, j) < g /\ g <= X(T, j + 1) /\ Interp(g, T) = Segment(g, T, j)
        BY <1>1, <1>10, <3>3, InterpIs
      <4>2. j \in 1 .. n /\ j + 1 \in 1 .. n
        BY <1>1
      <4>3. j = i
        <5>1. j + 1 <= i => X(T, j + 1) <= X(T, i)
          BY <1>1, <2>3, <4>2, Rising
        <5>2. i + 1 <= j => X(T, i + 1) <= X(T, j)
          BY <1>1, <2>3, <4>2, Rising
        <5>3. ~(j + 1 <= i) /\ ~(i + 1 <= j)
          BY <1>3, <2>3, <2>6, <3>1, <4>1, <4>2, <5>1, <5>2
        <5> QED
          BY <1>1, <4>2, <2>3, <5>3
      <4> QED
        BY <1>5, <2>5, <2>8, <4>1, <4>3
    <3> QED
      BY <1>3, <1>4, <2>7, <3>2, <3>3
  <2> QED
    BY <2>9, <2>10
<1>11. n = 1 \/ (n > 1 /\ (t <= Y(T, 1) \/ Y(T, n) < t \/ t = Y(T, n) \/ (Y(T, 1) < t /\ t < Y(T, n))))
  <2> HIDE DEF n
  <2>1. n = 1 \/ n > 1
    BY <1>1
  <2>2. t <= Y(T, 1) \/ Y(T, n) < t \/ t = Y(T, n) \/ (Y(T, 1) < t /\ t < Y(T, n))
    BY <1>3, <1>4
  <2> QED
    BY <2>1, <2>2
<1> QED
  BY <1>6, <1>7, <1>8, <1>9, <1>10, <1>11

-----------------------------------------------------------------------------
(* Recursions: over the first numbers, and sums over a finite set.         *)

\* A step that keeps within a set can be taken n times.
Stepping(V, n, base, step) == n \in Nat /\ base \in V /\ step \in [1 .. n -> [V -> V]]
Run(V, n, base, step, r) ==
  r \in [0 .. n -> V] /\ r[0] = base /\ \A k \in 1 .. n : r[k] = step[k][r[k - 1]]
\* Such a step has a run: the values it takes one after the other.
LEMMA Iterates ==
  ASSUME NEW V, NEW n, NEW base, NEW step, Stepping(V, n, base, step)
  PROVE  \E r : Run(V, n, base, step, r)
<1>0. n \in Nat /\ base \in V /\ step \in [1 .. n -> [V -> V]]
  BY DEF Stepping
<1> DEFINE Ex(m) == \E r \in [0 .. m -> V] : r[0] = base /\ \A k \in 1 .. m : r[k] = step[k][r[k - 1]]
           T == {m \in Nat : m <= n => Ex(m)}
<1>1. 0 \in T
  <2> DEFINE r == [k \in 0 .. 0 |-> base]
  <2>1. r \in [0 .. 0 -> V] /\ r[0] = base /\ \A k \in 1 .. 0 : r[k] = step[k][r[k - 1]]
    BY <1>0
  <2>2. Ex(0)
    BY <2>1
  <2> QED
    BY <2>2
<1>2. ASSUME NEW m \in Nat, m \in T PROVE m + 1 \in T
  <2> SUFFICES ASSUME m + 1 <= n PROVE Ex(m + 1)
    OBVIOUS
  <2>1. PICK r \in [0 .. m -> V] : r[0] = base /\ \A k \in 1 .. m : r[k] = step[k][r[k - 1]]
    <3>1. m <= n
      BY <1>0
    <3> QED
      BY <1>2, <3>1
  <2> DEFINE q == [k \in 0 .. m + 1 |-> IF k = m + 1 THEN step[m + 1][r[m]] ELSE r[k]]
  <2>2. m + 1 \in 1 .. n /\ r[m] \in V
    BY <1>0
  <2>3. step[m + 1][r[m]] \in V
    BY <1>0, <2>2
  <2>4. \A k \in 0 .. m + 1 : k = m + 1 \/ k \in 0 .. m
    OBVIOUS
  <2>5. q \in [0 .. m + 1 -> V]
    BY <2>3, <2>4
  <2>6. q[0] = base
    BY <2>1
  <2>7. ASSUME NEW k \in 1 .. m + 1 PROVE q[k] = step[k][q[k - 1]]
    <3>1. q[k - 1] = r[k - 1] /\ k - 1 \in 0 .. m
      OBVIOUS
    <3>2. CASE k = m + 1
      <4>1. q[k] = step[m + 1][r[m]] /\ k - 1 = m
        BY <3>2
      <4> QED
        BY <3>1, <3>2, <4>1
    <3>3. CASE k # m + 1
      <4>1. k \in 1 .. m /\ q[k] = r[k]
        BY <3>3
      <4> QED
        BY <2>1, <3>1, <4>1
    <3> QED
      BY <3>2, <3>3
  <2> HIDE DEF q
  <2> QED
    BY <2>5, <2>6, <2>7
<1>3. \A m \in Nat : m \in T
  <2> HIDE DEF T
  <2> QED
    BY <1>1, <1>2, Induction
<1> QED
  BY <1>0, <1>3 DEF Run

\* The recursion of a sum over the subsets of S.
Sums(S, h, it) ==
  [s \in SUBSET S |-> IF s = {} THEN 0
                      ELSE LET x == CHOOSE x \in s : TRUE IN h[x] + it[s \ {x}]]
IsSum(S, h, v) == \E it : it = Sums(S, h, it) /\ v = it[S]

\* It has at most one solution.
LEMMA SumsAgree ==
  ASSUME NEW S, IsFiniteSet(S), NEW h, NEW p, NEW q, p = Sums(S, h, p), q = Sums(S, h, q)
  PROVE  \A s \in SUBSET S : p[s] = q[s]
<1> DEFINE T == {m \in Nat : \A s \in SUBSET S : Cardinality(s) = m => p[s] = q[s]}
<1>0. \A s \in SUBSET S : IsFiniteSet(s) /\ Cardinality(s) \in Nat
  BY FS_Subset, FS_CardinalityType
<1>1. 0 \in T
  <2>1. \A s \in SUBSET S : Cardinality(s) = 0 => s = {}
    BY <1>0, FS_EmptySet
  <2>2. p[{}] = 0 /\ q[{}] = 0
    BY DEF Sums
  <2> QED
    BY <2>1, <2>2
<1>2. ASSUME NEW m \in Nat, m \in T PROVE m + 1 \in T
  <2> SUFFICES ASSUME NEW s \in SUBSET S, Cardinality(s) = m + 1 PROVE p[s] = q[s]
    OBVIOUS
  <2>1. s # {}
    <3> SUFFICES ASSUME s = {} PROVE FALSE
      OBVIOUS
    <3>1. Cardinality(s) = 0
      BY FS_EmptySet
    <3> QED
      BY <3>1
  <2> DEFINE x == CHOOSE x \in s : TRUE
  <2>2. x \in s
    BY <2>1
  <2> HIDE DEF x
  <2>3. s \ {x} \in SUBSET S /\ Cardinality(s \ {x}) = m
    <3>1. Cardinality(s \ {x}) = IF x \in s THEN Cardinality(s) - 1 ELSE Cardinality(s)
      BY <1>0, FS_RemoveElement
    <3> QED
      BY <2>2, <3>1
  <2>4. p[s \ {x}] = q[s \ {x}]
    BY <1>2, <2>3
  <2>5. p[s] = h[x] + p[s \ {x}] /\ q[s] = h[x] + q[s \ {x}]
    BY <2>1 DEF Sums, x
  <2> QED
    BY <2>4, <2>5
<1>3. \A m \in Nat : m \in T
  <2> HIDE DEF T
  <2> QED
    BY <1>1, <1>2, Induction
<1> QED
  BY <1>0, <1>3

\* The recursion has a solution.
LEMMA SumsExist ==
  ASSUME NEW S, IsFiniteSet(S), NEW h \in [S -> Int]
  PROVE  \E it \in [SUBSET S -> Int] : it = Sums(S, h, it)
<1> DEFINE Low(m) == {s \in SUBSET S : Cardinality(s) <= m}
           At(it, s) == IF s = {} THEN 0
                        ELSE LET x == CHOOSE x \in s : TRUE IN h[x] + it[s \ {x}]
           Ex(m) == \E it \in [Low(m) -> Int] : \A s \in Low(m) : it[s] = At(it, s)
           T == {m \in Nat : Ex(m)}
<1>0. \A s \in SUBSET S : IsFiniteSet(s) /\ Cardinality(s) \in Nat /\ (Cardinality(s) = 0 <=> s = {})
  BY FS_Subset, FS_CardinalityType, FS_EmptySet
<1>1. 0 \in T
  <2> DEFINE it == [s \in Low(0) |-> 0]
  <2>1. it \in [Low(0) -> Int]
    OBVIOUS
  <2>2. \A s \in Low(0) : it[s] = At(it, s)
    <3>1. \A s \in Low(0) : s = {}
      BY <1>0
    <3> QED
      BY <3>1
  <2>3. Ex(0)
    <3> HIDE DEF it, Low, At
    <3> QED
      BY <2>1, <2>2
  <2> QED
    BY <2>3
<1>2. ASSUME NEW m \in Nat, m \in T PROVE m + 1 \in T
  <2>1. PICK it \in [Low(m) -> Int] : \A s \in Low(m) : it[s] = At(it, s)
    <3> HIDE DEF Low, At
    <3> QED
      BY <1>2
  <2> DEFINE q == [s \in Low(m + 1) |-> IF s \in Low(m) THEN it[s] ELSE At(it, s)]
  <2>2. ASSUME NEW s \in Low(m + 1), s # {}, NEW x, x = CHOOSE y \in s : TRUE
        PROVE  x \in S /\ s \ {x} \in Low(m)
    <3>1. x \in s
      BY <2>2
    <3>2. s \ {x} \in SUBSET S /\ Cardinality(s \ {x}) \in Nat /\ Cardinality(s) \in Nat
      BY <1>0
    <3>3. Cardinality(s \ {x}) = IF x \in s THEN Cardinality(s) - 1 ELSE Cardinality(s)
      BY <1>0, FS_RemoveElement
    <3>4. Cardinality(s) <= m + 1
      OBVIOUS
    <3>5. Cardinality(s \ {x}) <= m
      <4> HIDE DEF Low
      <4> QED
        BY <3>1, <3>2, <3>3, <3>4
    <3> QED
      BY <3>1, <3>2, <3>5
  <2>3. \A s \in Low(m + 1) : At(it, s) \in Int
    <3> TAKE s \in Low(m + 1)
    <3>1. CASE s = {}
      BY <3>1
    <3>2. CASE s # {}
      <4> DEFINE x == CHOOSE y \in s : TRUE
      <4>1. x \in S /\ s \ {x} \in Low(m)
        <5> HIDE DEF Low
        <5> QED
          BY <2>2, <3>2
      <4>2. At(it, s) = h[x] + it[s \ {x}]
        BY <3>2
      <4> HIDE DEF x, Low, At
      <4>3. h[x] \in Int /\ it[s \ {x}] \in Int
        BY <4>1
      <4> QED
        BY <4>2, <4>3
    <3> QED
      BY <3>1, <3>2
  <2>4. q \in [Low(m + 1) -> Int]
    <3> HIDE DEF Low, At
    <3> QED
      BY <2>3
  <2>5. \A s \in Low(m + 1) : q[s] = At(q, s)
    <3> TAKE s \in Low(m + 1)
    <3>1. q[s] = At(it, s)
      <4> HIDE DEF Low, At
      <4> QED
        BY <2>1
    <3>2. At(q, s) = At(it, s)
      <4>1. CASE s = {}
        BY <4>1
      <4>2. CASE s # {}
        <5> DEFINE x == CHOOSE y \in s : TRUE
        <5>1. s \ {x} \in Low(m)
          <6> HIDE DEF Low
          <6> QED
            BY <2>2, <4>2
        <5>2. s \ {x} \in Low(m + 1)
          <6> HIDE DEF x
          <6> QED
            BY <1>0, <5>1
        <5>3. q[s \ {x}] = it[s \ {x}]
          <6> HIDE DEF x, Low, At
          <6> QED
            BY <5>1, <5>2
        <5> QED
          BY <5>3
      <4> QED
        BY <4>1, <4>2
    <3> QED
      BY <3>1, <3>2
  <2>6. Ex(m + 1)
    <3> HIDE DEF q, Low, At
    <3> QED
      BY <2>4, <2>5
  <2> HIDE DEF Ex
  <2> QED
    BY <2>6
<1>3. \A m \in Nat : m \in T
  <2> HIDE DEF T
  <2> QED
    BY <1>1, <1>2, Induction
<1>4. Low(Cardinality(S)) = SUBSET S
  <2>1. \A s \in SUBSET S : Cardinality(s) <= Cardinality(S)
    BY FS_Subset
  <2> QED
    BY <2>1
<1>5. PICK it \in [SUBSET S -> Int] : \A s \in SUBSET S : it[s] = At(it, s)
  <2>1. Ex(Cardinality(S))
    <3> HIDE DEF Ex
    <3> QED
      BY <1>3, FS_CardinalityType
  <2> HIDE DEF Low, At
  <2> QED
    BY <1>4, <2>1
<1>6. it = [s \in SUBSET S |-> it[s]]
  OBVIOUS
<1>7. it = [s \in SUBSET S |-> At(it, s)]
  <2> HIDE DEF At
  <2> QED
    BY <1>5, <1>6
<1> QED
  BY <1>7 DEF Sums

\* A sum of numbers is a number, one of numbers that are not positive is not,
\* and there is only one.
LEMMA SumIs ==
  ASSUME NEW S, IsFiniteSet(S), NEW h \in [S -> Int], NEW v, IsSum(S, h, v)
  PROVE  /\ v \in Int
         /\ (\A x \in S : h[x] <= 0) => v <= 0
         /\ \A w : IsSum(S, h, w) => w = v
<1>1. \A it : it = Sums(S, h, it) =>
        \A s \in SUBSET S : it[s] = IF s = {} THEN 0
                                    ELSE LET x == CHOOSE x \in s : TRUE IN h[x] + it[s \ {x}]
  BY DEF Sums
<1>2. \A p, q : p = Sums(S, h, p) /\ q = Sums(S, h, q) => \A s \in SUBSET S : p[s] = q[s]
  BY SumsAgree
<1>3. S \in SUBSET S
  OBVIOUS
<1>4. \A w : IsSum(S, h, w) => w = v
  BY <1>2, <1>3 DEF IsSum
<1>5. PICK it \in [SUBSET S -> Int] : it = Sums(S, h, it)
  BY SumsExist
<1>6. v = it[S]
  BY <1>4, <1>5 DEF IsSum
<1>7. v \in Int
  BY <1>3, <1>5, <1>6
<1>8. ASSUME \A x \in S : h[x] <= 0 PROVE v <= 0
  <2> DEFINE T == {m \in Nat : \A s \in SUBSET S : Cardinality(s) = m => it[s] <= 0}
  <2>0. \A s \in SUBSET S : IsFiniteSet(s) /\ Cardinality(s) \in Nat
    BY FS_Subset, FS_CardinalityType
  <2>1. 0 \in T
    <3>1. \A s \in SUBSET S : Cardinality(s) = 0 => s = {}
      BY <2>0, FS_EmptySet
    <3>2. {} \in SUBSET S
      OBVIOUS
    <3>3. it[{}] = 0
      BY <1>1, <1>5, <3>2
    <3> QED
      BY <3>1, <3>3
  <2>2. ASSUME NEW m \in Nat, m \in T PROVE m + 1 \in T
    <3> SUFFICES ASSUME NEW s \in SUBSET S, Cardinality(s) = m + 1 PROVE it[s] <= 0
      OBVIOUS
    <3>1. s # {}
      BY FS_EmptySet
    <3> DEFINE x == CHOOSE x \in s : TRUE
    <3>2. x \in s
      BY <3>1
    <3>3. it[s] = h[x] + it[s \ {x}]
      BY <1>1, <1>5, <3>1
    <3> HIDE DEF x
    <3>4. s \ {x} \in SUBSET S /\ Cardinality(s \ {x}) = m
      <4>1. Cardinality(s \ {x}) = IF x \in s THEN Cardinality(s) - 1 ELSE Cardinality(s)
        BY <2>0, FS_RemoveElement
      <4> QED
        BY <3>2, <4>1
    <3>5. it[s \ {x}] <= 0 /\ it[s \ {x}] \in Int
      BY <1>5, <2>2, <3>4
    <3>6. h[x] <= 0 /\ h[x] \in Int
      BY <1>8, <3>2
    <3> QED
      BY <3>3, <3>5, <3>6
  <2>3. \A m \in Nat : m \in T
    <3> HIDE DEF T
    <3> QED
      BY <2>1, <2>2, Induction
  <2> QED
    BY <1>3, <1>6, <2>0, <2>3
<1> QED
  BY <1>4, <1>7, <1>8

-----------------------------------------------------------------------------
(* The grid of a chain.                                                    *)

\* The components of a chain, and a chain, have whole numbers.
Components(actives) ==
  /\ Len(actives) \in Nat /\ DOMAIN actives = 1 .. Len(actives)
  /\ \A i \in DOMAIN actives : IsComponent(actives[i])
IsChain(C) ==
  /\ C.curve \in Points /\ IsCurve(C.curve)
  /\ C.shift \in Int /\ C.min \in Int /\ C.ceiling \in Int /\ C.step \in Nat
  /\ Components(C.actives)

\* Two things are finitely many.
LEMMA PairFinite ==
  ASSUME NEW x, NEW y
  PROVE  IsFiniteSet({x, y})
<1> DEFINE one == {x}
<1>1. IsFiniteSet(one)
  BY FS_Singleton
<1>2. {x, y} = one \cup {y}
  OBVIOUS
<1> HIDE DEF one
<1> QED
  BY <1>1, <1>2, FS_AddElement

\* The gain of a limit that is not told apart from the least one.
LeastOn(min, step) == Ceil(min, Highest(step, 1))
Capped(g, min, ceiling, step) == g \in Int /\ (g <= ceiling \/ g <= LeastOn(min, step))

\* What is clamped is a number at most the upper end, and at least the lower
\* one unless the ends are crossed.
LEMMA Clamped ==
  ASSUME NEW x \in Int, NEW lo \in Int, NEW hi \in Int
  PROVE  Clamp(x, lo, hi) \in Int /\ Clamp(x, lo, hi) <= hi /\ (lo <= hi => lo <= Clamp(x, lo, hi))
BY DEF Clamp, Lowest, Highest

\* What is rounded to a step is a number; rounded down it is not greater.
LEMMA Rounded ==
  ASSUME NEW x \in Int, NEW step \in Int, step > 0
  PROVE  /\ RoundTo(x, step) \in Int /\ RoundTo(x, step) * step \in Int
         /\ Floor(x, step) \in Int /\ Ceil(x, step) \in Int
         /\ Floor(x, step) <= x
<1>1. x \div step \in Int /\ step * (x \div step) <= x
  BY Quotient
<1>2. (-x) \div step \in Int
  BY Quotient
<1>3. RoundTo(x, step) \in {x \div step, x \div step + 1}
  BY DEF RoundTo
<1>4. RoundTo(x, step) \in Int
  BY <1>1, <1>3
<1>5. \A q \in Int : q * step \in Int /\ q * step = step * q /\ -q \in Int
  OBVIOUS
<1>6. Floor(x, step) = (x \div step) * step
  BY DEF Floor
<1>7. Ceil(x, step) = (-((-x) \div step)) * step
  BY DEF Ceil
<1> DEFINE q == x \div step  r == (-x) \div step
<1>8. q \in Int /\ -r \in Int /\ step * q <= x /\ Floor(x, step) = q * step /\ Ceil(x, step) = (-r) * step
  BY <1>1, <1>2, <1>6, <1>7
<1> HIDE DEF q, r
<1> QED
  BY <1>4, <1>5, <1>8

\* A gain on the grid exceeds the ceiling only where the least gain does.
LEMMA OnGridCapped ==
  ASSUME NEW g \in Int, NEW lo \in Int, NEW hi \in Int, NEW step \in Nat, NEW how
  PROVE  Capped(OnGrid(g, lo, hi, step, how), lo, hi, step)
<1> DEFINE c == Clamp(g, lo, hi)
           q == CASE how = "floor" -> Floor(c, step)
                  [] how = "ceil" -> Ceil(c, step)
                  [] OTHER -> RoundTo(c, step) * step
           down == IF q > hi THEN Floor(hi, step) ELSE q
<1>1. c \in Int /\ c <= hi
  BY Clamped
<1>2. OnGrid(g, lo, hi, step, how) =
        IF step = 0 THEN c ELSE IF down < lo THEN Ceil(lo, step) ELSE down
  BY DEF OnGrid
<1>3. CASE step = 0
  BY <1>1, <1>2, <1>3 DEF Capped
<1>4. CASE step # 0
  <2>1. step \in Int /\ step > 0 /\ step >= 1
    BY <1>4
  <2>2. q \in {Floor(c, step), Ceil(c, step), RoundTo(c, step) * step}
    OBVIOUS
  <2>3. q \in Int
    <3> HIDE DEF q, c
    <3> QED
      BY <1>1, <2>1, <2>2, Rounded
  <2>4. Floor(hi, step) \in Int /\ Floor(hi, step) <= hi /\ Ceil(lo, step) \in Int
    BY <2>1, Rounded
  <2>5. down \in Int /\ down <= hi
    <3> HIDE DEF q
    <3> QED
      BY <2>3, <2>4
  <2>6. LeastOn(lo, step) = Ceil(lo, step)
    BY <2>1 DEF LeastOn, Highest
  <2>7. OnGrid(g, lo, hi, step, how) \in {Ceil(lo, step), down}
    BY <1>2, <1>4
  <2> HIDE DEF down
  <2> QED
    BY <2>4, <2>5, <2>6, <2>7 DEF Capped
<1> QED
  BY <1>3, <1>4

\* What the chain gives is a number, on the grid a capped one.
LEMMA ChainNumbers ==
  ASSUME NEW C, IsChain(C), NEW x \in Int
  PROVE  Power(C, x) \in Int /\ Gain(C, x) \in Int
<1>1. C.curve \in Points /\ IsTable(C.curve) /\ C.shift \in Int
  BY DEF IsChain, IsCurve
<1>2. Flipped(C.curve) \in Points /\ IsTable(Flipped(C.curve))
  BY FlippedCurve DEF IsChain, IsCurve
<1>3. InterpExtrap(x, C.curve, C.mode) \in Int
  BY <1>1, InterpNumber
<1>4. x - C.shift \in Int
  BY <1>1
<1>5. InterpExtrap(x - C.shift, Flipped(C.curve), C.mode) \in Int
  BY <1>2, <1>4, InterpNumber
<1> QED
  BY <1>1, <1>3, <1>5 DEF Power, Gain

\* A chain's gain on the grid is a number, and capped.
LEMMA GridNumbers ==
  ASSUME NEW C, IsChain(C), NEW x \in Int, NEW how
  PROVE  GridGain(C, x, how) \in Int /\ Capped(GridGain(C, x, how), C.min, C.ceiling, C.step)
<1>1. Capped(GridGain(C, x, how), C.min, C.ceiling, C.step)
  BY OnGridCapped DEF GridGain, IsChain
<1> QED
  BY <1>1 DEF Capped

\* What a component takes is not negative and at most its reach.
LEMMA TakeIs ==
  ASSUME NEW a, IsComponent(a), NEW left \in Int
  PROVE  Take(a, left) \in Int /\ 0 <= Take(a, left) /\ ReachOf(a) \in Int /\ ReachOf(a) >= 0
<1>1. ReachOf(a) \in Int /\ ReachOf(a) >= 0 /\ a.step \in Int /\ a.step > 0
  BY DEF ReachOf, IsComponent
<1>2. Lowest(left, ReachOf(a)) \in Int
  BY <1>1 DEF Lowest
<1>3. RoundTo(Lowest(left, ReachOf(a)), a.step) * a.step \in Int
  BY <1>1, <1>2, Rounded
<1> QED
  BY <1>1, <1>3, Clamped DEF Take

\* A split of a reduction leaves every component at most where it is at rest.
LEMMA SnapIs ==
  ASSUME NEW G, Components(G.actives), NEW x \in Int
  PROVE  LET snap == SnapReduction(G, x) IN
         /\ snap.total \in Int /\ DOMAIN snap.applied = DOMAIN G.actives
         /\ \A i \in DOMAIN G.actives : snap.applied[i] \in Int /\ snap.applied[i] <= G.actives[i].hi
<1> DEFINE n == Len(G.actives)
           Next1(k, t) == t + Take(G.actives[k], Highest(x - t, 0))
           step == [k \in 1 .. n |-> [t \in Int |-> Next1(k, t)]]
           Rec(taken) == [k \in 0 .. n |-> IF k = 0 THEN 0 ELSE Next1(k, taken[k - 1])]
<1>1. n \in Nat /\ DOMAIN G.actives = 1 .. n
  BY DEF Components
<1>2. \A k \in 1 .. n, t \in Int : /\ Take(G.actives[k], Highest(x - t, 0)) \in Int
                                   /\ 0 <= Take(G.actives[k], Highest(x - t, 0))
  <2> TAKE k \in 1 .. n, t \in Int
  <2>1. Highest(x - t, 0) \in Int
    BY DEF Highest
  <2>2. IsComponent(G.actives[k])
    BY <1>1 DEF Components
  <2> QED
    BY <2>1, <2>2, TakeIs
<1>3. step \in [1 .. n -> [Int -> Int]]
  <2>1. \A k \in 1 .. n, t \in Int : Next1(k, t) \in Int
    <3> TAKE k \in 1 .. n, t \in Int
    <3>1. Take(G.actives[k], Highest(x - t, 0)) \in Int
      BY <1>2
    <3> QED
      BY <3>1
  <2> HIDE DEF Next1, n
  <2> QED
    BY <2>1
<1>4. \E r \in [0 .. n -> Int] : r[0] = 0 /\ \A k \in 1 .. n : r[k] = step[k][r[k - 1]]
  <2> HIDE DEF step, n
  <2>1. Stepping(Int, n, 0, step)
    BY <1>1, <1>3 DEF Stepping
  <2>2. PICK r : Run(Int, n, 0, step, r)
    BY <2>1, Iterates
  <2> QED
    BY <2>2 DEF Run
<1>5. \E r \in [0 .. n -> Int] : r = Rec(r)
  <2>1. PICK r \in [0 .. n -> Int] : r[0] = 0 /\ \A k \in 1 .. n : r[k] = step[k][r[k - 1]]
    BY <1>4
  <2>2. ASSUME NEW k \in 0 .. n PROVE r[k] = IF k = 0 THEN 0 ELSE Next1(k, r[k - 1])
    <3>1. CASE k = 0
      BY <2>1, <3>1
    <3>2. CASE k # 0
      <4>1. k \in 1 .. n /\ k - 1 \in 0 .. n
        BY <1>1, <3>2
      <4>2. r[k - 1] \in Int
        BY <4>1
      <4>4. step[k][r[k - 1]] = Next1(k, r[k - 1])
        <5> HIDE DEF Next1
        <5> QED
          BY <4>1, <4>2
      <4> HIDE DEF step, Next1
      <4> QED
        BY <2>1, <3>2, <4>1, <4>4
    <3> QED
      BY <3>1, <3>2
  <2>3. r = [k \in 0 .. n |-> r[k]]
    OBVIOUS
  <2>4. r = Rec(r)
    <3> HIDE DEF Next1
    <3> QED
      BY <2>2, <2>3
  <2> HIDE DEF Rec
  <2> QED
    BY <2>4
<1> DEFINE taken == CHOOSE r : r = Rec(r)
<1>6. taken = Rec(taken)
  <2> HIDE DEF Rec
  <2> QED
    BY <1>5
<1>7. /\ SnapReduction(G, x).total = taken[n]
      /\ SnapReduction(G, x).applied = [i \in DOMAIN G.actives |-> G.actives[i].hi - (taken[i] - taken[i - 1])]
  BY DEF SnapReduction
<1> HIDE DEF taken
<1>8. taken[0] = 0 /\ \A k \in 1 .. n : taken[k] = Next1(k, taken[k - 1])
  <2>1. \A k \in 0 .. n : taken[k] = IF k = 0 THEN 0 ELSE Next1(k, taken[k - 1])
    <3> HIDE DEF Next1
    <3> QED
      BY <1>6
  <2> HIDE DEF Next1
  <2>2. 0 \in 0 .. n /\ \A k \in 1 .. n : k \in 0 .. n /\ k # 0
    BY <1>1
  <2> QED
    BY <2>1, <2>2
<1>9. \A k \in Nat : k \in {m \in Nat : m <= n => taken[m] \in Int}
  <2> DEFINE T == {m \in Nat : m <= n => taken[m] \in Int}
  <2>1. 0 \in T
    BY <1>8
  <2>2. ASSUME NEW m \in Nat, m \in T PROVE m + 1 \in T
    <3> SUFFICES ASSUME m + 1 <= n PROVE taken[m + 1] \in Int
      OBVIOUS
    <3>1. taken[m] \in Int /\ m + 1 \in 1 .. n /\ (m + 1) - 1 = m
      BY <1>1, <2>2
    <3>2. taken[m + 1] = Next1(m + 1, taken[m])
      <4> HIDE DEF Next1
      <4> QED
        BY <1>8, <3>1
    <3>3. Take(G.actives[m + 1], Highest(x - taken[m], 0)) \in Int
      <4> HIDE DEF n
      <4> QED
        BY <1>2, <3>1
    <3> QED
      BY <3>1, <3>2, <3>3
  <2> HIDE DEF T
  <2>3. \A m \in Nat : m \in T
    BY <2>1, <2>2, Induction
  <2> QED
    BY <2>3 DEF T
<1>10. \A k \in 0 .. n : taken[k] \in Int
  BY <1>1, <1>9
<1>11. ASSUME NEW i \in 1 .. n
       PROVE  /\ G.actives[i].hi - (taken[i] - taken[i - 1]) \in Int
              /\ G.actives[i].hi - (taken[i] - taken[i - 1]) <= G.actives[i].hi
  <2>1. i - 1 \in 0 .. n /\ i \in 0 .. n
    BY <1>1
  <2>2. taken[i] \in Int /\ taken[i - 1] \in Int
    BY <1>10, <2>1
  <2>3. G.actives[i].hi \in Int
    BY <1>1 DEF Components, IsComponent
  <2> DEFINE r == Take(G.actives[i], Highest(x - taken[i - 1], 0))
  <2>4. taken[i] = taken[i - 1] + r
    BY <1>8
  <2>5. r \in Int /\ 0 <= r
    <3> HIDE DEF n
    <3> QED
      BY <1>2, <2>2
  <2> HIDE DEF r
  <2> QED
    BY <2>2, <2>3, <2>4, <2>5
<1>12. n \in 0 .. n
  BY <1>1
<1> QED
  BY <1>1, <1>7, <1>10, <1>11, <1>12

\* What is at most a capped gain is capped.
LEMMA CappedBelow ==
  ASSUME NEW g \in Int, NEW h, NEW min \in Int, NEW ceiling \in Int, NEW step \in Nat,
         Capped(h, min, ceiling, step), g <= h
  PROVE  Capped(g, min, ceiling, step)
<1>1. LeastOn(min, step) \in Int
  <2>1. Highest(step, 1) \in Int /\ Highest(step, 1) > 0
    BY DEF Highest
  <2> QED
    BY <2>1, Rounded DEF LeastOn
<1> QED
  BY <1>1 DEF Capped

\* The components' numbers at rest, and what they can take away, have a sum.
AtRest(actives) == LET hiOf(i) == actives[i].hi IN SumOver(DOMAIN actives, hiOf)
Reaches(actives) == LET reachOf(i) == ReachOf(actives[i]) IN SumOver(DOMAIN actives, reachOf)
\* These sums are numbers.
LEMMA RestIs ==
  ASSUME NEW actives, Components(actives)
  PROVE  AtRest(actives) \in Int /\ Reaches(actives) \in Int
<1> DEFINE D == DOMAIN actives
           his == [i \in D |-> actives[i].hi]
           reaches == [i \in D |-> ReachOf(actives[i])]
           Hi(it) == [s \in SUBSET D |-> IF s = {} THEN 0
                        ELSE LET x == CHOOSE x \in s : TRUE IN actives[x].hi + it[s \ {x}]]
           Reach(it) == [s \in SUBSET D |-> IF s = {} THEN 0
                        ELSE LET x == CHOOSE x \in s : TRUE IN ReachOf(actives[x]) + it[s \ {x}]]
           p == CHOOSE it : it = Hi(it)
           q == CHOOSE it : it = Reach(it)
<1>1. AtRest(actives) = p[D] /\ Reaches(actives) = q[D]
  BY DEF AtRest, Reaches, SumOver, MapThenSumSet, MapThenFoldSet
<1>2. IsFiniteSet(D)
  BY FS_Interval DEF Components
<1>3. his \in [D -> Int] /\ reaches \in [D -> Int]
  BY DEF Components, IsComponent, ReachOf
<1>4. \A it : Hi(it) = Sums(D, his, it) /\ Reach(it) = Sums(D, reaches, it)
  <2> SUFFICES ASSUME NEW it PROVE Hi(it) = Sums(D, his, it) /\ Reach(it) = Sums(D, reaches, it)
    OBVIOUS
  <2>1. \A s \in SUBSET D : s # {} => (CHOOSE x \in s : TRUE) \in D
    OBVIOUS
  <2> QED
    BY <2>1 DEF Sums
<1> HIDE DEF Hi, Reach, his, reaches
<1>5. p = Sums(D, his, p) /\ q = Sums(D, reaches, q)
  <2>1. (\E it : it = Hi(it)) /\ (\E it : it = Reach(it))
    <3>1. (\E it : it = Sums(D, his, it)) /\ (\E it : it = Sums(D, reaches, it))
      <4> HIDE DEF D
      <4> QED
        BY <1>2, <1>3, SumsExist
    <3> QED
      BY <1>4, <3>1
  <2>2. p = Hi(p) /\ q = Reach(q)
    BY <2>1
  <2> QED
    BY <1>4, <2>2
<1> HIDE DEF p, q
<1>6. IsSum(D, his, p[D]) /\ IsSum(D, reaches, q[D])
  BY <1>5 DEF IsSum
<1>7. p[D] \in Int /\ q[D] \in Int
  <2> HIDE DEF D
  <2> QED
    BY <1>2, <1>3, <1>6, SumIs
<1> QED
  BY <1>1, <1>7

\* The ends of a grid and the gain its components engage below are capped.
LEMMA GridIs ==
  ASSUME NEW C, IsChain(C)
  PROVE  LET G == NewGrid(C) IN
         /\ G.chain = C /\ G.actives = C.actives /\ G.rest \in Int /\ G.reach \in Int
         /\ \A g \in {G.lo, G.hi, G.thr} : Capped(g, C.min, C.ceiling, C.step)
         /\ G.lo = GridGain(C, C.min, "nearest") /\ G.hi = GridGain(C, C.ceiling, "nearest")
         /\ C.step = 0 => \E x \in Int : G.thr = Clamp(GridGain(C, x, "nearest"), G.lo, G.hi)
         /\ C.step # 0 => G.thr = G.hi \/ (G.thr \in G.lo .. G.hi /\ (G.thr - G.lo) % C.step = 0)
<1> DEFINE D == DOMAIN C.actives
           rest == AtRest(C.actives)
           reach == Reaches(C.actives)
           lo == GridGain(C, C.min, "nearest")
           hi == GridGain(C, C.ceiling, "nearest")
           bottom == Power(C, lo) + rest
           top == Power(C, hi) + rest
           engages == {0} \cup {C.actives[i].engage : i \in D}
           engage == Max(engages)
           threshold == IF top > bottom THEN bottom + (engage * (top - bottom)) \div 100 ELSE bottom
           gains == IF C.step = 0 THEN {lo, hi} ELSE {g \in lo .. hi : g = hi \/ (g - lo) % C.step = 0}
           tops == {hi} \cup {g \in gains : Power(C, g) + rest >= threshold}
           thr == IF C.step = 0 THEN Clamp(GridGain(C, Gain(C, threshold - rest), "nearest"), lo, hi)
                  ELSE Min(tops)
<1>1. NewGrid(C) = [chain |-> C, actives |-> C.actives, rest |-> rest, lo |-> lo, hi |-> hi,
                    gains |-> gains, reach |-> reach, thr |-> thr]
  BY DEF NewGrid, AtRest, Reaches
<1>2. Components(C.actives) /\ C.min \in Int /\ C.ceiling \in Int /\ C.step \in Nat
  BY DEF IsChain
<1>3. rest \in Int /\ reach \in Int
  BY <1>2, RestIs
<1>4. /\ Capped(lo, C.min, C.ceiling, C.step) /\ lo \in Int
      /\ Capped(hi, C.min, C.ceiling, C.step) /\ hi \in Int
  BY <1>2, GridNumbers
<1> HIDE DEF rest, reach, lo, hi, engages
<1>5. bottom \in Int /\ top \in Int
  BY <1>3, <1>4, ChainNumbers
<1>6. engage \in Int
  <2> DEFINE f == [i \in D |-> C.actives[i].engage]
             E == {f[i] : i \in D}
  <2>1. IsFiniteSet(D)
    BY <1>2, FS_Interval DEF Components
  <2>2. IsFiniteSet(E)
    <3> HIDE DEF f, D
    <3> QED
      BY <2>1, ImageFinite
  <2>3. engages = E \cup {0}
    BY DEF engages
  <2>4. engages \in SUBSET Int /\ engages # {}
    BY <1>2 DEF engages, Components, IsComponent
  <2>5. IsFiniteSet(engages)
    <3> HIDE DEF E
    <3> QED
      BY <2>2, <2>3, FS_AddElement
  <2> QED
    BY <2>4, <2>5, MaxOf
<1> HIDE DEF bottom, top, engage
<1>7. threshold \in Int
  <2>1. engage * (top - bottom) \in Int
    BY <1>5, <1>6
  <2>2. (engage * (top - bottom)) \div 100 \in Int
    BY <2>1, Quotient
  <2> QED
    BY <1>5, <2>2
<1> HIDE DEF threshold
<1>8. /\ thr \in Int /\ thr <= hi
      /\ C.step = 0 => \E x \in Int : thr = Clamp(GridGain(C, x, "nearest"), lo, hi)
      /\ C.step # 0 => thr = hi \/ (thr \in lo .. hi /\ (thr - lo) % C.step = 0)
  <2>1. CASE C.step = 0
    <3>1. threshold - rest \in Int
      BY <1>3, <1>7
    <3>2. Gain(C, threshold - rest) \in Int
      BY <3>1, ChainNumbers
    <3>3. GridGain(C, Gain(C, threshold - rest), "nearest") \in Int
      BY <3>2, GridNumbers
    <3>4. thr = Clamp(GridGain(C, Gain(C, threshold - rest), "nearest"), lo, hi)
      BY <2>1
    <3> HIDE DEF thr
    <3> QED
      BY <1>4, <2>1, <3>2, <3>3, <3>4, Clamped
  <2>2. CASE C.step # 0
    <3>1. tops \in SUBSET (lo .. hi \cup {hi})
      BY <2>2
    <3>2. IsFiniteSet(lo .. hi \cup {hi})
      BY <1>4, FS_Interval, FS_AddElement
    <3>3. IsFiniteSet(tops) /\ hi \in tops
      <4>1. hi \in tops
        OBVIOUS
      <4> HIDE DEF tops
      <4> QED
        BY <3>1, <3>2, <4>1, FS_Subset
    <3>4. tops \in SUBSET Int /\ tops # {}
      <4> HIDE DEF tops
      <4> QED
        BY <1>4, <3>1, <3>3
    <3>5. thr = Min(tops)
      BY <2>2
    <3>6. \A g \in tops : g = hi \/ (g \in lo .. hi /\ (g - lo) % C.step = 0)
      BY <2>2
    <3> HIDE DEF tops, thr
    <3>7. thr \in tops /\ thr \in Int /\ thr <= hi
      BY <3>3, <3>4, <3>5, MinOf
    <3> QED
      BY <2>2, <3>6, <3>7
  <2> QED
    BY <2>1, <2>2
<1> HIDE DEF thr
<1>9. Capped(thr, C.min, C.ceiling, C.step)
  BY <1>2, <1>4, <1>8, CappedBelow
<1> HIDE DEF gains
<1>10. /\ NewGrid(C).chain = C /\ NewGrid(C).actives = C.actives /\ NewGrid(C).rest = rest
       /\ NewGrid(C).reach = reach /\ NewGrid(C).lo = lo /\ NewGrid(C).hi = hi
       /\ NewGrid(C).thr = thr
  BY <1>1
<1> QED
  BY <1>3, <1>4, <1>8, <1>9, <1>10 DEF lo, hi

\* Of finitely many trials one ranks first.
LEMMA FirstTrial ==
  ASSUME NEW S, IsFiniteSet(S), S # {},
         \A s \in S : s.rank[1] \in Int /\ s.rank[2] \in Int /\ s.rank[3] \in Int
  PROVE  \E s \in S : \A t \in S : RankLE(s.rank, t.rank)
<1>1. ASSUME NEW R \in SUBSET S, R # {}, NEW k \in 1 .. 3
      PROVE  \E s \in R : \A t \in R : s.rank[k] <= t.rank[k]
  <2> DEFINE h == [s \in R |-> s.rank[k]]
             A == {h[s] : s \in R}
  <2>1. \A s \in R : h[s] = s.rank[k] /\ h[s] \in Int
    OBVIOUS
  <2>2. IsFiniteSet(A)
    <3>1. IsFiniteSet(R)
      BY FS_Subset
    <3> HIDE DEF h
    <3> QED
      BY <3>1, ImageFinite
  <2> HIDE DEF h
  <2>3. A \in SUBSET Int /\ A # {}
    BY <1>1, <2>1
  <2>4. Min(A) \in A /\ \A y \in A : Min(A) <= y
    <3> HIDE DEF A
    <3> QED
      BY <2>2, <2>3, MinOf
  <2>5. PICK s \in R : Min(A) = h[s]
    BY <2>4
  <2>6. \A t \in R : h[s] <= h[t]
    BY <2>4, <2>5
  <2> QED
    BY <2>1, <2>6
<1>2. PICK a \in S : \A t \in S : a.rank[1] <= t.rank[1]
  BY <1>1
<1> DEFINE A == {s \in S : s.rank[1] = a.rank[1]}
<1>3. PICK b \in A : \A t \in A : b.rank[2] <= t.rank[2]
  <2>1. A \in SUBSET S /\ A # {} /\ 2 \in 1 .. 3
    OBVIOUS
  <2> HIDE DEF A
  <2> QED
    BY <1>1, <2>1
<1> DEFINE B == {s \in A : s.rank[2] = b.rank[2]}
<1>4. PICK c \in B : \A t \in B : c.rank[3] <= t.rank[3]
  <2>1. B \in SUBSET S /\ B # {} /\ 3 \in 1 .. 3
    OBVIOUS
  <2> HIDE DEF B
  <2> QED
    BY <1>1, <2>1
<1>5. c \in S /\ c.rank[1] = a.rank[1] /\ c.rank[2] = b.rank[2]
  OBVIOUS
<1>6. ASSUME NEW t \in S PROVE RankLE(c.rank, t.rank)
  <2>1. /\ a.rank[1] <= t.rank[1]
        /\ t.rank[1] = a.rank[1] => b.rank[2] <= t.rank[2]
        /\ t.rank[1] = a.rank[1] /\ t.rank[2] = b.rank[2] => c.rank[3] <= t.rank[3]
    <3>1. t.rank[1] = a.rank[1] => t \in A
      OBVIOUS
    <3>2. t.rank[1] = a.rank[1] /\ t.rank[2] = b.rank[2] => t \in B
      OBVIOUS
    <3> HIDE DEF A, B
    <3> QED
      BY <1>2, <1>3, <1>4, <3>1, <3>2
  <2>2. \A k \in {1, 2, 3} : t.rank[k] \in Int /\ c.rank[k] \in Int
    BY <1>5
  <2> QED
    BY <1>5, <2>1, <2>2 DEF RankLE
<1> QED
  BY <1>5, <1>6

\* A level is realized with a capped gain and with every component at most
\* where it is at rest.
LEMMA RealizeIs ==
  ASSUME NEW C, IsChain(C), NEW p \in Int
  PROVE  LET s == Realize(NewGrid(C), p) IN
         /\ Capped(s.gain, C.min, C.ceiling, C.step)
         /\ s.gain \in Tried(NewGrid(C), Target(NewGrid(C), p)) /\ Target(NewGrid(C), p) \in Int
         /\ DOMAIN s.applied = DOMAIN C.actives
         /\ \A i \in DOMAIN C.actives : s.applied[i] \in Int /\ s.applied[i] <= 0
<1> DEFINE G == NewGrid(C)
<1>1. /\ G.chain = C /\ G.actives = C.actives /\ G.rest \in Int /\ G.reach \in Int
      /\ \A g \in {G.lo, G.hi, G.thr} : Capped(g, C.min, C.ceiling, C.step)
  BY GridIs
<1>2. C.min \in Int /\ C.ceiling \in Int /\ C.step \in Nat /\ Components(C.actives)
  BY DEF IsChain
<1> HIDE DEF G
<1>3. G.lo \in Int /\ G.hi \in Int /\ G.thr \in Int
  BY <1>1 DEF Capped
<1>4. \A g \in Int : Base(G, g) \in Int
  BY <1>1, ChainNumbers DEF Base
<1> DEFINE target == Target(G, p)
           tried == Tried(G, target)
           trials == {Trial(G, g, target) : g \in tried}
<1>5. target \in Int
  <2>1. PICK low \in Int, high \in Int : low = Base(G, G.lo) - G.reach /\ high = Base(G, G.hi)
    BY <1>1, <1>3, <1>4
  <2>2. Clamp(p, low, high) \in Int
    BY Clamped
  <2> QED
    BY <2>1, <2>2 DEF Target
<1> HIDE DEF target
<1>6. IsFiniteSet(tried) /\ tried # {} /\ \A g \in tried : Capped(g, C.min, C.ceiling, C.step)
  <2> DEFINE a == GainOf(G, target, "floor")
             b == GainOf(G, target + G.reach, "ceil")
             from == Clamp(a, G.lo, G.hi)
             to == Clamp(b, G.lo, G.hi)
  <2>1. a \in Int /\ b \in Int
    <3>1. target - G.rest \in Int /\ (target + G.reach) - G.rest \in Int
      BY <1>1, <1>5
    <3>2. Gain(C, target - G.rest) \in Int /\ Gain(C, (target + G.reach) - G.rest) \in Int
      BY <3>1, ChainNumbers
    <3>3. GridGain(C, Gain(C, target - G.rest), "floor") \in Int
      BY <3>2, GridNumbers
    <3>4. GridGain(C, Gain(C, (target + G.reach) - G.rest), "ceil") \in Int
      BY <3>2, GridNumbers
    <3>5. a = GridGain(C, Gain(C, target - G.rest), "floor")
      BY <1>1 DEF GainOf
    <3>6. b = GridGain(C, Gain(C, (target + G.reach) - G.rest), "ceil")
      BY <1>1 DEF GainOf
    <3> QED
      BY <3>3, <3>4, <3>5, <3>6
  <2> HIDE DEF a, b
  <2>2. from \in Int /\ to \in Int /\ from <= G.hi /\ to <= G.hi
    BY <1>3, <2>1, Clamped
  <2>3. tried = IF C.step = 0 THEN {from, to}
                ELSE {G.lo, G.thr, G.hi} \cup {g \in from .. to : (g - from) % C.step = 0}
    BY <1>1 DEF Tried, GainPoints, a, b
  <2> HIDE DEF tried, from, to
  <2>4. \A g \in from .. to : g \in Int /\ g <= G.hi
    BY <1>3, <2>2
  <2>5. \A g \in Int : g <= G.hi => Capped(g, C.min, C.ceiling, C.step)
    BY <1>1, <1>2, CappedBelow
  <2>6. tried # {} /\ \A g \in tried : Capped(g, C.min, C.ceiling, C.step)
    <3>1. CASE C.step = 0
      BY <2>2, <2>3, <2>5, <3>1
    <3>2. CASE C.step # 0
      BY <1>1, <2>3, <2>4, <2>5, <3>2
    <3> QED
      BY <3>1, <3>2
  <2>7. IsFiniteSet(tried)
    <3> DEFINE I == {g \in from .. to : (g - from) % C.step = 0}
    <3>1. IsFiniteSet(from .. to)
      BY <2>2, FS_Interval
    <3>2. IsFiniteSet(I)
      <4>1. I \in SUBSET (from .. to)
        OBVIOUS
      <4> HIDE DEF I
      <4> QED
        BY <3>1, <4>1, FS_Subset
    <3>3. IsFiniteSet({from, to})
      BY PairFinite
    <3>4. {G.lo, G.thr, G.hi} \cup I = ((I \cup {G.lo}) \cup {G.thr}) \cup {G.hi}
      OBVIOUS
    <3> DEFINE J == I \cup {G.lo}
               K == J \cup {G.thr}
    <3>5. IsFiniteSet({G.lo, G.thr, G.hi} \cup I)
      <4> HIDE DEF I
      <4>1. IsFiniteSet(J)
        BY <3>2, FS_AddElement
      <4> HIDE DEF J
      <4>2. IsFiniteSet(K)
        BY <4>1, FS_AddElement
      <4> HIDE DEF K
      <4>3. IsFiniteSet(K \cup {G.hi})
        BY <4>2, FS_AddElement
      <4> QED
        BY <3>4, <4>3 DEF J, K
    <3> QED
      BY <2>3, <3>3, <3>5 DEF I
  <2> QED
    BY <2>6, <2>7
<1> HIDE DEF tried
<1>7. ASSUME NEW g \in tried
      PROVE  LET s == Trial(G, g, target) IN
             /\ s.gain = g
             /\ s.rank[1] \in Int /\ s.rank[2] \in Int /\ s.rank[3] \in Int
             /\ DOMAIN s.applied = DOMAIN C.actives
             /\ \A i \in DOMAIN C.actives : s.applied[i] \in Int /\ s.applied[i] <= 0
  <2> DEFINE base == Base(G, g)
             rests == [total |-> 0, applied |-> [i \in DOMAIN G.actives |-> G.actives[i].hi]]
             snap == IF base >= target THEN SnapReduction(G, base - target) ELSE rests
             below == g < G.thr
  <2>1. g \in Int /\ base \in Int
    BY <1>4, <1>6 DEF Capped
  <2>2. \A i \in DOMAIN C.actives : C.actives[i].hi \in Int /\ C.actives[i].hi <= 0
    BY <1>2 DEF Components, IsComponent
  <2>3. LET taken == SnapReduction(G, base - target) IN
        /\ taken.total \in Int /\ DOMAIN taken.applied = DOMAIN C.actives
        /\ \A i \in DOMAIN C.actives : taken.applied[i] \in Int /\ taken.applied[i] <= C.actives[i].hi
    <3>1. base - target \in Int /\ Components(G.actives)
      BY <1>1, <1>2, <1>5, <2>1
    <3> HIDE DEF base
    <3> QED
      BY <1>1, <3>1, SnapIs
  <2>4. /\ rests.total = 0 /\ DOMAIN rests.applied = DOMAIN C.actives
        /\ \A i \in DOMAIN C.actives : rests.applied[i] = C.actives[i].hi
    BY <1>1
  <2> HIDE DEF base, rests
  <2>5. /\ snap.total \in Int /\ DOMAIN snap.applied = DOMAIN C.actives
        /\ \A i \in DOMAIN C.actives : snap.applied[i] \in Int /\ snap.applied[i] <= 0
    <3>1. CASE base >= target
      <4>1. snap = SnapReduction(G, base - target)
        BY <3>1
      <4> HIDE DEF snap
      <4> QED
        BY <2>2, <2>3, <4>1
    <3>2. CASE ~(base >= target)
      <4>1. snap = rests
        BY <3>2
      <4> HIDE DEF snap
      <4> QED
        BY <2>2, <2>4, <4>1
    <3> QED
      BY <3>1, <3>2
  <2>6. Trial(G, g, target) =
          [gain |-> g, power |-> base - snap.total, applied |-> snap.applied,
           rank |-> <<Distance(base - snap.total, target), IF below THEN 1 ELSE 0,
                      IF below THEN G.reach - snap.total ELSE snap.total>>]
    BY DEF Trial, base, rests
  <2> HIDE DEF snap, below
  <2>7. Distance(base - snap.total, target) \in Int
    BY <1>5, <2>1, <2>5 DEF Distance
  <2>8. G.reach - snap.total \in Int
    BY <1>1, <2>5
  <2> QED
    BY <2>5, <2>6, <2>7, <2>8
<1>8. IsFiniteSet(trials) /\ trials # {}
  <2> DEFINE h == [g \in tried |-> Trial(G, g, target)]
  <2>1. trials = {h[g] : g \in tried}
    OBVIOUS
  <2>2. trials # {}
    BY <1>6
  <2> HIDE DEF h, trials
  <2> QED
    BY <1>6, <2>1, <2>2, ImageFinite
<1>9. \E s \in trials : \A t \in trials : RankLE(s.rank, t.rank)
  <2>1. \A s \in trials : s.rank[1] \in Int /\ s.rank[2] \in Int /\ s.rank[3] \in Int
    BY <1>7
  <2> HIDE DEF trials
  <2> QED
    BY <1>8, <2>1, FirstTrial
<1>10. Realize(G, p) \in trials
  <2>1. Realize(G, p) = CHOOSE s \in trials : \A t \in trials : RankLE(s.rank, t.rank)
    BY DEF Realize, target, tried
  <2> HIDE DEF trials
  <2> QED
    BY <1>9, <2>1
<1>11. PICK g \in tried : Realize(G, p) = Trial(G, g, target)
  BY <1>10
<1> QED
  BY <1>5, <1>6, <1>7, <1>11 DEF G, target, tried

-----------------------------------------------------------------------------
(* The planes: walks towards the measured one, and the hops on the way.    *)

\* Every plane leads to a plane; two chains that differ only in the readings
\* and the bias of measured planes are walked alike.
Closed(P) ==
  /\ IsFiniteSet(DOMAIN P)
  /\ \A p \in DOMAIN P : /\ P[p].derived \in BOOLEAN
                         /\ P[p].derived => P[p].frm \in DOMAIN P
                         /\ ~P[p].derived /\ P[p].of # NoPlane => P[p].of \in DOMAIN P
SamePath(P, Q) ==
  /\ DOMAIN P = DOMAIN Q
  /\ \A p \in DOMAIN P :
       /\ P[p].derived = Q[p].derived
       /\ P[p].derived => P[p] = Q[p]
       /\ ~P[p].derived => /\ P[p].of = Q[p].of /\ P[p].curve = Q[p].curve
                           /\ P[p].mode = Q[p].mode /\ P[p].offset = Q[p].offset

\* One step of a walk stays among the planes: to what a derived plane comes
\* from, to what a measured one re-measures for a limit, else nowhere.
LEMMA UpIs ==
  ASSUME NEW P, Closed(P), NEW p \in DOMAIN P, NEW fl \in BOOLEAN
  PROVE  /\ Up(P, p, fl) \in DOMAIN P
         /\ P[p].derived => Up(P, p, fl) = P[p].frm
         /\ ~P[p].derived /\ ~fl => Up(P, p, fl) = p
         /\ ~P[p].derived /\ fl => Up(P, p, fl) = IF P[p].of # NoPlane THEN P[p].of ELSE p
BY DEF Closed, Up

\* A walk of as many steps as there are planes keeps to the planes.
LEMMA WalkIs ==
  ASSUME NEW P, Closed(P), NEW p \in DOMAIN P, NEW fl \in BOOLEAN
  PROVE  LET N == Cardinality(DOMAIN P) IN
         /\ N \in Nat /\ Walk(P, p, fl) \in [0 .. N -> DOMAIN P]
         /\ Walk(P, p, fl)[0] = p
         /\ \A k \in 1 .. N : Walk(P, p, fl)[k] = Up(P, Walk(P, p, fl)[k - 1], fl)
<1> DEFINE N == Cardinality(DOMAIN P)
           Rec(w) == [n \in 0 .. N |-> IF n = 0 THEN p ELSE Up(P, w[n - 1], fl)]
           step == [k \in 1 .. N |-> [q \in DOMAIN P |-> Up(P, q, fl)]]
           walk == CHOOSE w : w = Rec(w)
           D == DOMAIN P
<1>1. N \in Nat
  BY FS_CardinalityType DEF Closed
<1>2. \A q \in D : Up(P, q, fl) \in D
  BY UpIs
<1>3. Walk(P, p, fl) = walk
  BY DEF Walk
<1>4. Stepping(D, N, p, step)
  <2> HIDE DEF N
  <2> QED
    BY <1>1, <1>2 DEF Stepping
<1> HIDE DEF N, D
<1>5. PICK r : Run(D, N, p, step, r)
  <2> HIDE DEF step
  <2> QED
    BY <1>4, Iterates
<1>6. r \in [0 .. N -> D] /\ r[0] = p /\ \A k \in 1 .. N : r[k] = Up(P, r[k - 1], fl)
  <2>1. r \in [0 .. N -> D] /\ r[0] = p /\ \A k \in 1 .. N : r[k] = step[k][r[k - 1]]
    <3> HIDE DEF step
    <3> QED
      BY <1>5 DEF Run
  <2>2. ASSUME NEW k \in 1 .. N PROVE r[k] = Up(P, r[k - 1], fl)
    <3>1. k - 1 \in 0 .. N
      BY <1>1
    <3>2. r[k - 1] \in D
      BY <2>1, <3>1
    <3> QED
      BY <2>1, <3>2 DEF D
  <2> QED
    BY <2>1, <2>2
<1>7. r = Rec(r)
  <2>1. r = [k \in 0 .. N |-> r[k]]
    BY <1>6
  <2>2. \A k \in 0 .. N : r[k] = IF k = 0 THEN p ELSE Up(P, r[k - 1], fl)
    <3> TAKE k \in 0 .. N
    <3>1. k = 0 \/ k \in 1 .. N
      BY <1>1
    <3> QED
      BY <1>6, <3>1
  <2> QED
    BY <2>1, <2>2
<1>8. walk = Rec(walk)
  <2> HIDE DEF Rec
  <2> QED
    BY <1>7
<1> HIDE DEF walk
<1>9. /\ DOMAIN walk = 0 .. N /\ walk[0] = p
      /\ \A k \in 1 .. N : walk[k] = Up(P, walk[k - 1], fl)
  <2>1. DOMAIN walk = 0 .. N /\ \A k \in 0 .. N : walk[k] = IF k = 0 THEN p ELSE Up(P, walk[k - 1], fl)
    BY <1>8
  <2>2. 0 \in 0 .. N /\ \A k \in 1 .. N : k \in 0 .. N /\ k # 0
    BY <1>1
  <2> QED
    BY <2>1, <2>2
<1>10. walk = r
  <2> DEFINE T == {m \in Nat : m <= N => walk[m] = r[m]}
  <2>1. 0 \in T
    BY <1>6, <1>9
  <2>2. ASSUME NEW m \in Nat, m \in T PROVE m + 1 \in T
    <3> SUFFICES ASSUME m + 1 <= N PROVE walk[m + 1] = r[m + 1]
      OBVIOUS
    <3>1. m + 1 \in 1 .. N /\ (m + 1) - 1 = m /\ m <= N
      BY <1>1
    <3>2. walk[m] = r[m]
      BY <2>2, <3>1
    <3>3. walk[m + 1] = Up(P, walk[m], fl) /\ r[m + 1] = Up(P, r[m], fl)
      BY <1>6, <1>9, <3>1
    <3> QED
      BY <3>2, <3>3
  <2>3. \A m \in Nat : m \in T
    <3> HIDE DEF T
    <3> QED
      BY <2>1, <2>2, Induction
  <2>4. \A m \in 0 .. N : walk[m] = r[m]
    BY <1>1, <2>3
  <2> QED
    BY <1>6, <1>8, <2>4
<1> QED
  BY <1>1, <1>3, <1>6, <1>10 DEF N, D

\* Chains that differ only so are walked alike.
LEMMA SameWalk ==
  ASSUME NEW P, Closed(P), NEW Q, SamePath(P, Q), NEW p \in DOMAIN P, NEW fl \in BOOLEAN
  PROVE  Walk(P, p, fl) = Walk(Q, p, fl)
<1> DEFINE N == Cardinality(DOMAIN P)
           v == Walk(P, p, fl)
           w == Walk(Q, p, fl)
<1>1. Closed(Q) /\ DOMAIN Q = DOMAIN P
  <2>1. DOMAIN Q = DOMAIN P
    BY DEF SamePath
  <2>2. ASSUME NEW q \in DOMAIN Q
        PROVE  /\ Q[q].derived \in BOOLEAN
               /\ Q[q].derived => Q[q].frm \in DOMAIN Q
               /\ ~Q[q].derived /\ Q[q].of # NoPlane => Q[q].of \in DOMAIN Q
    BY <2>1 DEF SamePath, Closed
  <2> QED
    BY <2>1, <2>2 DEF Closed
<1>2. /\ N \in Nat /\ v \in [0 .. N -> DOMAIN P] /\ v[0] = p
      /\ \A k \in 1 .. N : v[k] = Up(P, v[k - 1], fl)
  BY WalkIs
<1>3. /\ w \in [0 .. N -> DOMAIN P] /\ w[0] = p
      /\ \A k \in 1 .. N : w[k] = Up(Q, w[k - 1], fl)
  <2>1. p \in DOMAIN Q
    BY <1>1
  <2> QED
    BY <1>1, <2>1, WalkIs
<1>4. \A q \in DOMAIN P : Up(P, q, fl) = Up(Q, q, fl)
  <2> TAKE q \in DOMAIN P
  <2>1. q \in DOMAIN Q
    BY <1>1
  <2>2. P[q].derived \in BOOLEAN
    BY DEF Closed
  <2>3. CASE P[q].derived
    <3>1. Q[q] = P[q]
      BY <2>3 DEF SamePath
    <3> QED
      BY <1>1, <2>1, <2>3, <3>1, UpIs
  <2>4. CASE ~P[q].derived
    <3>1. ~Q[q].derived /\ Q[q].of = P[q].of
      BY <2>4 DEF SamePath
    <3> QED
      BY <1>1, <2>1, <2>4, <3>1, UpIs
  <2> QED
    BY <2>2, <2>3, <2>4
<1> HIDE DEF N, v, w
<1> DEFINE T == {m \in Nat : m <= N => v[m] = w[m]}
<1>5. 0 \in T
  BY <1>2, <1>3
<1>6. ASSUME NEW m \in Nat, m \in T PROVE m + 1 \in T
  <2> SUFFICES ASSUME m + 1 <= N PROVE v[m + 1] = w[m + 1]
    OBVIOUS
  <2>1. m + 1 \in 1 .. N /\ (m + 1) - 1 = m /\ m <= N /\ m \in 0 .. N
    BY <1>2
  <2>2. v[m] = w[m] /\ v[m] \in DOMAIN P
    BY <1>2, <1>6, <2>1
  <2>3. v[m + 1] = Up(P, v[m], fl) /\ w[m + 1] = Up(Q, w[m], fl)
    BY <1>2, <1>3, <2>1
  <2> QED
    BY <1>4, <2>2, <2>3
<1>7. \A m \in Nat : m \in T
  <2> HIDE DEF T
  <2> QED
    BY <1>5, <1>6, Induction
<1>8. \A m \in 0 .. N : v[m] = w[m]
  BY <1>2, <1>7
<1>9. v = w
  BY <1>2, <1>3, <1>8
<1> QED
  BY <1>9 DEF v, w

\* The plane a walk ends in is a plane, and the same for such chains.
LEMMA AnchorIs ==
  ASSUME NEW P, Closed(P), NEW p \in DOMAIN P, NEW fl \in BOOLEAN
  PROVE  /\ AnchorPlane(P, p, fl) \in DOMAIN P
         /\ \A Q : SamePath(P, Q) => AnchorPlane(Q, p, fl) = AnchorPlane(P, p, fl)
<1> DEFINE N == Cardinality(DOMAIN P)
<1>1. N \in Nat /\ Walk(P, p, fl) \in [0 .. N -> DOMAIN P]
  BY WalkIs
<1>2. AnchorPlane(P, p, fl) = Walk(P, p, fl)[N]
  BY DEF AnchorPlane
<1>3. N \in 0 .. N
  BY <1>1
<1>4. ASSUME NEW Q, SamePath(P, Q) PROVE AnchorPlane(Q, p, fl) = AnchorPlane(P, p, fl)
  <2>1. Walk(P, p, fl) = Walk(Q, p, fl) /\ DOMAIN Q = DOMAIN P
    BY <1>4, SameWalk DEF SamePath
  <2> QED
    BY <2>1 DEF AnchorPlane
<1> HIDE DEF N
<1> QED
  BY <1>1, <1>2, <1>3, <1>4

\* A set of the first numbers that has with each number the one before it.
LEMMA Initial ==
  ASSUME NEW N \in Nat, NEW S \in SUBSET (0 .. N), \A n \in Nat : n + 1 \in S => n \in S
  PROVE  Cardinality(S) \in Nat /\ S = 0 .. (Cardinality(S) - 1)
<1> DEFINE T == {k \in Nat : k \notin S}
<1>1. T \in SUBSET Nat /\ N + 1 \in T
  OBVIOUS
<1>2. PICK m \in T : \A k \in T : m <= k
  <2> HIDE DEF T
  <2> QED
    BY <1>1, LeastNatural
<1>3. m \in Nat /\ m \notin S /\ \A k \in 0 .. m - 1 : k \in S
  BY <1>2
<1>4. ASSUME NEW n \in S PROVE n \in 0 .. m - 1
  <2> SUFFICES ASSUME ~(n < m) PROVE FALSE
    BY <1>3
  <2> DEFINE U == {j \in Nat : j <= n => n - j \in S}
  <2>0. n \in Nat
    OBVIOUS
  <2>1. 0 \in U
    BY <2>0
  <2>2. ASSUME NEW j \in Nat, j \in U PROVE j + 1 \in U
    <3> SUFFICES ASSUME j + 1 <= n PROVE n - (j + 1) \in S
      OBVIOUS
    <3>1. j <= n /\ n - (j + 1) \in Nat /\ (n - (j + 1)) + 1 = n - j
      BY <2>0
    <3>2. n - j \in S
      BY <2>2, <3>1
    <3> QED
      BY <3>1, <3>2
  <2>3. \A j \in Nat : j \in U
    <3> HIDE DEF U
    <3> QED
      BY <2>1, <2>2, Induction
  <2>4. n - m \in Nat /\ n - m <= n /\ n - (n - m) = m
    BY <1>3, <2>0
  <2> QED
    BY <1>3, <2>3, <2>4
<1>5. S = 0 .. m - 1
  BY <1>3, <1>4
<1>6. Cardinality(0 .. m - 1) = m
  <2>1. 0 \in Int /\ m - 1 \in Int
    BY <1>3
  <2>2. Cardinality(0 .. m - 1) = IF 0 > m - 1 THEN 0 ELSE (m - 1) - 0 + 1
    BY <2>1, FS_Interval
  <2> QED
    BY <1>3, <2>2
<1> QED
  BY <1>3, <1>5, <1>6

\* What is numbered from 1 to n has length n.
LEMMA Numbered ==
  ASSUME NEW n \in Nat, NEW f, f = [k \in 1 .. n |-> f[k]]
  PROVE  DOMAIN f = 1 .. n /\ Len(f) = n
<1> DEFINE T == {f[k] : k \in 1 .. n}
<1>1. f \in [1 .. n -> T]
  OBVIOUS
<1> HIDE DEF T
<1>2. f \in Seq(T)
  BY <1>1
<1> QED
  BY <1>1, <1>2

\* The hops on the way of a plane are derived planes.
LEMMA HopsIs ==
  ASSUME NEW P, Closed(P), NEW p \in DOMAIN P
  PROVE  LET hops == Hops(P, p) IN
         /\ Len(hops) \in Nat /\ DOMAIN hops = 1 .. Len(hops)
         /\ \A i \in DOMAIN hops : hops[i] \in DOMAIN P /\ P[hops[i]].derived
<1> DEFINE N == Cardinality(DOMAIN P)
           w == Walk(P, p, FALSE)
           path == {n \in 0 .. N : P[w[n]].derived}
           m == Cardinality(path)
<1>1. /\ N \in Nat /\ w \in [0 .. N -> DOMAIN P]
      /\ \A k \in 1 .. N : w[k] = Up(P, w[k - 1], FALSE)
  BY WalkIs
<1>2. Hops(P, p) = [i \in 1 .. m |-> w[m - i]]
  BY DEF Hops
<1> HIDE DEF N, w
<1>3. m \in Nat /\ path = 0 .. m - 1
  <2>1. \A n \in Nat : n + 1 \in path => n \in path
    <3> SUFFICES ASSUME NEW n \in Nat, n + 1 \in path, n \notin path PROVE FALSE
      OBVIOUS
    <3>1. n + 1 \in 1 .. N /\ n \in 0 .. N /\ (n + 1) - 1 = n
      BY <1>1
    <3>2. w[n] \in DOMAIN P /\ ~P[w[n]].derived
      BY <1>1, <3>1
    <3>3. w[n + 1] = Up(P, w[n], FALSE)
      BY <1>1, <3>1
    <3>4. w[n + 1] = w[n]
      BY <3>2, <3>3, UpIs
    <3> QED
      BY <3>2, <3>4
  <2>2. path \in SUBSET (0 .. N)
    OBVIOUS
  <2> HIDE DEF path
  <2> QED
    BY <1>1, <2>1, <2>2, Initial
<1> HIDE DEF m
<1>4. ASSUME NEW i \in 1 .. m PROVE w[m - i] \in DOMAIN P /\ P[w[m - i]].derived
  <2>1. m - i \in 0 .. m - 1
    BY <1>3
  <2>2. m - i \in path
    BY <1>3, <2>1
  <2> QED
    BY <1>1, <2>2
<1>5. DOMAIN Hops(P, p) = 1 .. m /\ Len(Hops(P, p)) = m
  <2> DEFINE f == Hops(P, p)
  <2>1. f = [k \in 1 .. m |-> f[k]]
    BY <1>2
  <2> HIDE DEF f
  <2>2. DOMAIN f = 1 .. m /\ Len(f) = m
    BY <1>3, <2>1, Numbered
  <2> QED
    BY <2>2 DEF f
<1> QED
  BY <1>2, <1>3, <1>4, <1>5

\* And they are the same for chains that are walked alike.
LEMMA SameHops ==
  ASSUME NEW P, Closed(P), NEW Q, SamePath(P, Q), NEW p \in DOMAIN P
  PROVE  Hops(P, p) = Hops(Q, p) /\ HopTables(P, p) = HopTables(Q, p)
<1>1. /\ Cardinality(DOMAIN P) \in Nat
      /\ Walk(P, p, FALSE) \in [0 .. Cardinality(DOMAIN P) -> DOMAIN P]
  BY WalkIs
<1>2. Walk(P, p, FALSE) = Walk(Q, p, FALSE) /\ DOMAIN Q = DOMAIN P
  BY SameWalk DEF SamePath
<1>3. \A n \in 0 .. Cardinality(DOMAIN P) :
        P[Walk(P, p, FALSE)[n]].derived = Q[Walk(P, p, FALSE)[n]].derived
  BY <1>1 DEF SamePath
<1>4. {n \in 0 .. Cardinality(DOMAIN P) : P[Walk(P, p, FALSE)[n]].derived}
        = {n \in 0 .. Cardinality(DOMAIN Q) : Q[Walk(Q, p, FALSE)[n]].derived}
  BY <1>2, <1>3
<1>5. Hops(P, p) = Hops(Q, p)
  BY <1>2, <1>4 DEF Hops
<1>6. \A i \in DOMAIN Hops(P, p) : P[Hops(P, p)[i]] = Q[Hops(P, p)[i]]
  BY HopsIs DEF SamePath
<1> QED
  BY <1>5, <1>6 DEF HopTables

\* A strict order of a set, and how many of its members are below one.
StrictOrder(S, R) ==
  /\ \A x \in S : <<x, x>> \notin R
  /\ \A x, y, z \in S : <<x, y>> \in R /\ <<y, z>> \in R => <<x, z>> \in R
  /\ \A x, y \in S : x = y \/ <<x, y>> \in R \/ <<y, x>> \in R
Rank(S, R, x) == Cardinality({y \in S : <<y, x>> \in R})
\* In a finite set with a strict order each rank is that of one member.
LEMMA RankMember ==
  ASSUME NEW S, IsFiniteSet(S), NEW R, StrictOrder(S, R), NEW n \in 1 .. Cardinality(S)
  PROVE  \E x \in S : Rank(S, R, x) = n - 1
<1> DEFINE below(x) == {y \in S : <<y, x>> \in R}
           T == 0 .. Cardinality(S) - 1
           rank == [x \in S |-> Cardinality(below(x))]
<1>0. /\ \A x \in S : <<x, x>> \notin R
      /\ \A x, y, z \in S : <<x, y>> \in R /\ <<y, z>> \in R => <<x, z>> \in R
      /\ \A x, y \in S : x = y \/ <<x, y>> \in R \/ <<y, x>> \in R
  BY DEF StrictOrder
<1>1. Cardinality(S) \in Nat
  BY FS_CardinalityType
<1>2. \A x \in S : IsFiniteSet(below(x)) /\ Cardinality(below(x)) \in T
  <2> SUFFICES ASSUME NEW x \in S PROVE IsFiniteSet(below(x)) /\ Cardinality(below(x)) \in T
    OBVIOUS
  <2>1. below(x) \in SUBSET S /\ x \notin below(x)
    BY <1>0
  <2>2. /\ IsFiniteSet(below(x)) /\ Cardinality(below(x)) <= Cardinality(S)
        /\ Cardinality(S) = Cardinality(below(x)) => S = below(x)
    BY <2>1, FS_Subset
  <2>3. Cardinality(below(x)) \in Nat
    BY <2>2, FS_CardinalityType
  <2> QED
    BY <1>1, <2>1, <2>2, <2>3
<1>3. \A x, y \in S : <<x, y>> \in R => Cardinality(below(x)) < Cardinality(below(y))
  <2> SUFFICES ASSUME NEW x \in S, NEW y \in S, <<x, y>> \in R
               PROVE  Cardinality(below(x)) < Cardinality(below(y))
    OBVIOUS
  <2>1. below(x) \in SUBSET below(y) /\ x \in below(y) /\ x \notin below(x)
    BY <1>0
  <2>2. /\ Cardinality(below(x)) <= Cardinality(below(y))
        /\ Cardinality(below(y)) = Cardinality(below(x)) => below(y) = below(x)
    BY <1>2, <2>1, FS_Subset
  <2>3. below(x) # below(y)
    BY <2>1
  <2> HIDE DEF below
  <2> QED
    BY <1>2, <2>2, <2>3
<1>4. rank \in [S -> T]
  BY <1>2
<1>5. \A x, y \in S : rank[x] = rank[y] => x = y
  <2> SUFFICES ASSUME NEW x \in S, NEW y \in S, rank[x] = rank[y] PROVE x = y
    OBVIOUS
  <2>1. Cardinality(below(x)) = Cardinality(below(y)) /\ Cardinality(below(x)) \in T
    BY <1>2
  <2>2. <<x, y>> \notin R /\ <<y, x>> \notin R
    <3> HIDE DEF below
    <3> QED
      BY <1>3, <2>1
  <2> QED
    BY <1>0, <2>2
<1>6. rank \in Injection(S, T)
  BY <1>4, <1>5 DEF Injection, IsInjective
<1>7. IsFiniteSet(T) /\ Cardinality(T) = Cardinality(S)
  <2>1. 0 \in Int /\ Cardinality(S) - 1 \in Int
    BY <1>1
  <2>2. /\ IsFiniteSet(T)
        /\ Cardinality(T) = IF 0 > Cardinality(S) - 1 THEN 0 ELSE Cardinality(S) - 1 - 0 + 1
    BY <2>1, FS_Interval
  <2> QED
    BY <1>1, <2>2
<1>8. rank \in Surjection(S, T)
  BY <1>6, <1>7, FS_Injection
<1>9. n - 1 \in T
  BY <1>1
<1> QED
  BY <1>8, <1>9 DEF Surjection, Rank

\* Some numbers in ascending order.
LEMMA AscendingIs ==
  ASSUME NEW S \in SUBSET Int, IsFiniteSet(S)
  PROVE  /\ Cardinality(S) \in Nat /\ DOMAIN Ascending(S) = 1 .. Cardinality(S)
         /\ \A k \in 1 .. Cardinality(S) : Ascending(S)[k] \in S
<1>1. Cardinality(S) \in Nat
  BY FS_CardinalityType
<1>2. DOMAIN Ascending(S) = 1 .. Cardinality(S)
  BY DEF Ascending
<1>3. ASSUME NEW k \in 1 .. Cardinality(S) PROVE Ascending(S)[k] \in S
  <2> DEFINE R == {p \in S \X S : p[1] < p[2]}
  <2>1. \A x, y \in S : <<x, y>> \in R <=> x < y
    OBVIOUS
  <2> HIDE DEF R
  <2>2. StrictOrder(S, R)
    BY <2>1 DEF StrictOrder
  <2>3. PICK x \in S : Rank(S, R, x) = k - 1
    BY <2>2, RankMember
  <2>4. {y \in S : <<y, x>> \in R} = {y \in S : y < x}
    BY <2>1
  <2>5. \E z \in S : Cardinality({y \in S : y < z}) = k - 1
    BY <2>3, <2>4 DEF Rank
  <2>6. Ascending(S)[k] = CHOOSE z \in S : Cardinality({y \in S : y < z}) = k - 1
    BY DEF Ascending
  <2> QED
    BY <2>5, <2>6
<1> QED
  BY <1>1, <1>2, <1>3

-----------------------------------------------------------------------------
(* The planes of a sound document.                                         *)

\* Hops have tables and components, measured planes curves and biases.
GoodHop(m) ==
  /\ m.table \in Points /\ IsTable(m.table)
  /\ m.active = <<>> \/ (m.active = <<m.active[1]>> /\ IsComponent(m.active[1]))
IsGauge(m) == DOMAIN m = {"derived", "curve", "mode", "offset", "of", "own", "bias"}
GoodGauge(m) ==
  /\ IsGauge(m)
  /\ m.curve \in Points /\ (m.curve = <<>> \/ IsCurve(m.curve)) /\ m.offset \in Int
  /\ m.own.reported \in Points /\ (m.own.reported = <<>> \/ IsCurve(m.own.reported))
  /\ m.bias \in Points /\ (m.bias = <<>> \/ IsTable(m.bias))
Good(P) ==
  /\ Closed(P)
  /\ \A p \in DOMAIN P : IF P[p].derived THEN GoodHop(P[p]) ELSE GoodGauge(P[p])

\* No points are a table of none, and a hop of 0 dB is a table.
LEMMA EmptyPoints == <<>> \in Points /\ Flat \in Points /\ IsTable(Flat)
<1>1. <<>> \in Points
  BY DEF Points
<1>2. Flat \in Points /\ Len(Flat) = 1 /\ Flat # <<>>
  BY DEF Points, Flat
<1> QED
  BY <1>1, <1>2 DEF IsTable, Increasing

\* A document has finitely many planes, each found at its index.
LEMMA NamesFinite ==
  ASSUME NEW d, Whole(d)
  PROVE  IsFiniteSet(Names(d)) /\ \A p \in Names(d) : Index(d, p) \in DOMAIN d.planes /\ d.planes[Index(d, p)].name = p
<1> DEFINE D == DOMAIN d.planes
           h == [i \in D |-> d.planes[i].name]
<1>1. IsFiniteSet(D)
  BY FS_Interval DEF Whole
<1>2. Names(d) = {h[i] : i \in D}
  BY DEF Names
<1>3. IsFiniteSet(Names(d))
  <2> HIDE DEF D, h
  <2> QED
    BY <1>1, <1>2, ImageFinite
<1>4. \A p \in Names(d) : \E i \in D : d.planes[i].name = p
  BY DEF Names
<1> QED
  BY <1>3, <1>4 DEF Index

\* _build_planes gives hops and measured planes that lead to planes.
LEMMA BareIs ==
  ASSUME NEW d, Whole(d), Sound(d)
  PROVE  /\ Good(BuildPlanes(d)) /\ DOMAIN BuildPlanes(d) = Names(d)
         /\ \A p \in Names(d) : ~BuildPlanes(d)[p].derived => BuildPlanes(d)[p].bias = <<>>
<1> DEFINE P == BuildPlanes(d)
<1>1. SoundPlanes(d) /\ SoundRoles(P)
  BY DEF Sound
<1>2. DOMAIN P = Names(d)
  BY DEF BuildPlanes
<1>3. ASSUME NEW p \in Names(d)
      PROVE  /\ P[p].derived \in BOOLEAN
             /\ P[p].derived => P[p].frm \in Names(d) /\ GoodHop(P[p])
             /\ ~P[p].derived => GoodGauge(P[p]) /\ P[p].bias = <<>>
  <2> DEFINE i == Index(d, p)
             s == d.planes[i]
             before == IF i = 1 THEN NoPlane ELSE d.planes[i - 1].name
  <2>1. i \in DOMAIN d.planes /\ WholePlane(s)
    BY NamesFinite DEF Whole
  <2>2. P[p] = BuildPlane(d, i)
    BY DEF BuildPlanes
  <2>3. BuildPlane(d, i) =
          CASE ~s.measured /\ s.bypass -> Through(s.of)
            [] ~s.measured /\ ~s.bypass ->
                 [derived |-> TRUE, frm |-> s.of, table |-> s.table, fallback |-> FALSE,
                  active |-> s.active]
            [] s.measured /\ (s.bypass \/ s.curve = <<>>) /\ i > 1 -> Through(before)
            [] OTHER -> Measured(s, s.curve, Deembedded(s, d.measuredAt))
    BY DEF BuildPlane
  <2>4. /\ s.measured => s.curve = <<>> \/ IsCurve(s.curve)
        /\ ~s.measured => s.of \in Names(d) /\ (s.bypass \/ IsTable(s.table))
    BY <1>1, <2>1 DEF SoundPlanes
  <2>5. s.measured \in BOOLEAN /\ s.bypass \in BOOLEAN
    BY <2>1 DEF WholePlane
  <2>6. i > 1 => before \in Names(d)
    <3> SUFFICES ASSUME i > 1 PROVE before \in Names(d)
      OBVIOUS
    <3>1. i \in Nat /\ i - 1 \in DOMAIN d.planes
      BY <2>1 DEF Whole
    <3>2. before = d.planes[i - 1].name
      BY <3>1
    <3> HIDE DEF before, i
    <3> QED
      BY <3>1, <3>2 DEF Names
  <2>7. \A frm \in Names(d) :
          LET m == Through(frm) IN m.derived = TRUE /\ m.frm = frm /\ GoodHop(m)
    BY EmptyPoints DEF Through, GoodHop
  <2> HIDE DEF i, s, before
  <2>8. CASE ~s.measured /\ s.bypass
    <3>1. P[p] = Through(s.of)
      BY <2>2, <2>3, <2>8
    <3> HIDE DEF P
    <3> QED
      BY <2>4, <2>7, <2>8, <3>1
  <2>9. CASE ~s.measured /\ ~s.bypass
    <3>1. P[p] = [derived |-> TRUE, frm |-> s.of, table |-> s.table, fallback |-> FALSE,
                  active |-> s.active]
      BY <2>2, <2>3, <2>9
    <3> HIDE DEF P
    <3>2. GoodHop(P[p])
      BY <2>1, <2>4, <2>9, <3>1 DEF GoodHop, WholePlane
    <3> QED
      BY <2>4, <2>9, <3>1, <3>2
  <2>10. CASE s.measured /\ (s.bypass \/ s.curve = <<>>) /\ i > 1
    <3>1. P[p] = Through(before)
      BY <2>2, <2>3, <2>10
    <3> HIDE DEF P
    <3> QED
      BY <2>6, <2>7, <2>10, <3>1
  <2>11. CASE s.measured /\ ~((s.bypass \/ s.curve = <<>>) /\ i > 1)
    <3>1. P[p] = Measured(s, s.curve, Deembedded(s, d.measuredAt))
      BY <2>2, <2>3, <2>11
    <3>2. d.measuredAt \in Int
      BY DEF Whole
    <3>3. Deembedded(s, d.measuredAt) \in Int
      <4>1. CASE s.deembed = <<>>
        BY <2>1, <4>1 DEF Deembedded, WholePlane
      <4>2. CASE s.deembed # <<>>
        <5>1. EvalTable(s.deembed, d.measuredAt) \in Int
          BY <2>1, <3>2, <4>2, InterpNumber DEF WholePlane
        <5> QED
          BY <2>1, <4>2, <5>1 DEF Deembedded, WholePlane
      <4> QED
        BY <4>1, <4>2
    <3> HIDE DEF P
    <3>4. P[p].derived = FALSE /\ P[p].curve = s.curve /\ P[p].bias = <<>>
          /\ P[p].own = [reported |-> <<>>, limiting |-> <<>>]
          /\ P[p].offset = Deembedded(s, d.measuredAt)
      BY <3>1 DEF Measured
    <3>5. s.curve \in Points /\ (s.curve = <<>> \/ IsCurve(s.curve))
      BY <2>1, <2>4, <2>11 DEF WholePlane
    <3>7. IsGauge(P[p])
      BY <3>1 DEF Measured, IsGauge
    <3>6. GoodGauge(P[p])
      BY <3>3, <3>4, <3>5, <3>7, EmptyPoints DEF GoodGauge
    <3> QED
      BY <3>4, <3>6
  <2> QED
    BY <2>5, <2>8, <2>9, <2>10, <2>11
<1>4. Closed(P)
  <2>1. \A p \in Names(d) : ~P[p].derived /\ P[p].of # NoPlane => P[p].of \in Names(d)
    BY <1>1, <1>2 DEF SoundRoles
  <2> HIDE DEF P
  <2> QED
    BY <1>2, <1>3, <2>1, NamesFinite DEF Closed
<1> HIDE DEF P
<1> QED
  BY <1>2, <1>3, <1>4 DEF Good, P

-----------------------------------------------------------------------------
(* Sums of tables and of what the components apply.                        *)

\* What finitely many things apply has a sum; where none adds, it is not positive.
SumOf(D, h) == LET At(i) == h[i] IN SumOver(D, At)
\* Such a sum is a number, not positive if nothing in it is.
LEMMA SumOfIs ==
  ASSUME NEW D, IsFiniteSet(D), NEW h, \A i \in D : h[i] \in Int
  PROVE  /\ SumOf(D, h) \in Int
         /\ (\A i \in D : h[i] <= 0) => SumOf(D, h) <= 0
<1> DEFINE hs == [i \in D |-> h[i]]
           Rec(it) == [s \in SUBSET D |-> IF s = {} THEN 0
                        ELSE LET x == CHOOSE x \in s : TRUE IN h[x] + it[s \ {x}]]
           p == CHOOSE it : it = Rec(it)
<1>1. SumOf(D, h) = p[D]
  BY DEF SumOf, SumOver, MapThenSumSet, MapThenFoldSet
<1>2. hs \in [D -> Int] /\ \A i \in D : hs[i] = h[i]
  OBVIOUS
<1>3. \A it : Rec(it) = Sums(D, hs, it)
  <2> SUFFICES ASSUME NEW it PROVE Rec(it) = Sums(D, hs, it)
    OBVIOUS
  <2>1. \A s \in SUBSET D : s # {} => (CHOOSE x \in s : TRUE) \in D
    OBVIOUS
  <2> QED
    BY <2>1 DEF Sums
<1> HIDE DEF Rec, hs
<1>4. p = Sums(D, hs, p)
  <2>1. \E it : it = Rec(it)
    BY <1>2, <1>3, SumsExist
  <2>2. p = Rec(p)
    BY <2>1
  <2> QED
    BY <1>3, <2>2
<1> HIDE DEF p
<1>5. IsSum(D, hs, p[D])
  BY <1>4 DEF IsSum
<1>6. p[D] \in Int /\ ((\A i \in D : hs[i] <= 0) => p[D] <= 0)
  BY <1>2, <1>5, SumIs
<1> QED
  BY <1>1, <1>2, <1>6

\* The loss of some tables is a number, and where none of them has breakpoints
\* the same at every frequency.
Tables(ts) ==
  /\ Len(ts) \in Nat /\ DOMAIN ts = 1 .. Len(ts)
  /\ \A i \in DOMAIN ts : ts[i] \in Points /\ IsTable(ts[i])
\* The loss of tables at a frequency is the sum of what each gives there.
LEMMA SumAtSum ==
  ASSUME NEW ts, Tables(ts), NEW f \in Int
  PROVE  /\ IsFiniteSet(DOMAIN ts)
         /\ [i \in DOMAIN ts |-> EvalTable(ts[i], f)] \in [DOMAIN ts -> Int]
         /\ IsSum(DOMAIN ts, [i \in DOMAIN ts |-> EvalTable(ts[i], f)], SumAt(ts, f))
<1> DEFINE D == DOMAIN ts
           hs == [i \in D |-> EvalTable(ts[i], f)]
           Rec(it) == [s \in SUBSET D |-> IF s = {} THEN 0
                        ELSE LET x == CHOOSE x \in s : TRUE IN EvalTable(ts[x], f) + it[s \ {x}]]
           p == CHOOSE it : it = Rec(it)
<1>1. SumAt(ts, f) = p[D]
  BY DEF SumAt, SumOver, MapThenSumSet, MapThenFoldSet
<1>2. hs \in [D -> Int] /\ \A i \in D : hs[i] = EvalTable(ts[i], f)
  BY InterpNumber DEF Tables
<1>3. \A it : Rec(it) = Sums(D, hs, it)
  <2> SUFFICES ASSUME NEW it PROVE Rec(it) = Sums(D, hs, it)
    OBVIOUS
  <2>1. \A s \in SUBSET D : s # {} => (CHOOSE x \in s : TRUE) \in D
    OBVIOUS
  <2> QED
    BY <2>1 DEF Sums
<1>4. IsFiniteSet(D)
  BY FS_Interval DEF Tables
<1> HIDE DEF Rec, hs, D
<1>5. p = Sums(D, hs, p)
  <2>1. \E it : it = Rec(it)
    BY <1>2, <1>3, <1>4, SumsExist
  <2>2. p = Rec(p)
    BY <2>1
  <2> QED
    BY <1>3, <2>2
<1> HIDE DEF p
<1>6. IsSum(D, hs, p[D])
  BY <1>5 DEF IsSum
<1> QED
  BY <1>1, <1>2, <1>4, <1>6 DEF hs, D

\* That is a number, and without breakpoints the same at every frequency.
LEMMA SumAtIs ==
  ASSUME NEW ts, Tables(ts), NEW f \in Int
  PROVE  /\ SumAt(ts, f) \in Int
         /\ AllBreakpoints(ts) = {} => SumAt(ts, NoFreq) = SumAt(ts, f)
<1>0. NoFreq \in Int
  BY DEF NoFreq
<1> DEFINE hs(g) == [i \in DOMAIN ts |-> EvalTable(ts[i], g)]
<1>1. \A g \in Int : /\ hs(g) \in [DOMAIN ts -> Int] /\ IsFiniteSet(DOMAIN ts)
                     /\ IsSum(DOMAIN ts, hs(g), SumAt(ts, g))
  BY SumAtSum
<1>2. \A g \in Int : SumAt(ts, g) \in Int
  <2> TAKE g \in Int
  <2> HIDE DEF hs
  <2> QED
    BY <1>1, SumIs
<1>3. ASSUME AllBreakpoints(ts) = {} PROVE SumAt(ts, NoFreq) = SumAt(ts, f)
  <2>1. ASSUME NEW i \in DOMAIN ts, NEW g PROVE EvalTable(ts[i], g) = Y(ts[i], 1)
    <3>1. ts[i] \in Points /\ ts[i] # <<>> /\ Breakpoints(ts[i]) = {}
      BY <1>3 DEF AllBreakpoints, Tables, IsTable
    <3>2. Len(ts[i]) \in Nat /\ Len(ts[i]) # 0 /\ DOMAIN ts[i] = 1 .. Len(ts[i])
      BY <3>1, FlippedPoints
    <3>3. ~(Len(ts[i]) > 1)
      <4> SUFFICES ASSUME Len(ts[i]) > 1 PROVE FALSE
        OBVIOUS
      <4>1. 1 \in DOMAIN ts[i]
        BY <3>2
      <4>2. X(ts[i], 1) \in Breakpoints(ts[i])
        BY <4>1 DEF Breakpoints
      <4> QED
        BY <3>1, <4>2
    <3>4. Len(ts[i]) = 1
      BY <3>2, <3>3
    <3> QED
      BY <3>4 DEF EvalTable
  <2>2. hs(NoFreq) = hs(f)
    BY <2>1
  <2>3. IsSum(DOMAIN ts, hs(f), SumAt(ts, NoFreq)) /\ IsSum(DOMAIN ts, hs(f), SumAt(ts, f))
    BY <1>0, <1>1, <2>2
  <2> HIDE DEF hs
  <2> QED
    BY <1>1, <2>3, SumIs
<1> QED
  BY <1>2, <1>3

-----------------------------------------------------------------------------
(* A curve that is moved up or down by an offset.                          *)

Shifted(T, c) == [i \in DOMAIN T |-> <<X(T, i), Y(T, i) + c>>]

\* Its points are moved, its steps are not.
LEMMA ShiftedIs ==
  ASSUME NEW T \in Points, NEW c \in Int
  PROVE  /\ Shifted(T, c) \in Points /\ Len(Shifted(T, c)) = Len(T)
         /\ \A i \in 1 .. Len(T) : X(Shifted(T, c), i) = X(T, i) /\ Y(Shifted(T, c), i) = Y(T, i) + c
         /\ Shifted(T, c) = <<>> <=> T = <<>>
         /\ IsTable(T) => IsTable(Shifted(T, c))
         /\ IsCurve(T) => IsCurve(Shifted(T, c))
<1> DEFINE S == Shifted(T, c)
<1>1. DOMAIN T = 1 .. Len(T) /\ Len(T) \in Nat /\ (T = <<>> <=> Len(T) = 0)
  BY FlippedPoints
<1>2. \A i \in 1 .. Len(T) : X(T, i) \in Int /\ Y(T, i) \in Int
  BY PointOf
<1>3. S = [i \in 1 .. Len(T) |-> <<X(T, i), Y(T, i) + c>>]
  BY <1>1 DEF Shifted
<1>4. S \in Points /\ Len(S) = Len(T)
  <2>1. \A i \in 1 .. Len(T) : <<X(T, i), Y(T, i) + c>> \in Int \X Int
    BY <1>2
  <2> HIDE DEF S
  <2> QED
    BY <1>1, <1>3, <2>1 DEF Points
<1>5. \A i \in 1 .. Len(T) : X(S, i) = X(T, i) /\ Y(S, i) = Y(T, i) + c
  <2> TAKE i \in 1 .. Len(T)
  <2> HIDE DEF S
  <2>1. S[i] = <<X(T, i), Y(T, i) + c>>
    BY <1>3
  <2> QED
    BY <2>1 DEF X, Y
<1> HIDE DEF S
<1>6. S = <<>> <=> T = <<>>
  BY <1>1, <1>4, FlippedPoints
<1>7. \A i \in 1 .. Len(T) - 1 : i \in 1 .. Len(T) /\ i + 1 \in 1 .. Len(T)
  BY <1>1
<1>8. Increasing(T) => Increasing(S)
  BY <1>4, <1>5, <1>7 DEF Increasing
<1>9. IsTable(T) => IsTable(S)
  BY <1>6, <1>8 DEF IsTable
<1>10. (\A i \in 1 .. Len(T) - 1 : Y(T, i) < Y(T, i + 1)) => \A i \in 1 .. Len(S) - 1 : Y(S, i) < Y(S, i + 1)
  BY <1>2, <1>4, <1>5, <1>7
<1> QED
  BY <1>4, <1>5, <1>6, <1>9, <1>10 DEF IsCurve, S

\* And what it gives is moved likewise.
LEMMA ShiftedLevel ==
  ASSUME NEW T \in Points, IsTable(T), NEW c \in Int, NEW g \in Int, NEW mode
  PROVE  InterpExtrap(g, Shifted(T, c), mode) = InterpExtrap(g, T, mode) + c
<1> DEFINE S == Shifted(T, c)
           n == Len(T)
<1>1. /\ S \in Points /\ Len(S) = n /\ IsTable(S)
      /\ \A i \in 1 .. n : X(S, i) = X(T, i) /\ Y(S, i) = Y(T, i) + c
  BY ShiftedIs
<1>2. n \in Nat /\ n # 0
  BY FlippedPoints DEF IsTable
<1>3. \A i \in 1 .. n : X(T, i) \in Int /\ Y(T, i) \in Int
  BY PointOf
<1> HIDE DEF S, n
<1>4. 1 \in 1 .. n /\ n \in 1 .. n /\ \A i \in 1 .. n - 1 : i \in 1 .. n /\ i + 1 \in 1 .. n
  BY <1>2
<1>5. \A i \in 1 .. n - 1 : Segment(g, S, i) = Segment(g, T, i) + c /\ Segment(g, T, i) \in Int
  <2> TAKE i \in 1 .. n - 1
  <2>1. Segment(g, T, i) \in Int
    BY SegmentNumber DEF IsTable, n
  <2> DEFINE q == ((Y(T, i + 1) - Y(T, i)) * (g - X(T, i))) \div (X(T, i + 1) - X(T, i))
  <2>2. Segment(g, T, i) = Y(T, i) + q
    BY DEF Segment
  <2>3. Y(S, i + 1) - Y(S, i) = Y(T, i + 1) - Y(T, i)
    BY <1>1, <1>3, <1>4
  <2>4. Segment(g, S, i) = (Y(T, i) + c) + q
    BY <1>1, <1>4, <2>3 DEF Segment
  <2>5. q \in Int
    <3> DEFINE a == (Y(T, i + 1) - Y(T, i)) * (g - X(T, i))
               b == X(T, i + 1) - X(T, i)
    <3>1. a \in Int /\ b \in Int /\ b > 0
      BY <1>3, <1>4 DEF IsTable, Increasing, n
    <3> HIDE DEF a, b
    <3>2. a \div b \in Int
      BY <3>1, Quotient
    <3> QED
      BY <3>2 DEF a, b
  <2> HIDE DEF q
  <2> QED
    BY <1>3, <1>4, <2>1, <2>2, <2>4, <2>5
<1>6. Interp(g, S) = Interp(g, T) + c
  <2>1. CASE n = 1
    <3>1. Interp(g, S) = Y(S, 1) + (g - X(S, 1)) /\ Interp(g, T) = Y(T, 1) + (g - X(T, 1))
      BY <1>1, <2>1, InterpIs DEF n
    <3> QED
      BY <1>1, <1>3, <1>4, <3>1
  <2>2. CASE n > 1 /\ g <= X(T, 1)
    <3>1. Interp(g, S) = Y(S, 1) /\ Interp(g, T) = Y(T, 1)
      BY <1>1, <1>4, <2>2, InterpIs DEF n
    <3> QED
      BY <1>1, <1>4, <3>1
  <2>3. CASE n > 1 /\ X(T, n) <= g
    <3>1. Interp(g, S) = Y(S, n) /\ Interp(g, T) = Y(T, n)
      BY <1>1, <1>4, <2>3, InterpIs DEF n
    <3> QED
      BY <1>1, <1>4, <3>1
  <2>4. CASE n > 1 /\ X(T, 1) < g /\ g < X(T, n)
    <3>1. PICK i \in 1 .. n - 1 : X(T, i) < g /\ g <= X(T, i + 1) /\ Interp(g, T) = Segment(g, T, i)
      BY <2>4, InterpIs DEF n
    <3>2. PICK j \in 1 .. n - 1 : X(S, j) < g /\ g <= X(S, j + 1) /\ Interp(g, S) = Segment(g, S, j)
      BY <1>1, <1>4, <2>4, InterpIs
    <3>3. X(T, j) < g /\ g <= X(T, j + 1)
      BY <1>1, <1>4, <3>2
    <3>4. i = j
      <4>1. j + 1 <= i => X(T, j + 1) <= X(T, i)
        BY <1>4, Rising DEF IsTable, n
      <4>2. i + 1 <= j => X(T, i + 1) <= X(T, j)
        BY <1>4, Rising DEF IsTable, n
      <4>3. ~(j + 1 <= i) /\ ~(i + 1 <= j)
        BY <1>3, <1>4, <3>1, <3>3, <4>1, <4>2
      <4> QED
        BY <1>2, <4>3
    <3> QED
      BY <1>5, <3>1, <3>2, <3>4
  <2>5. n = 1 \/ (n > 1 /\ (g <= X(T, 1) \/ X(T, n) <= g \/ (X(T, 1) < g /\ g < X(T, n))))
    BY <1>2, <1>3, <1>4
  <2> QED
    BY <2>1, <2>2, <2>3, <2>4, <2>5
<1>7. InterpExtrap(g, S, mode) = InterpExtrap(g, T, mode) + c
  <2> DEFINE a == n > 1 /\ g < X(T, 1) /\ mode \in {"down", "both"}
             b == n > 1 /\ g > X(T, n) /\ mode \in {"up", "both"}
  <2>1. InterpExtrap(g, T, mode) =
          CASE a -> Segment(g, T, 1) [] b -> Segment(g, T, n - 1) [] OTHER -> Interp(g, T)
    BY DEF InterpExtrap, n
  <2>2. InterpExtrap(g, S, mode) =
          CASE a -> Segment(g, S, 1) [] b -> Segment(g, S, n - 1) [] OTHER -> Interp(g, S)
    BY <1>1, <1>4 DEF InterpExtrap
  <2>3. ~(a /\ b)
    <3>1. n > 1 => X(T, 1) < X(T, n)
      BY <1>4, Rising DEF IsTable, n
    <3> QED
      BY <1>3, <1>4, <3>1
  <2>4. n > 1 => 1 \in 1 .. n - 1 /\ n - 1 \in 1 .. n - 1
    BY <1>2
  <2>5. (a => n > 1) /\ (b => n > 1)
    OBVIOUS
  <2> HIDE DEF a, b
  <2>6. CASE a
    <3>1. InterpExtrap(g, T, mode) = Segment(g, T, 1) /\ InterpExtrap(g, S, mode) = Segment(g, S, 1)
      BY <2>1, <2>2, <2>3, <2>6
    <3> QED
      BY <1>5, <2>4, <2>5, <2>6, <3>1
  <2>7. CASE b
    <3>1. InterpExtrap(g, T, mode) = Segment(g, T, n - 1) /\ InterpExtrap(g, S, mode) = Segment(g, S, n - 1)
      BY <2>1, <2>2, <2>3, <2>7
    <3> QED
      BY <1>5, <2>4, <2>5, <2>7, <3>1
  <2>8. CASE ~a /\ ~b
    <3>1. InterpExtrap(g, T, mode) = Interp(g, T) /\ InterpExtrap(g, S, mode) = Interp(g, S)
      BY <2>1, <2>2, <2>8
    <3> QED
      BY <1>6, <3>1
  <2> QED
    BY <2>6, <2>7, <2>8
<1> QED
  BY <1>7 DEF S

-----------------------------------------------------------------------------
(* What resolving gives: the planes with the readings and the bias in place.*)

\* A reading or a bias that is put on a measured plane leaves the walks alone.
PutOwn(P, s, own) == [P EXCEPT ![s].own = own]
PutBias(P, s, bias) == [P EXCEPT ![s].bias = bias]
\* Own readings of a measured plane leave the planes sound and walked alike.
LEMMA WithReadings ==
  ASSUME NEW P, Good(P), NEW s \in DOMAIN P, ~P[s].derived, NEW own,
         own.reported \in Points, own.reported = <<>> \/ IsCurve(own.reported)
  PROVE  LET Q == PutOwn(P, s, own) IN
         /\ Good(Q) /\ SamePath(P, Q)
         /\ \A p \in DOMAIN P : ~P[p].derived => Q[p].bias = P[p].bias
<1> DEFINE Q == PutOwn(P, s, own)
<1>1. GoodGauge(P[s]) /\ IsGauge(P[s])
  BY DEF Good, GoodGauge
<1>2. Q[s] = [P[s] EXCEPT !.own = own] /\ DOMAIN Q = DOMAIN P
  BY DEF PutOwn
<1>3. \A p \in DOMAIN P : p # s => Q[p] = P[p]
  BY DEF PutOwn
<1> HIDE DEF Q
<1>4. IsGauge(Q[s])
  BY <1>1, <1>2 DEF IsGauge
<1>5. /\ Q[s].derived = P[s].derived /\ Q[s].curve = P[s].curve /\ Q[s].mode = P[s].mode
      /\ Q[s].offset = P[s].offset /\ Q[s].of = P[s].of /\ Q[s].own = own /\ Q[s].bias = P[s].bias
  BY <1>1, <1>2 DEF IsGauge
<1>6. GoodGauge(Q[s])
  BY <1>1, <1>4, <1>5 DEF GoodGauge
<1>7. P[s].derived = FALSE
  BY DEF Good, Closed
<1>8. Closed(Q)
  BY <1>2, <1>3, <1>5, <1>7 DEF Good, Closed
<1>9. Good(Q)
  BY <1>2, <1>3, <1>5, <1>6, <1>8 DEF Good
<1>10. SamePath(P, Q)
  BY <1>2, <1>3, <1>5, <1>7 DEF SamePath
<1>11. \A p \in DOMAIN P : ~P[p].derived => Q[p].bias = P[p].bias
  BY <1>3, <1>5
<1> QED
  BY <1>9, <1>10, <1>11 DEF Q

\* And so does a bias.
LEMMA WithBias ==
  ASSUME NEW P, Good(P), NEW s \in DOMAIN P, ~P[s].derived, NEW bias,
         bias \in Points, bias = <<>> \/ IsTable(bias)
  PROVE  LET Q == PutBias(P, s, bias) IN
         /\ Good(Q) /\ SamePath(P, Q) /\ Q[s].bias = bias
         /\ \A p \in DOMAIN P : p # s => Q[p] = P[p]
<1> DEFINE Q == PutBias(P, s, bias)
<1>1. GoodGauge(P[s]) /\ IsGauge(P[s])
  BY DEF Good, GoodGauge
<1>2. Q[s] = [P[s] EXCEPT !.bias = bias] /\ DOMAIN Q = DOMAIN P
  BY DEF PutBias
<1>3. \A p \in DOMAIN P : p # s => Q[p] = P[p]
  BY DEF PutBias
<1> HIDE DEF Q
<1>4. IsGauge(Q[s])
  BY <1>1, <1>2 DEF IsGauge
<1>5. /\ Q[s].derived = P[s].derived /\ Q[s].curve = P[s].curve /\ Q[s].mode = P[s].mode
      /\ Q[s].offset = P[s].offset /\ Q[s].of = P[s].of /\ Q[s].own = P[s].own /\ Q[s].bias = bias
  BY <1>1, <1>2 DEF IsGauge
<1>6. GoodGauge(Q[s])
  BY <1>1, <1>4, <1>5 DEF GoodGauge
<1>7. P[s].derived = FALSE
  BY DEF Good, Closed
<1>8. Closed(Q)
  BY <1>2, <1>3, <1>5, <1>7 DEF Good, Closed
<1>9. Good(Q)
  BY <1>2, <1>3, <1>5, <1>6, <1>8 DEF Good
<1>10. SamePath(P, Q)
  BY <1>2, <1>3, <1>5, <1>7 DEF SamePath
<1> QED
  BY <1>3, <1>5, <1>9, <1>10 DEF Q

\* Being walked alike carries over.
LEMMA SamePathTrans ==
  ASSUME NEW P, NEW Q, NEW R, SamePath(P, Q), SamePath(Q, R)
  PROVE  SamePath(P, R)
BY DEF SamePath

\* The source bias, zeroed where the signal was measured.
LEMMA BiasIs ==
  ASSUME NEW d, Whole(d), NEW z \in Int
  PROVE  /\ BiasOf(d, z) \in Points /\ (BiasOf(d, z) = <<>> \/ IsTable(BiasOf(d, z)))
         /\ BiasOf(d, z) = <<>> <=> d.bias = <<>>
<1>1. d.bias \in Points /\ (d.bias = <<>> \/ IsTable(d.bias))
  BY DEF Whole
<1>2. CASE d.bias = <<>>
  <2>1. BiasOf(d, z) = <<>>
    BY <1>2 DEF BiasOf
  <2> QED
    BY <1>2, <2>1, EmptyPoints
<1>3. CASE d.bias # <<>>
  <2> DEFINE e == EvalTable(d.bias, z)
  <2>1. e \in Int
    BY <1>1, <1>3, InterpNumber
  <2>2. DOMAIN d.bias = 1 .. Len(d.bias)
    BY <1>1, FlippedPoints
  <2>3. \A i \in 1 .. Len(d.bias) : X(d.bias, i) \in Int /\ Y(d.bias, i) \in Int
    BY <1>1, PointOf
  <2>4. BiasOf(d, z) = [i \in DOMAIN d.bias |-> <<X(d.bias, i), Y(d.bias, i) - e>>]
    BY DEF BiasOf
  <2> HIDE DEF e
  <2>5. \A i \in 1 .. Len(d.bias) : Y(d.bias, i) - e = Y(d.bias, i) + (-e)
    BY <2>1, <2>3
  <2>6. BiasOf(d, z) = Shifted(d.bias, -e)
    BY <2>2, <2>4, <2>5 DEF Shifted
  <2>7. -e \in Int
    BY <2>1
  <2> QED
    BY <1>1, <1>3, <2>6, <2>7, ShiftedIs
<1> QED
  BY <1>2, <1>3

\* A sound document whose limits can be gauged by the script, and the planes,
\* the limits and the ceiling that resolving it gives.
Fit(d) ==
  /\ Whole(d) /\ Sound(d)
  /\ OneBase(d, BuildPlanes(d)) /\ BiasAtBase(d, BuildPlanes(d))
  /\ CapAhead(d, BuildPlanes(d)) /\ ExactLoss(d, BuildPlanes(d))
BasePlane(d) == AnchorPlane(BuildPlanes(d), d.operating, FALSE)
Zeroed(d) == BiasOf(d, d.measuredAt)
Read(d) ==
  [BuildPlanes(d) EXCEPT ![BasePlane(d)].own = [reported |-> d.reported.curve,
                                                limiting |-> d.limiting.curve]]
Final(d) ==
  IF Zeroed(d) = <<>> THEN Read(d) ELSE [Read(d) EXCEPT ![SourcePlane(d, Read(d))].bias = Zeroed(d)]
FixedLimits(d) == {l \in LimitsOf(d, Read(d)) : ~AtRunTime(d, Read(d), l.plane)}
Moving(d) == LimitsOf(d, Read(d)) \ FixedLimits(d)
FixedCeiling(d) ==
  Min({d.max} \cup {CeilingFor(d, Read(d), l.plane, l.max, l.via, NoFreq) : l \in FixedLimits(d)})

\* It gives the same for every frequency that is asked for, but the frequency.
LEMMA ResolveIs ==
  ASSUME NEW d, Fit(d), NEW asked
  PROVE  LET r == Resolve(d, asked) IN
         /\ r.doc = d /\ r.ceiling = FixedCeiling(d) /\ r.limits = Moving(d)
         /\ r.bias = Zeroed(d) /\ r.planes = Final(d)
         /\ asked # NoFreq => r.freq = asked
<1> DEFINE rep == RepFreq(d, Read(d), Moving(d), FixedCeiling(d), asked)
           zeroAt == IF d.measuredAt # NoFreq THEN d.measuredAt ELSE rep
           bias == BiasOf(d, zeroAt)
<1>1. bias = Zeroed(d)
  <2>1. CASE d.bias = <<>>
    <3>1. \A z : BiasOf(d, z) = <<>>
      BY <2>1 DEF BiasOf
    <3> QED
      BY <3>1 DEF Zeroed
  <2>2. CASE d.bias # <<>>
    <3>1. d.measuredAt # NoFreq
      BY <2>2 DEF Fit, BiasAtBase
    <3> QED
      BY <3>1 DEF Zeroed
  <2> QED
    BY <2>1, <2>2
<1>2. Resolve(d, asked) =
        [doc |-> d, ceiling |-> FixedCeiling(d), limits |-> Moving(d), freq |-> rep, bias |-> bias,
         planes |-> IF bias = <<>> THEN Read(d) ELSE [Read(d) EXCEPT ![SourcePlane(d, Read(d))].bias = bias]]
  BY DEF Resolve, Read, BasePlane, FixedLimits, Moving, FixedCeiling
<1>3. asked # NoFreq => rep = asked
  BY DEF RepFreq
<1> HIDE DEF rep, bias
<1>4. Resolve(d, asked).planes = Final(d)
  BY <1>1, <1>2 DEF Final
<1> QED
  BY <1>1, <1>2, <1>3, <1>4

\* Its planes are walked like those of the document; only the operating plane's
\* curve has a bias.
LEMMA PlanesIs ==
  ASSUME NEW d, Fit(d)
  PROVE  /\ DOMAIN BuildPlanes(d) = Names(d) /\ d.operating \in Names(d) /\ BasePlane(d) \in Names(d)
         /\ Good(BuildPlanes(d)) /\ Good(Read(d)) /\ Good(Final(d))
         /\ SamePath(BuildPlanes(d), Read(d)) /\ SamePath(BuildPlanes(d), Final(d))
         /\ ~BuildPlanes(d)[BasePlane(d)].derived /\ BuildPlanes(d)[BasePlane(d)].curve # <<>>
         /\ d.bias # <<>> => SourcePlane(d, Read(d)) = BasePlane(d)
         /\ \A p \in Names(d) : ~BuildPlanes(d)[p].derived =>
              /\ Read(d)[p].bias = <<>>
              /\ Final(d)[p].bias = IF p = BasePlane(d) THEN Zeroed(d) ELSE <<>>
<1> DEFINE B == BuildPlanes(d)
<1>1. Whole(d) /\ Sound(d) /\ BiasAtBase(d, B)
  BY DEF Fit
<1>2. /\ Good(B) /\ DOMAIN B = Names(d)
      /\ \A p \in Names(d) : ~B[p].derived => B[p].bias = <<>>
  BY <1>1, BareIs
<1>3. d.operating \in Names(d) /\ Usable(B, d.operating, FALSE)
  BY <1>1, <1>2 DEF Sound
<1>4. BasePlane(d) \in Names(d) /\ ~B[BasePlane(d)].derived /\ B[BasePlane(d)].curve # <<>>
  <2>1. AnchorPlane(B, d.operating, FALSE) \in DOMAIN B
    BY <1>2, <1>3, AnchorIs DEF Good
  <2> QED
    BY <1>2, <1>3, <2>1 DEF BasePlane, Usable, Acyclic
<1> DEFINE own == [reported |-> d.reported.curve, limiting |-> d.limiting.curve]
<1>5. own.reported \in Points /\ (own.reported = <<>> \/ IsCurve(own.reported))
  BY <1>1 DEF Whole
<1>6. Read(d) = PutOwn(B, BasePlane(d), own)
  BY DEF Read, PutOwn
<1> HIDE DEF B, own
<1>7. /\ Good(Read(d)) /\ SamePath(B, Read(d))
      /\ \A p \in Names(d) : ~B[p].derived => Read(d)[p].bias = <<>>
  BY <1>2, <1>4, <1>5, <1>6, WithReadings
<1>8. d.measuredAt \in Int
  BY <1>1 DEF Whole
<1>9. /\ Zeroed(d) \in Points /\ (Zeroed(d) = <<>> \/ IsTable(Zeroed(d)))
      /\ Zeroed(d) = <<>> <=> d.bias = <<>>
  BY <1>1, <1>8, BiasIs DEF Zeroed
<1>10. CASE d.bias = <<>>
  <2>1. Zeroed(d) = <<>> /\ Final(d) = Read(d)
    BY <1>9, <1>10 DEF Final
  <2> QED
    BY <1>2, <1>3, <1>4, <1>7, <1>10, <2>1 DEF B
<1>11. CASE d.bias # <<>>
  <2>1. SourcePlane(d, B) = BasePlane(d)
    BY <1>1, <1>11 DEF BiasAtBase, BasePlane, B
  <2>2. SourcePlane(d, Read(d)) = SourcePlane(d, B)
    <3>1. \A i \in DOMAIN d.planes : Read(d)[d.planes[i].name].derived = B[d.planes[i].name].derived
      <4>1. \A i \in DOMAIN d.planes : d.planes[i].name \in DOMAIN B
        BY <1>2 DEF Names
      <4> QED
        BY <1>7, <4>1 DEF SamePath
    <3>2. {i \in DOMAIN d.planes : ~Read(d)[d.planes[i].name].derived}
            = {i \in DOMAIN d.planes : ~B[d.planes[i].name].derived}
      BY <3>1
    <3> QED
      BY <3>2 DEF SourcePlane
  <2>3. Final(d) = PutBias(Read(d), BasePlane(d), Zeroed(d))
    BY <1>9, <1>11, <2>1, <2>2 DEF Final, PutBias
  <2>4. BasePlane(d) \in DOMAIN Read(d) /\ ~Read(d)[BasePlane(d)].derived
    BY <1>2, <1>4, <1>7 DEF SamePath
  <2>5. /\ Good(Final(d)) /\ SamePath(Read(d), Final(d)) /\ Final(d)[BasePlane(d)].bias = Zeroed(d)
        /\ \A p \in DOMAIN Read(d) : p # BasePlane(d) => Final(d)[p] = Read(d)[p]
    BY <1>7, <1>9, <2>3, <2>4, WithBias
  <2>6. SamePath(B, Final(d)) /\ DOMAIN Read(d) = Names(d)
    BY <1>2, <1>7, <2>5, SamePathTrans DEF SamePath
  <2>7. \A p \in Names(d) : ~B[p].derived =>
          /\ Read(d)[p].bias = <<>>
          /\ Final(d)[p].bias = IF p = BasePlane(d) THEN Zeroed(d) ELSE <<>>
    BY <1>7, <2>5, <2>6
  <2> QED
    BY <1>2, <1>3, <1>4, <1>7, <2>1, <2>2, <2>5, <2>6, <2>7 DEF B
<1> QED
  BY <1>10, <1>11

-----------------------------------------------------------------------------
(* The plane a limit is gauged on.                                         *)

\* The hops on the way of a plane have tables.
LEMMA HopTablesIs ==
  ASSUME NEW P, Good(P), NEW p \in DOMAIN P
  PROVE  Tables(HopTables(P, p))
<1> DEFINE hops == Hops(P, p)
           n == Len(hops)
           ts == HopTables(P, p)
<1>1. /\ n \in Nat /\ DOMAIN hops = 1 .. n
      /\ \A i \in DOMAIN hops : hops[i] \in DOMAIN P /\ P[hops[i]].derived
  BY HopsIs DEF Good
<1>2. ts = [i \in 1 .. n |-> P[hops[i]].table]
  BY <1>1 DEF HopTables
<1>3. DOMAIN ts = 1 .. n /\ Len(ts) = n
  <2>1. ts = [k \in 1 .. n |-> ts[k]]
    BY <1>2
  <2> HIDE DEF ts, n
  <2> QED
    BY <1>1, <2>1, Numbered
<1>4. \A i \in 1 .. n : GoodHop(P[hops[i]])
  BY <1>1 DEF Good
<1> HIDE DEF ts, n, hops
<1>5. \A i \in DOMAIN ts : ts[i] \in Points /\ IsTable(ts[i])
  BY <1>2, <1>3, <1>4 DEF GoodHop
<1>6. Tables(ts)
  BY <1>1, <1>3, <1>5 DEF Tables
<1> QED
  BY <1>6 DEF ts

\* A limit that applies is at a plane, the same for chains that are walked alike.
LEMMA LimitPlaneIs ==
  ASSUME NEW d, Fit(d), NEW lim \in d.limits, Applies(d, lim)
  PROVE  /\ LimitPlane(d, BuildPlanes(d), lim) \in Names(d)
         /\ Usable(BuildPlanes(d), LimitPlane(d, BuildPlanes(d), lim), TRUE)
         /\ LimitPlane(d, Read(d), lim) = LimitPlane(d, BuildPlanes(d), lim)
         /\ LimitPlane(d, Final(d), lim) = LimitPlane(d, BuildPlanes(d), lim)
<1> DEFINE B == BuildPlanes(d)
           at(Q) == LimitPlane(d, Q, lim)
           before == d.planes[Index(d, lim.plane) - 1].name
<1>1. Whole(d) /\ Sound(d)
  BY DEF Fit
<1>2. /\ Good(B) /\ DOMAIN B = Names(d)
      /\ SamePath(B, Read(d)) /\ SamePath(B, Final(d))
  BY PlanesIs
<1>3. /\ lim.plane \in Names(d) /\ Usable(B, at(B), TRUE)
      /\ lim.side = "input" /\ ~B[lim.plane].derived => Index(d, lim.plane) > 1
  BY <1>1, <1>2 DEF Sound, SoundLimits
<1>4. lim.side \in {"input", "output"}
  BY <1>1 DEF Whole
<1> HIDE DEF B
<1>5. ASSUME NEW Q, SamePath(B, Q) \/ Q = B
      PROVE  /\ lim.side = "output" => at(Q) = lim.plane
             /\ lim.side = "input" /\ B[lim.plane].derived => at(Q) = B[lim.plane].frm
             /\ lim.side = "input" /\ ~B[lim.plane].derived => at(Q) = before
  <2>1. /\ Q[lim.plane].derived = B[lim.plane].derived
        /\ B[lim.plane].derived => Q[lim.plane] = B[lim.plane]
    BY <1>2, <1>3, <1>5 DEF SamePath
  <2>2. CASE lim.side = "output"
    BY <2>2 DEF LimitPlane
  <2>3. CASE lim.side = "input" /\ B[lim.plane].derived
    BY <2>1, <2>3 DEF LimitPlane
  <2>4. CASE lim.side = "input" /\ ~B[lim.plane].derived
    BY <2>1, <2>4 DEF LimitPlane
  <2> QED
    BY <1>4, <2>2, <2>3, <2>4
<1>6. at(Read(d)) = at(B) /\ at(Final(d)) = at(B)
  <2> HIDE DEF at, before
  <2> QED
    BY <1>2, <1>4, <1>5
<1>7. at(B) \in Names(d)
  <2>1. CASE lim.side = "output"
    BY <1>3, <1>5, <2>1
  <2>2. CASE lim.side = "input" /\ B[lim.plane].derived
    <3>1. B[lim.plane].frm \in Names(d)
      BY <1>2, <1>3, <2>2 DEF Good, Closed
    <3> QED
      BY <1>5, <2>2, <3>1
  <2>3. CASE lim.side = "input" /\ ~B[lim.plane].derived
    <3> DEFINE i == Index(d, lim.plane)
    <3>1. i \in DOMAIN d.planes /\ i > 1
      BY <1>1, <1>3, <2>3, NamesFinite
    <3> HIDE DEF i
    <3>2. i - 1 \in DOMAIN d.planes
      BY <1>1, <3>1 DEF Whole
    <3>3. d.planes[i - 1].name \in Names(d)
      BY <3>2 DEF Names
    <3> QED
      BY <1>5, <2>3, <3>3 DEF i
  <2> QED
    BY <1>4, <2>1, <2>2, <2>3
<1> QED
  BY <1>3, <1>6, <1>7 DEF B

\* The measured plane a limit, or the operating plane, comes from.
Gauge(d, p) == AnchorPlane(BuildPlanes(d), p, TRUE)
GaugedPlanes(d) == {d.operating} \cup LimitPlanes(d, BuildPlanes(d))
\* It is measured and has a curve; however the planes are read and whichever
\* way it is looked up, it is the same plane with the same curve and hops.
LEMMA GaugeIs ==
  ASSUME NEW d, Fit(d), NEW p \in GaugedPlanes(d)
  PROVE  /\ p \in Names(d) /\ Gauge(d, p) \in Names(d) /\ ~BuildPlanes(d)[Gauge(d, p)].derived
         /\ BuildPlanes(d)[Gauge(d, p)].curve \in Points /\ IsCurve(BuildPlanes(d)[Gauge(d, p)].curve)
         /\ BuildPlanes(d)[Gauge(d, p)].offset \in Int
         /\ Tables(HopTables(BuildPlanes(d), p))
         /\ \A Q : Q = BuildPlanes(d) \/ SamePath(BuildPlanes(d), Q) =>
              /\ \A fl \in BOOLEAN : AnchorPlane(Q, p, fl) = Gauge(d, p)
              /\ Q[Gauge(d, p)].curve = BuildPlanes(d)[Gauge(d, p)].curve
              /\ Q[Gauge(d, p)].mode = BuildPlanes(d)[Gauge(d, p)].mode
              /\ Q[Gauge(d, p)].offset = BuildPlanes(d)[Gauge(d, p)].offset
              /\ HopTables(Q, p) = HopTables(BuildPlanes(d), p)
<1> DEFINE B == BuildPlanes(d)
           g == Gauge(d, p)
<1>1. Whole(d) /\ Sound(d) /\ OneBase(d, B)
  BY DEF Fit
<1>2. /\ Good(B) /\ DOMAIN B = Names(d) /\ d.operating \in Names(d)
      /\ BasePlane(d) \in Names(d) /\ ~B[BasePlane(d)].derived /\ B[BasePlane(d)].curve # <<>>
  BY PlanesIs
<1>3. p \in Names(d) /\ AnchorPlane(B, p, TRUE) = AnchorPlane(B, p, FALSE)
  <2>1. AnchorPlane(B, p, TRUE) = AnchorPlane(B, p, FALSE)
    BY <1>1 DEF OneBase, GaugedPlanes
  <2>2. \A lim \in {l \in d.limits : Applies(d, l)} : LimitPlane(d, B, lim) \in Names(d)
    BY LimitPlaneIs
  <2> QED
    BY <1>2, <2>1, <2>2 DEF GaugedPlanes, LimitPlanes
<1>4. g \in Names(d) /\ ~B[g].derived /\ B[g].curve # <<>>
  <2>1. CASE p = d.operating
    BY <1>2, <1>3, <2>1 DEF BasePlane, Gauge
  <2>2. CASE p \in LimitPlanes(d, B)
    <3>1. Usable(B, p, TRUE)
      <4>1. \A lim \in {l \in d.limits : Applies(d, l)} : Usable(B, LimitPlane(d, B, lim), TRUE)
        BY LimitPlaneIs
      <4> QED
        BY <2>2, <4>1 DEF LimitPlanes
    <3>2. AnchorPlane(B, p, TRUE) \in DOMAIN B
      BY <1>2, <1>3, AnchorIs DEF Good
    <3> QED
      BY <1>2, <3>1, <3>2 DEF Usable, Acyclic, Gauge
  <2> QED
    BY <2>1, <2>2 DEF GaugedPlanes
<1>5. B[g].curve \in Points /\ IsCurve(B[g].curve) /\ B[g].offset \in Int
  BY <1>2, <1>4 DEF Good, GoodGauge
<1>6. Tables(HopTables(B, p))
  BY <1>2, <1>3, HopTablesIs
<1>7. ASSUME NEW Q, Q = B \/ SamePath(B, Q)
      PROVE  /\ \A fl \in BOOLEAN : AnchorPlane(Q, p, fl) = g
             /\ Q[g].curve = B[g].curve /\ Q[g].mode = B[g].mode /\ Q[g].offset = B[g].offset
             /\ HopTables(Q, p) = HopTables(B, p)
  <2>1. CASE Q = B
    BY <1>3, <2>1 DEF Gauge
  <2>2. CASE SamePath(B, Q)
    <3>1. \A fl \in BOOLEAN : AnchorPlane(Q, p, fl) = AnchorPlane(B, p, fl)
      BY <1>2, <1>3, <2>2, AnchorIs DEF Good
    <3>2. HopTables(Q, p) = HopTables(B, p)
      BY <1>2, <1>3, <2>2, SameHops DEF Good
    <3>3. Q[g].curve = B[g].curve /\ Q[g].mode = B[g].mode /\ Q[g].offset = B[g].offset
      BY <1>2, <1>4, <2>2 DEF SamePath
    <3>4. \A fl \in BOOLEAN : AnchorPlane(B, p, fl) = g
      BY <1>3 DEF Gauge
    <3> HIDE DEF g
    <3> QED
      BY <3>1, <3>2, <3>3, <3>4
  <2> QED
    BY <1>7, <2>1, <2>2
<1> HIDE DEF B, g
<1> QED
  BY <1>3, <1>4, <1>5, <1>6, <1>7 DEF B, g

\* The limits that are resolved are those that apply.
LEMMA LimitsAre ==
  ASSUME NEW d, Fit(d)
  PROVE  /\ IsFiniteSet(LimitsOf(d, Read(d)))
         /\ \A l \in LimitsOf(d, Read(d)) :
              /\ l.plane \in LimitPlanes(d, BuildPlanes(d)) /\ l.max \in Int /\ l.via \in BOOLEAN
              /\ l.via <=> ViaLimiting(d, BuildPlanes(d), l.plane)
         /\ \A lim \in d.limits : Applies(d, lim) =>
              \E l \in LimitsOf(d, Read(d)) :
                l.plane = LimitPlane(d, BuildPlanes(d), lim) /\ l.max = lim.max
         /\ \A p \in LimitPlanes(d, BuildPlanes(d)) : \A Q :
              SamePath(BuildPlanes(d), Q) => (ViaLimiting(d, Q, p) <=> ViaLimiting(d, BuildPlanes(d), p))
<1> DEFINE B == BuildPlanes(d)
           L == {l \in d.limits : Applies(d, l)}
           Of(lim) == [plane |-> LimitPlane(d, Read(d), lim), max |-> lim.max,
                       via |-> ViaLimiting(d, Read(d), LimitPlane(d, Read(d), lim))]
           h == [lim \in L |-> Of(lim)]
<1>1. IsFiniteSet(d.limits) /\ \A lim \in d.limits : lim.max \in Int
  BY DEF Fit, Whole
<1>2. SamePath(B, Read(d))
  BY PlanesIs
<1>3. ASSUME NEW p \in LimitPlanes(d, B), NEW Q, SamePath(B, Q)
      PROVE  ViaLimiting(d, Q, p) <=> ViaLimiting(d, B, p)
  <2>1. p \in GaugedPlanes(d) /\ d.operating \in GaugedPlanes(d)
    BY DEF GaugedPlanes
  <2>2. /\ AnchorPlane(Q, p, TRUE) = Gauge(d, p) /\ AnchorPlane(B, p, TRUE) = Gauge(d, p)
        /\ AnchorPlane(Q, d.operating, TRUE) = Gauge(d, d.operating)
        /\ AnchorPlane(B, d.operating, TRUE) = Gauge(d, d.operating)
    BY <1>3, <2>1, GaugeIs
  <2> QED
    BY <2>2 DEF ViaLimiting
<1>4. LimitsOf(d, Read(d)) = {h[lim] : lim \in L}
  BY DEF LimitsOf
<1>5. IsFiniteSet(L)
  <2>1. L \in SUBSET d.limits
    OBVIOUS
  <2> HIDE DEF L
  <2> QED
    BY <1>1, <2>1, FS_Subset
<1>6. IsFiniteSet(LimitsOf(d, Read(d)))
  <2> HIDE DEF h, L
  <2> QED
    BY <1>4, <1>5, ImageFinite
<1>7. ASSUME NEW lim \in L
      PROVE  /\ h[lim].plane = LimitPlane(d, B, lim) /\ h[lim].plane \in LimitPlanes(d, B)
             /\ h[lim].max = lim.max /\ h[lim].max \in Int
             /\ h[lim].via \in BOOLEAN /\ (h[lim].via <=> ViaLimiting(d, B, h[lim].plane))
  <2>1. LimitPlane(d, Read(d), lim) = LimitPlane(d, B, lim)
    BY LimitPlaneIs
  <2>2. LimitPlane(d, B, lim) \in LimitPlanes(d, B)
    BY DEF LimitPlanes
  <2>3. h[lim] = Of(lim)
    OBVIOUS
  <2> DEFINE p == LimitPlane(d, B, lim)
             v == ViaLimiting(d, Read(d), p)
  <2>4. Of(lim) = [plane |-> p, max |-> lim.max, via |-> v]
    BY <2>1
  <2>5. (v <=> ViaLimiting(d, B, p)) /\ v \in BOOLEAN
    <3>1. v <=> ViaLimiting(d, B, p)
      <4> HIDE DEF B, p
      <4> QED
        BY <1>2, <1>3, <2>2 DEF p
    <3>2. v \in BOOLEAN
      BY DEF ViaLimiting
    <3> QED
      BY <3>1, <3>2
  <2>6. lim.max \in Int
    BY <1>1
  <2>7. h[lim].plane = p /\ h[lim].max = lim.max /\ h[lim].via = v
    <3> HIDE DEF v, p, h, Of
    <3> QED
      BY <2>3, <2>4
  <2> HIDE DEF v, h, Of
  <2> QED
    BY <2>2, <2>5, <2>6, <2>7
<1> HIDE DEF h, L, B
<1>8. \A lim \in d.limits : Applies(d, lim) => lim \in L
  BY DEF L
<1> QED
  BY <1>3, <1>4, <1>6, <1>7, <1>8 DEF B

-----------------------------------------------------------------------------
(* The ceilings are numbers.                                               *)

\* What a bias adds is a number.
LEMMA BiasNumber ==
  ASSUME NEW P, Good(P), NEW p \in DOMAIN P, ~P[p].derived, NEW f \in Int
  PROVE  BiasAt(P[p], f) \in Int
<1>1. P[p].bias \in Points /\ (P[p].bias = <<>> \/ IsTable(P[p].bias))
  BY DEF Good, GoodGauge
<1>2. CASE P[p].bias = <<>>
  BY <1>2 DEF BiasAt
<1>3. CASE P[p].bias # <<>>
  <2>1. EvalTable(P[p].bias, f) \in Int
    BY <1>1, <1>3, InterpNumber
  <2> QED
    BY <1>3, <2>1 DEF BiasAt
<1> QED
  BY <1>2, <1>3

\* The level at the measured plane that a limit of max leaves, for a limit with
\* or without the limiting reading.
Reading(d, via) == IF via THEN d.limiting.k ELSE 0
LevelLeft(d, Q, p, max, via, f) ==
  max - Reading(d, via) - SumAt(HopTables(BuildPlanes(d), p), f)
    - BuildPlanes(d)[Gauge(d, p)].offset - BiasAt(Q[Gauge(d, p)], f)

\* A ceiling is the gain of that level on the curve of the measured plane.
LEMMA CeilingIs ==
  ASSUME NEW d, Fit(d), NEW p \in GaugedPlanes(d), NEW Q, SamePath(BuildPlanes(d), Q), Good(Q),
         NEW max \in Int, NEW via \in BOOLEAN, NEW f \in Int
  PROVE  /\ LevelLeft(d, Q, p, max, via, f) \in Int
         /\ CeilingFor(d, Q, p, max, via, f) =
              InterpExtrap(LevelLeft(d, Q, p, max, via, f),
                           Flipped(BuildPlanes(d)[Gauge(d, p)].curve), BuildPlanes(d)[Gauge(d, p)].mode)
         /\ CeilingFor(d, Q, p, max, via, f) \in Int
         /\ BiasAt(Q[Gauge(d, p)], f) \in Int
         /\ SumAt(HopTables(BuildPlanes(d), p), f) \in Int
<1> DEFINE g == Gauge(d, p)
           m == BuildPlanes(d)[g]
           k == Reading(d, via)
           sum == SumAt(HopTables(BuildPlanes(d), p), f)
           level == LevelLeft(d, Q, p, max, via, f)
<1>1. /\ g \in Names(d) /\ ~m.derived /\ m.curve \in Points /\ IsCurve(m.curve) /\ m.offset \in Int
      /\ Tables(HopTables(BuildPlanes(d), p))
      /\ AnchorPlane(Q, p, TRUE) = g
      /\ Q[g].curve = m.curve /\ Q[g].mode = m.mode /\ Q[g].offset = m.offset
      /\ HopTables(Q, p) = HopTables(BuildPlanes(d), p)
  BY GaugeIs
<1>2. DOMAIN BuildPlanes(d) = Names(d)
  BY PlanesIs
<1>3. k \in Int /\ d.limiting.kind # "own"
  BY DEF Fit, Whole, CapAhead, Reading
<1>4. sum \in Int
  BY <1>1, SumAtIs
<1>5. BiasAt(Q[g], f) \in Int
  <2>1. g \in DOMAIN Q /\ ~Q[g].derived
    BY <1>1, <1>2 DEF SamePath
  <2> HIDE DEF g
  <2> QED
    BY <2>1, BiasNumber
<1>6. level = max - k - sum - m.offset - BiasAt(Q[g], f)
  BY DEF LevelLeft
<1>7. level \in Int
  <2> HIDE DEF k, sum, level, m, g
  <2> QED
    BY <1>1, <1>3, <1>4, <1>5, <1>6
<1>8. CeilingFor(d, Q, p, max, via, f) = GainForPowerOn(Q, p, max - k, f, TRUE, "measured")
  <2>1. CASE via
    BY <1>3, <2>1 DEF CeilingFor, Reading
  <2>2. CASE ~via
    <3>1. k = 0 /\ max - 0 = max
      BY <2>2 DEF Reading
    <3>2. CeilingFor(d, Q, p, max, via, f) = GainForPowerOn(Q, p, max, f, TRUE, "measured")
      BY <2>2 DEF CeilingFor
    <3> HIDE DEF k
    <3> QED
      BY <3>1, <3>2
  <2> QED
    BY <2>1, <2>2
<1>9. GainForPowerOn(Q, p, max - k, f, TRUE, "measured")
        = InterpExtrap(level, Flipped(m.curve), m.mode)
  <2>1. CurveFor(Q[g], "measured") = m.curve
    BY <1>1 DEF CurveFor
  <2>2. max - k - sum - Q[g].offset - BiasAt(Q[g], f) = level
    BY <1>1, <1>6
  <2> HIDE DEF k, sum, level, m, g
  <2>3. GainForPowerOn(Q, p, max - k, f, TRUE, "measured")
          = InterpExtrap(max - k - SumAt(HopTables(Q, p), f) - Q[g].offset - BiasAt(Q[g], f),
                         Flipped(CurveFor(Q[g], "measured")), Q[g].mode)
    BY <1>1 DEF GainForPowerOn
  <2>4. SumAt(HopTables(Q, p), f) = sum
    BY <1>1 DEF sum
  <2> QED
    BY <1>1, <2>1, <2>2, <2>3, <2>4
<1>10. InterpExtrap(level, Flipped(m.curve), m.mode) \in Int
  <2> HIDE DEF m, level
  <2>1. Flipped(m.curve) \in Points /\ IsTable(Flipped(m.curve))
    BY <1>1, FlippedCurve DEF IsCurve
  <2> QED
    BY <1>7, <2>1, InterpNumber
<1> HIDE DEF m, level, sum, g, k
<1> QED
  BY <1>4, <1>5, <1>7, <1>8, <1>9, <1>10 DEF m, level, sum, g, k

\* The tightest of a bound, of a number for each limit and of some others.
All(x, S, h, W) == {x} \cup {h[l] : l \in S} \cup W
\* The least of them is a number at most each of them.
LEMMA Tightest ==
  ASSUME NEW x \in Int, NEW S, IsFiniteSet(S), NEW h, \A l \in S : h[l] \in Int,
         NEW W \in SUBSET Int, IsFiniteSet(W)
  PROVE  LET V == All(x, S, h, W) IN
         /\ Min(V) \in Int /\ Min(V) <= x
         /\ \A l \in S : Min(V) <= h[l]
         /\ \A w \in W : Min(V) <= w
         /\ S = {} /\ W = {} => Min(V) = x
<1> DEFINE H == {h[l] : l \in S}
           A == H \cup W
           V == All(x, S, h, W)
<1>1. IsFiniteSet(H)
  BY ImageFinite
<1>2. H \in SUBSET Int /\ \A l \in S : h[l] \in H
  OBVIOUS
<1>3. S = {} => H = {}
  OBVIOUS
<1>0. V = {x} \cup H \cup W
  BY DEF All
<1> HIDE DEF H, V
<1>4. IsFiniteSet(A)
  BY <1>1, FS_Union
<1>5. V = A \cup {x} /\ V \in SUBSET Int /\ x \in V
  BY <1>0, <1>2
<1>6. IsFiniteSet(V)
  <2> HIDE DEF A
  <2> QED
    BY <1>4, <1>5, FS_AddElement
<1>7. Min(V) \in V /\ \A y \in V : Min(V) <= y
  <2> QED
    BY <1>5, <1>6, MinOf
<1>8. (\A l \in S : h[l] \in V) /\ (\A w \in W : w \in V)
  BY <1>0, <1>2
<1>9. S = {} /\ W = {} => V = {x}
  BY <1>0, <1>3
<1>10. Min(V) \in Int /\ (S = {} /\ W = {} => Min(V) = x)
  BY <1>5, <1>7, <1>9
<1> QED
  BY <1>5, <1>7, <1>8, <1>10 DEF V

\* The fixed ceiling is at most that of each fixed limit.
LEMMA FixedCeilingIs ==
  ASSUME NEW d, Fit(d)
  PROVE  /\ FixedCeiling(d) \in Int
         /\ \A l \in FixedLimits(d) :
              FixedCeiling(d) <= CeilingFor(d, Read(d), l.plane, l.max, l.via, NoFreq)
<1> DEFINE S == FixedLimits(d)
           h == [l \in S |-> CeilingFor(d, Read(d), l.plane, l.max, l.via, NoFreq)]
           H == {h[l] : l \in S}
           W == {}
<1>1. SamePath(BuildPlanes(d), Read(d)) /\ Good(Read(d))
  BY PlanesIs
<1>2. NoFreq \in Int
  BY DEF NoFreq
<1>3. \A l \in S : l.plane \in GaugedPlanes(d) /\ l.max \in Int /\ l.via \in BOOLEAN
  BY LimitsAre DEF FixedLimits, GaugedPlanes
<1>4. \A l \in S : CeilingFor(d, Read(d), l.plane, l.max, l.via, NoFreq) \in Int
  <2> HIDE DEF S
  <2> QED
    BY <1>1, <1>2, <1>3, CeilingIs
<1>5. IsFiniteSet(S)
  <2>1. S \in SUBSET LimitsOf(d, Read(d)) /\ IsFiniteSet(LimitsOf(d, Read(d)))
    BY LimitsAre DEF FixedLimits
  <2> HIDE DEF S
  <2> QED
    BY <2>1, FS_Subset
<1>6. d.max \in Int
  BY DEF Fit, Whole
<1>7. FixedCeiling(d) = Min(All(d.max, S, h, W))
  <2>1. H = {CeilingFor(d, Read(d), l.plane, l.max, l.via, NoFreq) : l \in S}
    OBVIOUS
  <2>2. {d.max} \cup H \cup W = {d.max} \cup H
    OBVIOUS
  <2>3. All(d.max, S, h, W) = {d.max} \cup H \cup W
    BY DEF All
  <2> HIDE DEF H, W
  <2> QED
    BY <2>1, <2>2, <2>3 DEF FixedCeiling
<1>8. \A l \in S : h[l] \in Int /\ h[l] = CeilingFor(d, Read(d), l.plane, l.max, l.via, NoFreq)
  BY <1>4
<1>9. W \in SUBSET Int /\ IsFiniteSet(W)
  BY FS_EmptySet
<1> HIDE DEF S, h, W
<1>10. /\ Min(All(d.max, S, h, W)) \in Int
       /\ \A l \in S : Min(All(d.max, S, h, W)) <= h[l]
  BY <1>5, <1>6, <1>8, <1>9, Tightest
<1> HIDE DEF H
<1>11. FixedCeiling(d) \in Int /\ \A l \in S : FixedCeiling(d) <= h[l]
  BY <1>7, <1>10
<1> QED
  BY <1>8, <1>11 DEF S

\* What the parts of a resolution of a document are.
Resolution(d, r) ==
  /\ r.doc = d /\ r.ceiling = FixedCeiling(d) /\ r.limits = Moving(d)
  /\ r.bias = Zeroed(d) /\ r.planes = Final(d)

\* The greatest gain at a frequency is a number, and without what moves the
\* fixed ceiling.
LEMMA MaxGainIs ==
  ASSUME NEW d, Fit(d), NEW r, Resolution(d, r), NEW f \in Int
  PROVE  /\ MaxGainAt(r, f) \in Int
         /\ Moving(d) = {} /\ d.limiting.cap = Inf => MaxGainAt(r, f) = FixedCeiling(d)
<1> DEFINE S == Moving(d)
           h == [l \in S |-> CeilingFor(d, Final(d), l.plane, l.max, l.via, f)]
           H == {h[l] : l \in S}
           W == IF d.limiting.cap = Inf THEN {}
                ELSE {CeilingFor(d, Final(d), d.operating, d.limiting.cap, TRUE, f)}
<1>1. SamePath(BuildPlanes(d), Final(d)) /\ Good(Final(d))
  BY PlanesIs
<1>2. d.limiting.cap \in Int /\ d.operating \in GaugedPlanes(d)
  BY DEF Fit, Whole, GaugedPlanes
<1>3. \A l \in S : l.plane \in GaugedPlanes(d) /\ l.max \in Int /\ l.via \in BOOLEAN
  BY LimitsAre DEF Moving, GaugedPlanes
<1>4. \A l \in S : CeilingFor(d, Final(d), l.plane, l.max, l.via, f) \in Int
  <2> HIDE DEF S
  <2> QED
    BY <1>1, <1>3, CeilingIs
<1>5. CeilingFor(d, Final(d), d.operating, d.limiting.cap, TRUE, f) \in Int
  BY <1>1, <1>2, CeilingIs
<1>6. IsFiniteSet(S)
  <2>1. S \in SUBSET LimitsOf(d, Read(d)) /\ IsFiniteSet(LimitsOf(d, Read(d)))
    BY LimitsAre DEF Moving
  <2> HIDE DEF S
  <2> QED
    BY <2>1, FS_Subset
<1>7. W \in SUBSET Int /\ IsFiniteSet(W)
  BY <1>5, FS_EmptySet, FS_Singleton
<1>8. MaxGainAt(r, f) = Min(All(FixedCeiling(d), S, h, W))
  <2>1. H = {CeilingFor(d, Final(d), l.plane, l.max, l.via, f) : l \in S}
    OBVIOUS
  <2>2. {FixedCeiling(d)} \cup H \cup W = {FixedCeiling(d)} \cup W \cup H
    OBVIOUS
  <2>3. MaxGainAt(r, f) = Min({FixedCeiling(d)} \cup W
                                \cup {CeilingFor(d, Final(d), l.plane, l.max, l.via, f) : l \in S})
    BY DEF MaxGainAt, Resolution
  <2>4. All(FixedCeiling(d), S, h, W) = {FixedCeiling(d)} \cup H \cup W
    BY DEF All
  <2> HIDE DEF H, W, S
  <2> QED
    BY <2>1, <2>2, <2>3, <2>4
<1>9. \A l \in S : h[l] \in Int
  BY <1>4
<1>10. FixedCeiling(d) \in Int
  BY FixedCeilingIs
<1>11. d.limiting.cap = Inf => W = {}
  OBVIOUS
<1> HIDE DEF S, h, W
<1>12. /\ Min(All(FixedCeiling(d), S, h, W)) \in Int
       /\ S = {} /\ W = {} => Min(All(FixedCeiling(d), S, h, W)) = FixedCeiling(d)
  BY <1>6, <1>7, <1>9, <1>10, Tightest
<1> HIDE DEF H
<1> QED
  BY <1>8, <1>11, <1>12 DEF S

-----------------------------------------------------------------------------
(* The components of the chain, and the agent's end.                       *)

\* The hops that are kept of some are among them.
KeptIn(hops, S) ==
  LET kept == Ascending(S) IN [k \in DOMAIN kept |-> hops[kept[k]]]
\* They are numbered from 1.
LEMMA KeptIs ==
  ASSUME NEW hops, Len(hops) \in Nat, DOMAIN hops = 1 .. Len(hops),
         NEW S \in SUBSET DOMAIN hops
  PROVE  /\ Len(KeptIn(hops, S)) \in Nat
         /\ DOMAIN KeptIn(hops, S) = 1 .. Len(KeptIn(hops, S))
         /\ \A k \in DOMAIN KeptIn(hops, S) : \E i \in S : KeptIn(hops, S)[k] = hops[i]
<1> DEFINE n == Cardinality(S)
           f == KeptIn(hops, S)
<1>1. S \in SUBSET Int /\ IsFiniteSet(S)
  <2>1. IsFiniteSet(1 .. Len(hops))
    BY FS_Interval
  <2> QED
    BY <2>1, FS_Subset
<1>2. /\ n \in Nat /\ DOMAIN Ascending(S) = 1 .. n
      /\ \A k \in 1 .. n : Ascending(S)[k] \in S
  BY <1>1, AscendingIs
<1>3. f = [k \in 1 .. n |-> hops[Ascending(S)[k]]]
  BY <1>2 DEF KeptIn
<1>4. DOMAIN f = 1 .. n /\ Len(f) = n
  <2>1. f = [k \in 1 .. n |-> f[k]]
    BY <1>3
  <2> HIDE DEF f, n
  <2> QED
    BY <1>2, <2>1, Numbered
<1> HIDE DEF f, n
<1>5. \A k \in DOMAIN f : \E i \in S : f[k] = hops[i]
  BY <1>2, <1>3, <1>4
<1> QED
  BY <1>2, <1>4, <1>5 DEF f

\* The programmable components, and the hops they are at.
ActiveOf(d) ==
  LET hops == Hops(Final(d), d.operating)
  IN KeptIn(hops, {i \in DOMAIN hops : Final(d)[hops[i]].active # <<>>})
Actives(d) == [i \in DOMAIN ActiveOf(d) |-> Final(d)[ActiveOf(d)[i]].active[1]]
\* They are the ones the resolution finds, and are components.
LEMMA ActivesIs ==
  ASSUME NEW d, Fit(d), NEW r, Resolution(d, r)
  PROVE  /\ ActiveHops(r) = ActiveOf(d) /\ IsFiniteSet(DOMAIN ActiveOf(d))
         /\ DOMAIN Actives(d) = DOMAIN ActiveOf(d) /\ Components(Actives(d))
<1> DEFINE P == Final(d)
           hops == Hops(P, d.operating)
           S == {i \in DOMAIN hops : P[hops[i]].active # <<>>}
           f == ActiveOf(d)
           n == Len(f)
<1>1. Good(P) /\ d.operating \in DOMAIN P
  BY PlanesIs DEF SamePath
<1>2. /\ Len(hops) \in Nat /\ DOMAIN hops = 1 .. Len(hops)
      /\ \A i \in DOMAIN hops : hops[i] \in DOMAIN P /\ P[hops[i]].derived
  <2> HIDE DEF P
  <2> QED
    BY <1>1, HopsIs DEF Good
<1>3. f = KeptIn(hops, S)
  BY DEF ActiveOf
<1>4. ActiveHops(r) = f
  <2>1. r.planes = P /\ r.doc.operating = d.operating
    BY DEF Resolution
  <2>2. ActiveHops(r) = Kept(Hops(P, d.operating), LAMBDA p : P[p].active # <<>>)
    <3> HIDE DEF P
    <3> QED
      BY <2>1 DEF ActiveHops
  <2>3. Kept(hops, LAMBDA p : P[p].active # <<>>) = KeptIn(hops, S)
    BY DEF Kept, KeptIn
  <2> QED
    BY <1>3, <2>2, <2>3
<1> HIDE DEF P, hops
<1>5. /\ n \in Nat /\ DOMAIN f = 1 .. n
      /\ \A k \in DOMAIN f : \E i \in S : f[k] = hops[i]
  <2>1. S \in SUBSET DOMAIN hops
    OBVIOUS
  <2> HIDE DEF S, f
  <2> QED
    BY <1>2, <1>3, <2>1, KeptIs
<1>6. ASSUME NEW k \in DOMAIN f PROVE IsComponent(P[f[k]].active[1])
  <2>1. PICK i \in S : f[k] = hops[i]
    BY <1>5
  <2>2. GoodHop(P[hops[i]]) /\ P[hops[i]].active # <<>>
    BY <1>1, <1>2 DEF Good
  <2> QED
    BY <2>1, <2>2 DEF GoodHop
<1> HIDE DEF f
<1>7. Actives(d) = [k \in 1 .. n |-> P[f[k]].active[1]]
  BY <1>5 DEF Actives, f, P
<1>8. DOMAIN Actives(d) = 1 .. n /\ Len(Actives(d)) = n
  <2> DEFINE a == Actives(d)
  <2>1. a = [k \in 1 .. n |-> a[k]]
    BY <1>7
  <2> HIDE DEF a, n
  <2>2. DOMAIN a = 1 .. n /\ Len(a) = n
    BY <1>5, <2>1, Numbered
  <2> QED
    BY <2>2 DEF a
<1>9. Components(Actives(d))
  BY <1>5, <1>6, <1>7, <1>8 DEF Components
<1>10. IsFiniteSet(DOMAIN f)
  BY <1>5, FS_Interval
<1> QED
  BY <1>4, <1>5, <1>8, <1>9, <1>10 DEF f

\* The agent's grid is that of a chain with these components.
LEMMA GridAtIs ==
  ASSUME NEW d, Fit(d), NEW r, Resolution(d, r), NEW f \in Int, f # NoFreq
  PROVE  \E C : IsChain(C) /\ C.actives = Actives(d) /\ GridAt(r, f) = NewGrid(C)
<1> DEFINE g == BasePlane(d)
           m == Final(d)[g]
           sum == SumAt(HopTables(Final(d), d.operating), f)
           shift == m.offset + BiasAt(m, f) + sum
           C == [curve |-> CurveFor(m, "reported"), mode |-> m.mode, shift |-> shift,
                 min |-> d.min, ceiling |-> MaxGainAt(r, f), step |-> d.step, actives |-> Actives(d)]
<1>1. /\ Good(Final(d)) /\ SamePath(BuildPlanes(d), Final(d)) /\ DOMAIN BuildPlanes(d) = Names(d)
      /\ g \in Names(d) /\ ~BuildPlanes(d)[g].derived /\ BuildPlanes(d)[g].curve # <<>>
  BY PlanesIs
<1>2. d.operating \in GaugedPlanes(d)
  BY DEF GaugedPlanes
<1>3. g = Gauge(d, d.operating) /\ AnchorPlane(Final(d), d.operating, FALSE) = g
  <2>1. /\ AnchorPlane(BuildPlanes(d), d.operating, FALSE) = Gauge(d, d.operating)
        /\ AnchorPlane(Final(d), d.operating, FALSE) = Gauge(d, d.operating)
    BY <1>1, <1>2, GaugeIs
  <2> QED
    BY <2>1 DEF BasePlane
<1>4. g \in DOMAIN Final(d) /\ ~m.derived /\ GoodGauge(m) /\ m.curve # <<>>
  BY <1>1 DEF SamePath, Good
<1>5. BiasAt(m, f) \in Int
  BY <1>1, <1>4, BiasNumber
<1>6. sum \in Int
  BY <1>1, <1>2, GaugeIs, SumAtIs
<1>7. MaxGainAt(r, f) \in Int
  BY MaxGainIs
<1>8. CurveFor(m, "reported") \in Points /\ IsCurve(CurveFor(m, "reported"))
  BY <1>4 DEF GoodGauge, CurveFor
<1>9. Components(Actives(d))
  BY ActivesIs
<1>10. d.min \in Int /\ d.step \in Nat /\ m.offset \in Int
  BY <1>4 DEF Fit, Whole, GoodGauge
<1>11. IsChain(C)
  <2>1. shift \in Int
    <3> HIDE DEF m, sum
    <3> QED
      BY <1>5, <1>6, <1>10
  <2> HIDE DEF shift, m
  <2>2. /\ C.curve = CurveFor(m, "reported") /\ C.shift = shift /\ C.min = d.min
        /\ C.ceiling = MaxGainAt(r, f) /\ C.step = d.step /\ C.actives = Actives(d)
    OBVIOUS
  <2> HIDE DEF C
  <2> QED
    BY <1>7, <1>8, <1>9, <1>10, <2>1, <2>2 DEF IsChain
<1>12. GridAt(r, f) = NewGrid(C)
  <2>1. /\ r.planes = Final(d) /\ r.doc = d /\ r.doc.operating = d.operating
        /\ r.doc.min = d.min /\ r.doc.step = d.step
    BY DEF Resolution
  <2>2. EffFreq(r, f) = f
    BY DEF EffFreq
  <2>3. [i \in DOMAIN ActiveHops(r) |-> r.planes[ActiveHops(r)[i]].active[1]] = Actives(d)
    BY <2>1, ActivesIs DEF Actives
  <2>4. GridAt(r, f) = NewGrid([curve |-> CurveFor(m, "reported"), mode |-> m.mode,
                 shift |-> m.offset + BiasAt(m, f) + sum,
                 min |-> d.min, ceiling |-> MaxGainAt(r, f), step |-> d.step,
                 actives |-> [i \in DOMAIN ActiveHops(r) |-> r.planes[ActiveHops(r)[i]].active[1]]])
    <3> HIDE DEF g
    <3> QED
      BY <1>3, <2>1, <2>2 DEF GridAt
  <2> QED
    BY <2>3, <2>4
<1>13. C.actives = Actives(d)
  OBVIOUS
<1> HIDE DEF C
<1> QED
  BY <1>11, <1>12, <1>13

-----------------------------------------------------------------------------
(* The artifact and the script's end.                                      *)

\* A moving limit is published without a curve: the operating plane's holds.
LEMMA PublicLimitIs ==
  ASSUME NEW d, Fit(d), NEW r, Resolution(d, r), SharedBase(r), NEW l \in Moving(d)
  PROVE  /\ PublicLimit(r, l).curve = <<>> /\ PublicLimit(r, l).max = l.max
         /\ PublicLimit(r, l).delta = SumTables(HopTables(BuildPlanes(d), l.plane))
         /\ PublicLimit(r, l).via <=> l.via
         /\ Gauge(d, l.plane) = Gauge(d, d.operating)
<1> DEFINE P == Final(d)
           gauge == P[AnchorPlane(P, l.plane, TRUE)]
           curve == CASE l.via /\ d.limiting.kind = "own" -> gauge.own.limiting
                      [] l.via /\ d.limiting.kind # "own" -> <<>>
                      [] AnchorPlane(P, l.plane, TRUE) = AnchorPlane(P, d.operating, FALSE) -> <<>>
                      [] OTHER -> gauge.curve
<1>1. l.plane \in GaugedPlanes(d) /\ d.operating \in GaugedPlanes(d) /\ l.via \in BOOLEAN
  BY LimitsAre DEF Moving, GaugedPlanes
<1>2. SamePath(BuildPlanes(d), P)
  BY PlanesIs
<1>3. /\ \A fl \in BOOLEAN : AnchorPlane(P, l.plane, fl) = Gauge(d, l.plane)
      /\ \A fl \in BOOLEAN : AnchorPlane(P, d.operating, fl) = Gauge(d, d.operating)
      /\ HopTables(P, l.plane) = HopTables(BuildPlanes(d), l.plane)
  BY <1>1, <1>2, GaugeIs
<1>4. r.planes = P /\ r.doc = d /\ r.limits = Moving(d)
  BY DEF Resolution
<1>5. Gauge(d, l.plane) = Gauge(d, d.operating)
  <2> HIDE DEF P
  <2>1. AnchorPlane(P, l.plane, TRUE) \in {AnchorPlane(P, d.operating, fl) : fl \in BOOLEAN}
    BY <1>4 DEF SharedBase
  <2> QED
    BY <1>3, <2>1
<1>6. d.limiting.kind # "own"
  BY DEF Fit, CapAhead
<1>7. curve = <<>>
  <2>1. AnchorPlane(P, l.plane, TRUE) = AnchorPlane(P, d.operating, FALSE)
    <3> HIDE DEF P
    <3> QED
      BY <1>3, <1>5
  <2>2. CASE l.via
    BY <1>6, <2>2
  <2>3. CASE ~l.via
    BY <2>1, <2>3
  <2> QED
    BY <2>2, <2>3
<1> DEFINE moved == [i \in DOMAIN curve |-> <<X(curve, i), Y(curve, i) + gauge.offset>>]
           via == l.via /\ d.limiting.kind # "own"
           delta == SumTables(HopTables(P, l.plane))
<1>8. PublicLimit(r, l) = [max |-> l.max, delta |-> delta, via |-> via, curve |-> moved]
  <2> HIDE DEF P
  <2> QED
    BY <1>4 DEF PublicLimit
<1>9. moved = <<>>
  <2> HIDE DEF curve
  <2> QED
    BY <1>7
<1>10. via <=> l.via
  BY <1>1, <1>6
<1>11. delta = SumTables(HopTables(BuildPlanes(d), l.plane))
  BY <1>3
<1> HIDE DEF moved, via, delta
<1>12. /\ PublicLimit(r, l).curve = moved /\ PublicLimit(r, l).max = l.max
       /\ PublicLimit(r, l).delta = delta /\ PublicLimit(r, l).via = via
  BY <1>8
<1> QED
  BY <1>5, <1>9, <1>10, <1>11, <1>12

\* What the artifact of a resolution holds.
Artifact(d, a) ==
  LET m == BuildPlanes(d)[Gauge(d, d.operating)]
  IN /\ a.curve = Shifted(m.curve, m.offset) /\ a.mode = m.mode
     /\ a.min = d.min /\ a.step = d.step
     /\ a.ceiling \in Int /\ Capped(a.ceiling, d.min, FixedCeiling(d), d.step)
     /\ a.bias = Zeroed(d) /\ a.actives = Actives(d) /\ Tables(a.hops)
     /\ a.reported = d.reported.k /\ a.limiting = d.limiting.k /\ a.cap = d.limiting.cap
     /\ DOMAIN a.actives = DOMAIN ActiveOf(d)
\* The artifact that is published holds that, with a limit for each moving one.
LEMMA ArtifactIs ==
  ASSUME NEW d, Fit(d), NEW r, Resolution(d, r), r.freq \in Int
  PROVE  /\ Artifact(d, ToPublic(r))
         /\ ToPublic(r).limits = {PublicLimit(r, l) : l \in Moving(d)}
<1> DEFINE P == Final(d)
           g == Gauge(d, d.operating)
           m == P[g]
           b == BuildPlanes(d)[g]
           hops == Hops(P, d.operating)
           S == {i \in DOMAIN hops : ~P[hops[i]].fallback}
           real == KeptIn(hops, S)
           top == MaxGainAt(r, r.freq)
           flat == real = <<>> /\ r.limits = {} /\ r.bias = <<>> /\ ~HasReadings(r.doc)
           a == ToPublic(r)
           curve == [i \in DOMAIN m.curve |-> <<X(m.curve, i), Y(m.curve, i) + m.offset>>]
           ceiling == IF flat THEN OnGrid(top, d.min, top, d.step, "nearest") ELSE FixedCeiling(d)
           tables == [i \in DOMAIN real |-> P[real[i]].table]
<1>1. /\ r.planes = P /\ r.doc = d /\ r.limits = Moving(d) /\ r.ceiling = FixedCeiling(d)
      /\ r.bias = Zeroed(d)
  BY DEF Resolution
<1>2. d.operating \in GaugedPlanes(d) /\ SamePath(BuildPlanes(d), P) /\ Good(P) /\ d.operating \in DOMAIN P
  BY PlanesIs DEF GaugedPlanes, SamePath
<1>3. /\ AnchorPlane(P, d.operating, FALSE) = g
      /\ m.curve = b.curve /\ m.mode = b.mode /\ m.offset = b.offset
  BY <1>2, GaugeIs
<1>4. curve = Shifted(b.curve, b.offset)
  BY <1>3 DEF Shifted
<1>5. Actives(d) = [i \in DOMAIN ActiveHops(r) |-> r.planes[ActiveHops(r)[i]].active[1]]
  BY <1>1, ActivesIs DEF Actives
<1>6. Kept(hops, LAMBDA p : ~r.planes[p].fallback) = real
  BY <1>1 DEF Kept, KeptIn
<1> HIDE DEF P, g
<1>7. a = [curve |-> curve, mode |-> m.mode, min |-> d.min, step |-> d.step, ceiling |-> ceiling,
           hops |-> tables, actives |-> Actives(d), limits |-> {PublicLimit(r, l) : l \in r.limits},
           bias |-> r.bias, freq |-> r.freq, reported |-> d.reported.k, limiting |-> d.limiting.k,
           cap |-> d.limiting.cap]
  <2> HIDE DEF real
  <2> QED
    BY <1>1, <1>3, <1>5, <1>6 DEF ToPublic
<1> HIDE DEF a, curve, ceiling, tables, m, b
<1>8. /\ a.curve = curve /\ a.mode = m.mode /\ a.min = d.min /\ a.step = d.step /\ a.ceiling = ceiling
      /\ a.hops = tables /\ a.actives = Actives(d) /\ a.limits = {PublicLimit(r, l) : l \in r.limits}
      /\ a.bias = r.bias /\ a.reported = d.reported.k /\ a.limiting = d.limiting.k
      /\ a.cap = d.limiting.cap
  BY <1>7
<1>9. d.min \in Int /\ d.step \in Nat /\ FixedCeiling(d) \in Int
  BY FixedCeilingIs DEF Fit, Whole
<1>10. ceiling \in Int /\ Capped(ceiling, d.min, FixedCeiling(d), d.step)
  <2>1. CASE flat
    <3>1. Moving(d) = {} /\ d.limiting.cap = Inf
      BY <1>1, <2>1 DEF HasReadings
    <3>2. top = FixedCeiling(d) /\ top \in Int
      BY <3>1, MaxGainIs
    <3>3. ceiling = OnGrid(top, d.min, top, d.step, "nearest")
      BY <2>1 DEF ceiling
    <3> HIDE DEF top
    <3>4. Capped(ceiling, d.min, top, d.step)
      BY <1>9, <3>2, <3>3, OnGridCapped
    <3> QED
      BY <3>2, <3>4 DEF Capped
  <2>2. CASE ~flat
    <3>1. ceiling = FixedCeiling(d)
      BY <2>2 DEF ceiling
    <3> QED
      BY <1>9, <3>1 DEF Capped
  <2> QED
    BY <2>1, <2>2
<1>11. Tables(tables)
  <2> DEFINE n == Len(real)
  <2>1. /\ Len(hops) \in Nat /\ DOMAIN hops = 1 .. Len(hops)
        /\ \A i \in DOMAIN hops : hops[i] \in DOMAIN P /\ P[hops[i]].derived
    BY <1>2, HopsIs DEF Good
  <2>2. S \in SUBSET DOMAIN hops
    OBVIOUS
  <2> HIDE DEF S, hops
  <2>3. /\ n \in Nat /\ DOMAIN real = 1 .. n
        /\ \A k \in DOMAIN real : \E i \in S : real[k] = hops[i]
    BY <2>1, <2>2, KeptIs
  <2> HIDE DEF real
  <2>4. tables = [i \in 1 .. n |-> P[real[i]].table]
    BY <2>3 DEF tables
  <2> HIDE DEF n
  <2>5. DOMAIN tables = 1 .. n /\ Len(tables) = n
    <3>1. tables = [k \in 1 .. n |-> tables[k]]
      BY <2>4
    <3> QED
      BY <2>3, <3>1, Numbered
  <2>6. \A k \in 1 .. n : GoodHop(P[real[k]])
    BY <1>2, <2>1, <2>2, <2>3 DEF Good
  <2>7. \A i \in DOMAIN tables : tables[i] \in Points /\ IsTable(tables[i])
    BY <2>4, <2>5, <2>6 DEF GoodHop
  <2> QED
    BY <2>3, <2>5, <2>7 DEF Tables
<1>12. DOMAIN Actives(d) = DOMAIN ActiveOf(d)
  BY ActivesIs
<1>13. a.curve = Shifted(b.curve, b.offset) /\ a.mode = b.mode
  BY <1>3, <1>4, <1>8
<1>14. Artifact(d, a)
  BY <1>1, <1>8, <1>10, <1>11, <1>12, <1>13 DEF Artifact, b, g
<1> QED
  BY <1>1, <1>8, <1>14 DEF a

\* The limits of an artifact are the moving ones, without a curve of their own.
Publishes(d, l, pl) ==
  /\ pl.curve = <<>> /\ pl.max = l.max /\ (pl.via <=> l.via)
  /\ pl.delta = SumTables(HopTables(BuildPlanes(d), l.plane))
Written(d, a) ==
  /\ Artifact(d, a) /\ IsFiniteSet(a.limits)
  /\ \A pl \in a.limits : \E l \in Moving(d) : Publishes(d, l, pl)
  /\ \A l \in Moving(d) : /\ \E pl \in a.limits : Publishes(d, l, pl)
                          /\ Gauge(d, l.plane) = Gauge(d, d.operating)
\* The artifact of a resolution without a foreign base is such a one.
LEMMA WrittenIs ==
  ASSUME NEW d, Fit(d), NEW r, Resolution(d, r), r.freq \in Int, SharedBase(r)
  PROVE  Written(d, ToPublic(r))
<1> DEFINE a == ToPublic(r)
           S == Moving(d)
           h == [l \in S |-> PublicLimit(r, l)]
<1>1. Artifact(d, a) /\ a.limits = {PublicLimit(r, l) : l \in S}
  BY ArtifactIs
<1>2. IsFiniteSet(S)
  <2>1. S \in SUBSET LimitsOf(d, Read(d)) /\ IsFiniteSet(LimitsOf(d, Read(d)))
    BY LimitsAre DEF Moving
  <2> HIDE DEF S
  <2> QED
    BY <2>1, FS_Subset
<1>3. IsFiniteSet(a.limits)
  <2>1. a.limits = {h[l] : l \in S}
    BY <1>1
  <2>2. IsFiniteSet({h[l] : l \in S})
    <3> HIDE DEF h, S
    <3> QED
      BY <1>2, ImageFinite
  <2> QED
    BY <2>1, <2>2
<1>4. \A l \in S : Publishes(d, l, PublicLimit(r, l)) /\ Gauge(d, l.plane) = Gauge(d, d.operating)
  BY PublicLimitIs DEF Publishes
<1> HIDE DEF a, S
<1> QED
  BY <1>1, <1>3, <1>4 DEF Written, a, S

\* The bias at the operating plane's curve, on both ends.
Bias(d, f) == IF Zeroed(d) = <<>> THEN 0 ELSE EvalTable(Zeroed(d), f)
\* Agent and script add the same bias.
LEMMA BiasBothEnds ==
  ASSUME NEW d, Fit(d), NEW f \in Int
  PROVE  /\ Bias(d, f) \in Int
         /\ BiasAt(Final(d)[Gauge(d, d.operating)], f) = Bias(d, f)
         /\ \A a : Artifact(d, a) => SourceBiasAt(a, f) = Bias(d, f)
<1>1. Gauge(d, d.operating) = BasePlane(d) /\ BasePlane(d) \in Names(d)
      /\ ~BuildPlanes(d)[BasePlane(d)].derived
  <2>1. d.operating \in GaugedPlanes(d)
    BY DEF GaugedPlanes
  <2>2. AnchorPlane(BuildPlanes(d), d.operating, FALSE) = Gauge(d, d.operating)
    BY <2>1, GaugeIs
  <2> QED
    BY <2>2, PlanesIs DEF BasePlane
<1>2. Final(d)[BasePlane(d)].bias = Zeroed(d)
  BY <1>1, PlanesIs
<1>3. BiasAt(Final(d)[Gauge(d, d.operating)], f) = Bias(d, f)
  BY <1>1, <1>2 DEF BiasAt, Bias
<1>4. Good(Final(d)) /\ BasePlane(d) \in DOMAIN Final(d) /\ ~Final(d)[BasePlane(d)].derived
  BY <1>1, PlanesIs DEF SamePath
<1>5. BiasAt(Final(d)[BasePlane(d)], f) \in Int
  BY <1>4, BiasNumber
<1>6. \A a : Artifact(d, a) => SourceBiasAt(a, f) = Bias(d, f)
  BY DEF Artifact, SourceBiasAt, Bias
<1> QED
  BY <1>1, <1>3, <1>5, <1>6

\* What a level at the operating plane's curve inverts to on the script, and the
\* level that a moving limit leaves there.
OnScript(a, level) == InterpExtrap(level, Flipped(a.curve), a.mode)
ScriptLevel(d, l, f) ==
  l.max - SumAt(HopTables(BuildPlanes(d), l.plane), f) - Reading(d, l.via) - Bias(d, f)
\* It is what the script takes a published limit to demand.
LEMMA ScriptLimitIs ==
  ASSUME NEW d, Fit(d), NEW a, Artifact(d, a), NEW f \in Freqs,
         NEW l \in Moving(d), NEW pl, Publishes(d, l, pl)
  PROVE  ScriptLevel(d, l, f) \in Int /\ CeilingOf(a, pl, f) = OnScript(a, ScriptLevel(d, l, f))
<1> DEFINE ts == HopTables(BuildPlanes(d), l.plane)
           sum == SumAt(ts, f)
           k == Reading(d, l.via)
           level == ScriptLevel(d, l, f)
<1>0. f \in Int
  BY AskedAssumption
<1>1. l.max \in Int /\ l.via \in BOOLEAN /\ l.plane \in LimitPlanes(d, BuildPlanes(d))
  BY LimitsAre DEF Moving
<1>2. EvalTable(pl.delta, f) = sum
  BY <1>1 DEF Publishes, Fit, ExactLoss
<1>3. sum \in Int
  <2>1. l.plane \in GaugedPlanes(d)
    BY <1>1 DEF GaugedPlanes
  <2> QED
    BY <1>0, <2>1, GaugeIs, SumAtIs
<1>4. /\ (IF pl.via THEN a.limiting ELSE 0) = k /\ k \in Int
      /\ SourceBiasAt(a, f) = Bias(d, f) /\ Bias(d, f) \in Int
  <2>1. a.limiting = d.limiting.k /\ d.limiting.k \in Int
    BY DEF Artifact, Fit, Whole
  <2>2. SourceBiasAt(a, f) = Bias(d, f) /\ Bias(d, f) \in Int
    BY <1>0, BiasBothEnds
  <2> QED
    BY <1>1, <2>1, <2>2 DEF Publishes, Reading
<1>5. pl.curve = <<>> /\ pl.max = l.max
  BY DEF Publishes
<1> DEFINE target == pl.max - EvalTable(pl.delta, f) - IF pl.via THEN a.limiting ELSE 0
<1>6. CeilingOf(a, pl, f) = Invert(a, target - SourceBiasAt(a, f))
  BY <1>5 DEF CeilingOf
<1>7. level = l.max - sum - k - Bias(d, f)
  BY DEF ScriptLevel
<1> HIDE DEF sum, k, level
<1>8. target = l.max - sum - k
  BY <1>2, <1>4, <1>5
<1> HIDE DEF target
<1>9. target - SourceBiasAt(a, f) = level /\ level \in Int
  BY <1>1, <1>3, <1>4, <1>7, <1>8
<1>10. CeilingOf(a, pl, f) = OnScript(a, level)
  BY <1>6, <1>9 DEF Invert, OnScript
<1> QED
  BY <1>9, <1>10 DEF level

\* The ceiling of the script is a number and at most that of the artifact, of
\* each moving limit and of the cap.
LEMMA ScriptCeilingIs ==
  ASSUME NEW d, Fit(d), NEW a, Written(d, a), NEW f \in Freqs
  PROVE  /\ f \in Int /\ f # NoFreq /\ ScriptCeiling(a, f) \in Int
         /\ a.curve \in Points /\ IsCurve(a.curve)
         /\ ScriptCeiling(a, f) <= a.ceiling
         /\ \A l \in Moving(d) :
              LET level == l.max - SumAt(HopTables(BuildPlanes(d), l.plane), f) - Reading(d, l.via)
                             - Bias(d, f)
              IN level \in Int /\ ScriptCeiling(a, f) <= OnScript(a, level)
         /\ d.limiting.cap # Inf =>
              ScriptCeiling(a, f) <= OnScript(a, d.limiting.cap - d.limiting.k - Bias(d, f))
<1> DEFINE S == a.limits
           h == [pl \in S |-> CeilingOf(a, pl, f)]
           H == {h[pl] : pl \in S}
           cap == Invert(a, a.cap - a.limiting - SourceBiasAt(a, f))
           W == IF a.cap = Inf THEN {} ELSE {cap}
           level(l) == l.max - SumAt(HopTables(BuildPlanes(d), l.plane), f) - Reading(d, l.via) - Bias(d, f)
<1>1. f \in Int /\ f # NoFreq
  BY AskedAssumption DEF NoFreq
<1>2. Artifact(d, a)
  BY DEF Written
<1>3. a.curve \in Points /\ IsCurve(a.curve)
  <2> DEFINE m == BuildPlanes(d)[Gauge(d, d.operating)]
  <2>1. d.operating \in GaugedPlanes(d)
    BY DEF GaugedPlanes
  <2>2. m.curve \in Points /\ IsCurve(m.curve) /\ m.offset \in Int
    BY <2>1, GaugeIs
  <2>3. a.curve = Shifted(m.curve, m.offset)
    BY <1>2 DEF Artifact
  <2> HIDE DEF m
  <2> QED
    BY <2>2, <2>3, ShiftedIs
<1>4. \A x \in Int : OnScript(a, x) \in Int
  <2>1. Flipped(a.curve) \in Points /\ IsTable(Flipped(a.curve))
    BY <1>3, FlippedCurve DEF IsCurve
  <2> QED
    BY <2>1, InterpNumber DEF OnScript
<1>5. SourceBiasAt(a, f) = Bias(d, f) /\ Bias(d, f) \in Int
  BY <1>1, <1>2, BiasBothEnds
<1>6. /\ a.limiting = d.limiting.k /\ a.cap = d.limiting.cap /\ a.ceiling \in Int
      /\ d.limiting.k \in Int /\ d.limiting.cap \in Int
  BY <1>2 DEF Artifact, Fit, Whole
<1>7. ASSUME NEW l \in Moving(d), NEW pl \in S, Publishes(d, l, pl)
      PROVE  level(l) \in Int /\ CeilingOf(a, pl, f) = OnScript(a, level(l))
  <2>1. level(l) = ScriptLevel(d, l, f)
    BY DEF ScriptLevel
  <2> HIDE DEF level
  <2> QED
    BY <1>2, <1>7, <2>1, ScriptLimitIs
<1> HIDE DEF level
<1>8. \A pl \in S : h[pl] = CeilingOf(a, pl, f) /\ h[pl] \in Int
  <2>1. \A pl \in S : h[pl] = CeilingOf(a, pl, f)
    OBVIOUS
  <2> HIDE DEF h, S
  <2>2. \A pl \in S : \E l \in Moving(d) : Publishes(d, l, pl)
    BY DEF Written, S
  <2> QED
    BY <1>4, <1>7, <2>1, <2>2
<1>9. IsFiniteSet(S)
  BY DEF Written
<1>10. cap \in Int /\ cap = OnScript(a, d.limiting.cap - d.limiting.k - Bias(d, f))
  <2>1. d.limiting.cap - d.limiting.k - Bias(d, f) \in Int
    BY <1>5, <1>6
  <2>2. cap = OnScript(a, d.limiting.cap - d.limiting.k - Bias(d, f))
    BY <1>5, <1>6 DEF Invert, OnScript
  <2> HIDE DEF cap
  <2> QED
    BY <1>4, <2>1, <2>2
<1> HIDE DEF cap
<1>11. W \in SUBSET Int /\ IsFiniteSet(W)
  BY <1>10, FS_EmptySet, FS_Singleton
<1>12. ScriptCeiling(a, f) = Min(All(a.ceiling, S, h, W))
  <2>1. H = {CeilingOf(a, pl, f) : pl \in S}
    OBVIOUS
  <2>2. All(a.ceiling, S, h, W) = {a.ceiling} \cup H \cup W
    BY DEF All
  <2> HIDE DEF H
  <2> QED
    BY <2>1, <2>2 DEF ScriptCeiling, cap
<1>13. d.limiting.cap # Inf => cap \in W
  BY <1>6
<1> HIDE DEF S, h, W
<1>14. /\ Min(All(a.ceiling, S, h, W)) \in Int /\ Min(All(a.ceiling, S, h, W)) <= a.ceiling
       /\ \A pl \in S : Min(All(a.ceiling, S, h, W)) <= h[pl]
       /\ \A w \in W : Min(All(a.ceiling, S, h, W)) <= w
  BY <1>6, <1>8, <1>9, <1>11, Tightest
<1> DEFINE c == ScriptCeiling(a, f)
<1>15. /\ c \in Int /\ c <= a.ceiling
       /\ \A pl \in S : c <= h[pl]
       /\ \A w \in W : c <= w
  <2> HIDE DEF c
  <2> QED
    BY <1>12, <1>14 DEF c
<1> HIDE DEF c
<1>16. ASSUME NEW l \in Moving(d) PROVE level(l) \in Int /\ c <= OnScript(a, level(l))
  <2>1. PICK pl \in S : Publishes(d, l, pl)
    BY DEF Written, S
  <2> QED
    BY <1>7, <1>8, <1>15, <2>1
<1>17. d.limiting.cap # Inf => c <= OnScript(a, d.limiting.cap - d.limiting.k - Bias(d, f))
  BY <1>10, <1>13, <1>15
<1> QED
  BY <1>1, <1>3, <1>15, <1>16, <1>17 DEF c, level

\* The gain the script chooses is capped by its ceiling, with the components
\* where the agent put them or pinned.
LEMMA ScriptGains ==
  ASSUME NEW d, Fit(d), NEW a, Written(d, a), NEW f \in Freqs, NEW p \in Int, NEW pin \in Int
  PROVE  /\ Capped(GainForPower(a, p, f), d.min, ScriptCeiling(a, f), d.step)
         /\ Capped(GainForPinned(a, p, f, pin), d.min, ScriptCeiling(a, f), d.step)
         /\ PinnedApplied(a, p, f) \in Int
<1> DEFINE c == ScriptCeiling(a, f)
           shift == OpDelta(a, f) + SourceBiasAt(a, f)
           C == [curve |-> a.curve, mode |-> a.mode, shift |-> shift, min |-> a.min, ceiling |-> c,
                 step |-> a.step, actives |-> a.actives]
<1>1. f \in Int /\ f # NoFreq /\ c \in Int /\ a.curve \in Points /\ IsCurve(a.curve)
  BY ScriptCeilingIs
<1>2. Artifact(d, a)
  BY DEF Written
<1>3. /\ a.min = d.min /\ a.step = d.step /\ a.actives = Actives(d) /\ Tables(a.hops)
      /\ a.reported = d.reported.k
  BY <1>2 DEF Artifact
<1>4. d.min \in Int /\ d.step \in Nat /\ d.reported.k \in Int
  BY DEF Fit, Whole
<1>5. SourceBiasAt(a, f) \in Int /\ OpDelta(a, f) \in Int
  BY <1>1, <1>2, <1>3, BiasBothEnds, SumAtIs DEF OpDelta
<1>6. shift \in Int
  BY <1>5
<1>7. EffFreq(a, f) = f
  BY <1>1 DEF EffFreq
<1> HIDE DEF c, shift
<1>8. Components(Actives(d)) /\ IsFiniteSet(DOMAIN Actives(d))
  <2>1. \E r : Resolution(d, r)
    BY ResolveIs DEF Resolution
  <2> QED
    BY <2>1, ActivesIs
<1>9. /\ C.curve = a.curve /\ C.shift = shift /\ C.min = d.min /\ C.ceiling = c /\ C.step = d.step
      /\ C.actives = Actives(d)
  BY <1>3
<1>10. ScriptGrid(a, f) = NewGrid(C)
  BY <1>7 DEF ScriptGrid, c, shift
<1> HIDE DEF C
<1>11. IsChain(C)
  BY <1>1, <1>4, <1>6, <1>8, <1>9 DEF IsChain
<1> DEFINE s == Realize(ScriptGrid(a, f), p - a.reported)
<1>12. /\ Capped(s.gain, d.min, c, d.step)
       /\ DOMAIN s.applied = DOMAIN Actives(d)
       /\ \A i \in DOMAIN s.applied : s.applied[i] \in Int
  <2>1. p - a.reported \in Int
    BY <1>3, <1>4
  <2> DEFINE q == p - a.reported
             t == Realize(NewGrid(C), q)
  <2> HIDE DEF q
  <2>2. /\ Capped(t.gain, C.min, C.ceiling, C.step)
        /\ DOMAIN t.applied = DOMAIN C.actives
        /\ \A i \in DOMAIN C.actives : t.applied[i] \in Int /\ t.applied[i] <= 0
    BY <1>11, <2>1, RealizeIs DEF q
  <2>3. s = t
    BY <1>10 DEF q
  <2> HIDE DEF s, t
  <2> QED
    BY <1>9, <2>2, <2>3
<1>13. \A g \in Int : Capped(SnapGain(a, g, f), d.min, c, d.step)
  <2> TAKE g \in Int
  <2> DEFINE B == [min |-> a.min, ceiling |-> c, step |-> a.step]
  <2>1. SnapGain(a, g, f) = OnGrid(g, d.min, c, d.step, "nearest")
    BY <1>3 DEF SnapGain, GridGain, c
  <2> QED
    BY <1>1, <1>4, <2>1, OnGridCapped DEF c
<1>14. \A x \in Int : Invert(a, x) \in Int
  <2>1. Flipped(a.curve) \in Points /\ IsTable(Flipped(a.curve))
    BY <1>1, FlippedCurve DEF IsCurve
  <2> QED
    BY <2>1, InterpNumber DEF Invert
<1>15. Capped(GainForPower(a, p, f), d.min, c, d.step)
  <2> DEFINE x == p - a.reported - OpDelta(a, f) - SourceBiasAt(a, f)
  <2>1. x \in Int
    BY <1>3, <1>4, <1>5
  <2>2. GainForPower(a, p, f) = IF a.actives # <<>> THEN s.gain ELSE SnapGain(a, Invert(a, x), f)
    BY <1>7 DEF GainForPower
  <2> HIDE DEF x, s
  <2> QED
    BY <1>12, <1>13, <1>14, <2>1, <2>2
<1>16. Capped(GainForPinned(a, p, f, pin), d.min, c, d.step)
  <2> DEFINE x == p - a.reported - OpDelta(a, f) - SourceBiasAt(a, f) - pin
  <2>1. x \in Int
    BY <1>3, <1>4, <1>5
  <2>2. GainForPinned(a, p, f, pin) = SnapGain(a, Invert(a, x), f)
    BY <1>7 DEF GainForPinned
  <2> HIDE DEF x
  <2> QED
    BY <1>13, <1>14, <2>1, <2>2
<1>17. PinnedApplied(a, p, f) \in Int
  <2>1. PinnedApplied(a, p, f) = IF a.actives = <<>> THEN 0 ELSE SumOf(DOMAIN s.applied, s.applied)
    BY DEF PinnedApplied, Total, SumOf
  <2> HIDE DEF s
  <2>2. SumOf(DOMAIN s.applied, s.applied) \in Int
    BY <1>8, <1>12, SumOfIs
  <2> QED
    BY <2>1, <2>2
<1> QED
  BY <1>15, <1>16, <1>17 DEF c

-----------------------------------------------------------------------------
(* The limits hold.                                                        *)

\* The level at a plane with the components adding nothing.
CurveAt(d, p) == BuildPlanes(d)[Gauge(d, p)].curve
LevelAt(d, p, g, f) ==
  InterpExtrap(g, CurveAt(d, p), BuildPlanes(d)[Gauge(d, p)].mode)
    + BuildPlanes(d)[Gauge(d, p)].offset + BiasAt(Final(d)[Gauge(d, p)], f)
    + SumAt(HopTables(BuildPlanes(d), p), f)
\* It is a number, and what _power_on gives for the measured reading.
LEMMA LevelIs ==
  ASSUME NEW d, Fit(d), NEW p \in GaugedPlanes(d), NEW g \in Int, NEW f \in Int
  PROVE  /\ CurveAt(d, p) \in Points /\ IsCurve(CurveAt(d, p))
         /\ InterpExtrap(g, CurveAt(d, p), BuildPlanes(d)[Gauge(d, p)].mode) \in Int
         /\ BuildPlanes(d)[Gauge(d, p)].offset \in Int
         /\ BiasAt(Final(d)[Gauge(d, p)], f) \in Int
         /\ SumAt(HopTables(BuildPlanes(d), p), f) \in Int
         /\ LevelAt(d, p, g, f) \in Int
         /\ PowerOn(Final(d), p, g, f, "measured") = LevelAt(d, p, g, f)
<1> DEFINE P == Final(d)
           h == Gauge(d, p)
           m == BuildPlanes(d)[h]
           curve == CurveAt(d, p)
           sum == SumAt(HopTables(BuildPlanes(d), p), f)
           bias == BiasAt(P[h], f)
           level == InterpExtrap(g, curve, m.mode)
<1>1. SamePath(BuildPlanes(d), P) /\ Good(P) /\ DOMAIN BuildPlanes(d) = Names(d)
  BY PlanesIs
<1>2. /\ h \in Names(d) /\ ~m.derived /\ curve \in Points /\ IsCurve(curve) /\ m.offset \in Int
      /\ Tables(HopTables(BuildPlanes(d), p))
      /\ AnchorPlane(P, p, FALSE) = h
      /\ P[h].curve = curve /\ P[h].mode = m.mode /\ P[h].offset = m.offset
      /\ HopTables(P, p) = HopTables(BuildPlanes(d), p)
  BY <1>1, GaugeIs DEF CurveAt
<1>3. sum \in Int
  BY <1>2, SumAtIs
<1>4. bias \in Int
  <2>1. h \in DOMAIN P /\ ~P[h].derived
    BY <1>1, <1>2 DEF SamePath
  <2> HIDE DEF h, P
  <2> QED
    BY <1>1, <2>1, BiasNumber
<1>5. level \in Int
  <2> HIDE DEF curve, m
  <2> QED
    BY <1>2, InterpNumber DEF IsCurve
<1>6. LevelAt(d, p, g, f) = level + m.offset + bias + sum
  BY DEF LevelAt
<1>7. PowerOn(P, p, g, f, "measured") = level + m.offset + bias + sum
  <2>1. CurveFor(P[h], "measured") = curve
    BY <1>2 DEF CurveFor
  <2> HIDE DEF P, h, m, curve
  <2> QED
    BY <1>2, <2>1 DEF PowerOn
<1> HIDE DEF level, bias, sum, m
<1>8. LevelAt(d, p, g, f) \in Int
  BY <1>2, <1>3, <1>4, <1>5, <1>6
<1> QED
  BY <1>2, <1>3, <1>4, <1>5, <1>6, <1>7, <1>8 DEF level, bias, sum, m

\* What CeilingIs and GaugeIs say of the planes with the readings in place.
LEMMA CeilingBare ==
  ASSUME NEW d, Fit(d), NEW p \in GaugedPlanes(d), NEW max \in Int, NEW via \in BOOLEAN
  PROVE  /\ LevelLeft(d, Read(d), p, max, via, NoFreq) \in Int
         /\ CeilingFor(d, Read(d), p, max, via, NoFreq) =
              InterpExtrap(LevelLeft(d, Read(d), p, max, via, NoFreq), Flipped(CurveAt(d, p)),
                           BuildPlanes(d)[Gauge(d, p)].mode)
         /\ CeilingFor(d, Read(d), p, max, via, NoFreq) \in Int
         /\ AnchorPlane(Read(d), p, TRUE) = Gauge(d, p)
         /\ HopTables(Read(d), p) = HopTables(BuildPlanes(d), p)
         /\ Gauge(d, p) \in Names(d) /\ ~BuildPlanes(d)[Gauge(d, p)].derived
         /\ Tables(HopTables(BuildPlanes(d), p))
<1>1. NoFreq \in Int
  BY DEF NoFreq
<1>2. SamePath(BuildPlanes(d), Read(d)) /\ Good(Read(d))
  BY PlanesIs
<1>3. PICK Q : Q = Read(d)
  OBVIOUS
<1>4. PICK f \in Int : f = NoFreq
  BY <1>1
<1>5. SamePath(BuildPlanes(d), Q) /\ Good(Q)
  BY <1>2, <1>3
<1>6. /\ LevelLeft(d, Q, p, max, via, f) \in Int
      /\ CeilingFor(d, Q, p, max, via, f) =
           InterpExtrap(LevelLeft(d, Q, p, max, via, f),
                        Flipped(BuildPlanes(d)[Gauge(d, p)].curve), BuildPlanes(d)[Gauge(d, p)].mode)
      /\ CeilingFor(d, Q, p, max, via, f) \in Int
  BY <1>5, CeilingIs
<1>7. /\ AnchorPlane(Q, p, TRUE) = Gauge(d, p)
      /\ HopTables(Q, p) = HopTables(BuildPlanes(d), p)
      /\ Gauge(d, p) \in Names(d) /\ ~BuildPlanes(d)[Gauge(d, p)].derived
      /\ Tables(HopTables(BuildPlanes(d), p))
  BY <1>5, GaugeIs
<1> QED
  BY <1>3, <1>4, <1>6, <1>7 DEF CurveAt

\* A fixed limit holds under the fixed ceiling, at every frequency.
LEMMA FixedSafe ==
  ASSUME NEW d, Fit(d), NEW l \in FixedLimits(d), NEW g \in Int, NEW f \in Int,
         g <= FixedCeiling(d), g > X(CurveAt(d, l.plane), 1)
  PROVE  LevelAt(d, l.plane, g, f) + Reading(d, l.via) <= l.max
<1> DEFINE p == l.plane
           h == Gauge(d, p)
           m == BuildPlanes(d)[h]
           ts == HopTables(BuildPlanes(d), p)
           left == LevelLeft(d, Read(d), p, l.max, l.via, NoFreq)
           level == InterpExtrap(g, CurveAt(d, p), m.mode)
           k == Reading(d, l.via)
<1>1. l \in LimitsOf(d, Read(d)) /\ ~AtRunTime(d, Read(d), p)
  BY DEF FixedLimits
<1>2. p \in GaugedPlanes(d) /\ l.max \in Int /\ l.via \in BOOLEAN
  BY <1>1, LimitsAre DEF GaugedPlanes
<1>3. NoFreq \in Int
  BY DEF NoFreq
<1>4. SamePath(BuildPlanes(d), Read(d)) /\ Good(Read(d))
  BY PlanesIs
<1>5. /\ left \in Int
      /\ CeilingFor(d, Read(d), p, l.max, l.via, NoFreq) = InterpExtrap(left, Flipped(CurveAt(d, p)), m.mode)
      /\ CeilingFor(d, Read(d), p, l.max, l.via, NoFreq) \in Int
  <2> HIDE DEF p
  <2> QED
    BY <1>2, CeilingBare
<1>6. FixedCeiling(d) \in Int /\ FixedCeiling(d) <= CeilingFor(d, Read(d), p, l.max, l.via, NoFreq)
  BY FixedCeilingIs
<1>7. /\ CurveAt(d, p) \in Points /\ IsCurve(CurveAt(d, p)) /\ level \in Int
      /\ m.offset \in Int /\ SumAt(ts, f) \in Int
      /\ LevelAt(d, p, g, f) = level + m.offset + BiasAt(Final(d)[h], f) + SumAt(ts, f)
  BY <1>2, LevelIs DEF LevelAt
<1>8. level <= left
  <2> HIDE DEF left, level, p, h, m
  <2>1. g <= InterpExtrap(left, Flipped(CurveAt(d, p)), m.mode)
    BY <1>5, <1>6
  <2>2. g > X(CurveAt(d, p), 1)
    BY DEF p
  <2> QED
    BY <1>5, <1>7, <2>1, <2>2, InverseSafe DEF level
<1>9. /\ h \in Names(d) /\ ~m.derived /\ Tables(ts)
      /\ AnchorPlane(Read(d), p, TRUE) = h /\ HopTables(Read(d), p) = ts
  <2> HIDE DEF p
  <2> QED
    BY <1>2, CeilingBare
<1>10. SumAt(ts, NoFreq) = SumAt(ts, f)
  <2>1. AllBreakpoints(ts) = {}
    <3>1. ~PathFreqDependent(Read(d), p)
      BY <1>1 DEF AtRunTime
    <3> HIDE DEF ts
    <3> QED
      BY <1>9, <3>1 DEF PathFreqDependent
  <2> HIDE DEF ts
  <2> QED
    BY <1>9, <2>1, SumAtIs
<1>11. Read(d)[h].bias = <<>> /\ Final(d)[h].bias = <<>>
  <2>1. /\ Read(d)[h].bias = <<>>
        /\ Final(d)[h].bias = IF h = BasePlane(d) THEN Zeroed(d) ELSE <<>>
        /\ d.bias # <<>> => SourcePlane(d, Read(d)) = BasePlane(d)
    BY <1>9, PlanesIs
  <2>2. d.bias = <<>> \/ AnchorPlane(Read(d), p, TRUE) # SourcePlane(d, Read(d))
    BY <1>1 DEF AtRunTime
  <2>3. d.bias = <<>> => Zeroed(d) = <<>>
    BY BiasIs DEF Fit, Whole, Zeroed
  <2> HIDE DEF h
  <2> QED
    BY <1>9, <2>1, <2>2, <2>3
<1>12. BiasAt(Read(d)[h], NoFreq) = 0 /\ BiasAt(Final(d)[h], f) = 0
  BY <1>11 DEF BiasAt
<1>13. k \in Int
  BY <1>2 DEF Reading, Fit, Whole
<1>14. left = l.max - k - SumAt(ts, NoFreq) - m.offset - BiasAt(Read(d)[h], NoFreq)
  BY DEF LevelLeft
<1> HIDE DEF left, level, k, ts, m, h
<1>15. left = l.max - k - SumAt(ts, f) - m.offset - 0
  BY <1>10, <1>12, <1>14
<1>16. LevelAt(d, p, g, f) = level + m.offset + 0 + SumAt(ts, f)
  BY <1>7, <1>12
<1> DEFINE v == LevelAt(d, p, g, f)
           z == SumAt(ts, f)
           o == m.offset
<1>17. v = level + o + 0 + z /\ left = l.max - k - z - o - 0 /\ o \in Int /\ z \in Int
  BY <1>7, <1>15, <1>16
<1> HIDE DEF v, z, o
<1>18. v + k <= l.max
  BY <1>2, <1>5, <1>7, <1>8, <1>13, <1>17
<1> QED
  BY <1>18 DEF v, k

\* On the script's side a level stays at most what is left of a limit on the
\* operating plane's curve.
LEMMA ScriptSafe ==
  ASSUME NEW d, Fit(d), NEW a, Written(d, a), NEW f \in Freqs, NEW g \in Int, NEW t \in Int,
         g > X(CurveAt(d, d.operating), 1), g <= OnScript(a, t)
  PROVE  InterpExtrap(g, CurveAt(d, d.operating), BuildPlanes(d)[Gauge(d, d.operating)].mode)
           + BuildPlanes(d)[Gauge(d, d.operating)].offset <= t
<1> DEFINE T == CurveAt(d, d.operating)
           m == BuildPlanes(d)[Gauge(d, d.operating)]
<1>1. d.operating \in GaugedPlanes(d)
  BY DEF GaugedPlanes
<1>2. T \in Points /\ IsCurve(T) /\ m.offset \in Int
  BY <1>1, GaugeIs DEF CurveAt
<1>3. a.curve = Shifted(T, m.offset) /\ a.mode = m.mode
  BY DEF Written, Artifact, CurveAt
<1> HIDE DEF T, m
<1>4. /\ a.curve \in Points /\ IsCurve(a.curve) /\ X(a.curve, 1) = X(T, 1)
  <2>1. Len(T) \in Nat /\ Len(T) # 0
    BY <1>2, FlippedPoints DEF IsCurve, IsTable
  <2>2. 1 \in 1 .. Len(T)
    BY <2>1
  <2> QED
    BY <1>2, <1>3, <2>2, ShiftedIs
<1>5. InterpExtrap(g, a.curve, a.mode) <= t
  <2>1. g > X(a.curve, 1)
    BY <1>4 DEF T
  <2>2. g <= InterpExtrap(t, Flipped(a.curve), a.mode)
    BY DEF OnScript
  <2> QED
    BY <1>4, <2>1, <2>2, InverseSafe
<1>6. InterpExtrap(g, a.curve, a.mode) = InterpExtrap(g, T, m.mode) + m.offset
  BY <1>2, <1>3, ShiftedLevel DEF IsCurve
<1> QED
  BY <1>5, <1>6 DEF T, m

\* A moving limit holds under the ceiling of the script where it transmits.
LEMMA MovingSafe ==
  ASSUME NEW d, Fit(d), NEW a, Written(d, a), NEW f \in Freqs, NEW l \in Moving(d), NEW g \in Int,
         g <= ScriptCeiling(a, f), g > X(CurveAt(d, l.plane), 1)
  PROVE  LevelAt(d, l.plane, g, f) + Reading(d, l.via) <= l.max
<1> DEFINE p == l.plane
           o == d.operating
           m == BuildPlanes(d)[Gauge(d, o)]
           sum == SumAt(HopTables(BuildPlanes(d), p), f)
           k == Reading(d, l.via)
           t == l.max - sum - k - Bias(d, f)
           level == InterpExtrap(g, CurveAt(d, o), m.mode)
<1>1. Gauge(d, p) = Gauge(d, o)
  BY DEF Written
<1>2. p \in GaugedPlanes(d) /\ o \in GaugedPlanes(d) /\ l.max \in Int /\ l.via \in BOOLEAN
  BY LimitsAre DEF Moving, GaugedPlanes
<1>3. /\ f \in Int /\ ScriptCeiling(a, f) \in Int
      /\ t \in Int /\ ScriptCeiling(a, f) <= OnScript(a, t)
      /\ a.curve \in Points /\ IsCurve(a.curve)
  BY ScriptCeilingIs
<1>4. Bias(d, f) \in Int /\ BiasAt(Final(d)[Gauge(d, o)], f) = Bias(d, f)
  BY <1>3, BiasBothEnds
<1>5. /\ level \in Int /\ m.offset \in Int
      /\ sum \in Int
      /\ LevelAt(d, p, g, f) = level + m.offset + Bias(d, f) + sum
  <2>1. InterpExtrap(g, CurveAt(d, o), m.mode) \in Int /\ m.offset \in Int
    BY <1>2, <1>3, LevelIs
  <2>2. sum \in Int
    BY <1>2, <1>3, LevelIs
  <2>3. LevelAt(d, p, g, f) = level + m.offset + Bias(d, f) + sum
    BY <1>1, <1>4 DEF LevelAt, CurveAt
  <2> QED
    BY <2>1, <2>2, <2>3
<1>6. OnScript(a, t) \in Int
  <2>1. Flipped(a.curve) \in Points /\ IsTable(Flipped(a.curve))
    BY <1>3, FlippedCurve DEF IsCurve
  <2> QED
    BY <1>3, <2>1, InterpNumber DEF OnScript
<1>7. level + m.offset <= t
  <2>1. CurveAt(d, p) = CurveAt(d, o)
    BY <1>1 DEF CurveAt
  <2>2. g > X(CurveAt(d, o), 1)
    BY <2>1
  <2> HIDE DEF t, level, m
  <2>3. g <= OnScript(a, t)
    BY <1>3, <1>6
  <2> QED
    BY <1>3, <2>2, <2>3, ScriptSafe DEF level, m
<1>8. k \in Int
  BY <1>2 DEF Reading, Fit, Whole
<1> DEFINE v == LevelAt(d, p, g, f)
           b == Bias(d, f)
           off == m.offset
<1>9. v = level + off + b + sum /\ t = l.max - sum - k - b /\ level + off <= t /\ b \in Int
      /\ off \in Int
  BY <1>4, <1>5, <1>7
<1> HIDE DEF v, b, off, sum, k, t, level
<1>10. v + k <= l.max
  BY <1>2, <1>5, <1>8, <1>9
<1> QED
  BY <1>10 DEF v, k

\* And so does the cap of the limiting reading, at the operating plane.
LEMMA CapSafe ==
  ASSUME NEW d, Fit(d), NEW a, Written(d, a), NEW f \in Freqs, NEW g \in Int,
         g <= ScriptCeiling(a, f), g > X(CurveAt(d, d.operating), 1), d.limiting.cap # Inf
  PROVE  LevelAt(d, d.operating, g, f) + d.limiting.k <= d.limiting.cap
<1> DEFINE o == d.operating
           m == BuildPlanes(d)[Gauge(d, o)]
           sum == SumAt(HopTables(BuildPlanes(d), o), f)
           k == d.limiting.k
           t == d.limiting.cap - k - Bias(d, f)
           level == InterpExtrap(g, CurveAt(d, o), m.mode)
<1>1. o \in GaugedPlanes(d) /\ d.limiting.cap \in Int /\ k \in Int
  BY DEF GaugedPlanes, Fit, Whole
<1>2. /\ f \in Int /\ ScriptCeiling(a, f) \in Int
      /\ ScriptCeiling(a, f) <= OnScript(a, t)
      /\ a.curve \in Points /\ IsCurve(a.curve)
  BY ScriptCeilingIs
<1>3. Bias(d, f) \in Int /\ BiasAt(Final(d)[Gauge(d, o)], f) = Bias(d, f)
  BY <1>2, BiasBothEnds
<1>4. t \in Int
  <2> HIDE DEF k
  <2> QED
    BY <1>1, <1>3
<1>5. /\ level \in Int /\ m.offset \in Int
      /\ sum \in Int
      /\ LevelAt(d, o, g, f) = level + m.offset + Bias(d, f) + sum
  <2>1. InterpExtrap(g, CurveAt(d, o), m.mode) \in Int /\ m.offset \in Int /\ sum \in Int
    BY <1>1, <1>2, LevelIs
  <2>2. LevelAt(d, o, g, f) = level + m.offset + Bias(d, f) + sum
    BY <1>3 DEF LevelAt
  <2> QED
    BY <2>1, <2>2
<1>6. OnScript(a, t) \in Int
  <2>1. Flipped(a.curve) \in Points /\ IsTable(Flipped(a.curve))
    BY <1>2, FlippedCurve DEF IsCurve
  <2> QED
    BY <1>4, <2>1, InterpNumber DEF OnScript
<1>7. level + m.offset <= t
  <2> HIDE DEF t, level, m
  <2>1. g <= OnScript(a, t)
    BY <1>2, <1>6
  <2> QED
    BY <1>4, <2>1, ScriptSafe DEF level, m
<1>8. sum <= 0
  BY DEF Fit, CapAhead
<1> DEFINE v == LevelAt(d, o, g, f)
           b == Bias(d, f)
           off == m.offset
<1>9. v = level + off + b + sum /\ t = d.limiting.cap - k - b /\ level + off <= t /\ b \in Int
      /\ off \in Int
  BY <1>3, <1>5, <1>7
<1> HIDE DEF v, b, off, sum, k, t, level
<1>10. v + k <= d.limiting.cap
  BY <1>1, <1>5, <1>8, <1>9
<1> QED
  BY <1>10 DEF v, k

-----------------------------------------------------------------------------
(* The components.                                                         *)

\* Each component applies a number that takes power away, or nothing.
Lowering(d, settings) ==
  /\ DOMAIN settings = DOMAIN ActiveOf(d)
  /\ \A i \in DOMAIN ActiveOf(d) : settings[i] \in Int /\ settings[i] <= 0

\* At rest they do, and wherever a request moves them.
LEMMA SettingsIs ==
  ASSUME NEW d, Fit(d), NEW r, Resolution(d, r)
  PROVE  /\ Lowering(d, Resting(r))
         /\ \A f \in Freqs, p \in Int : Lowering(d, SettingsOf(r, f, p))
<1>1. /\ ActiveHops(r) = ActiveOf(d) /\ DOMAIN Actives(d) = DOMAIN ActiveOf(d)
      /\ Components(Actives(d)) /\ r.planes = Final(d)
  BY ActivesIs DEF Resolution
<1>2. Lowering(d, Resting(r))
  <2>1. Resting(r) = [i \in DOMAIN ActiveOf(d) |-> Actives(d)[i].hi]
    BY <1>1 DEF Resting, Actives
  <2>2. ASSUME NEW i \in DOMAIN ActiveOf(d)
        PROVE  Actives(d)[i].hi \in Int /\ Actives(d)[i].hi <= 0
    BY <1>1 DEF Components, IsComponent
  <2> QED
    BY <2>1, <2>2 DEF Lowering
<1>3. ASSUME NEW f \in Freqs, NEW p \in Int
      PROVE  Lowering(d, SettingsOf(r, f, p))
  <2>1. f \in Int /\ f # NoFreq
    BY AskedAssumption DEF NoFreq
  <2>2. PICK C : IsChain(C) /\ C.actives = Actives(d) /\ GridAt(r, f) = NewGrid(C)
    BY <2>1, GridAtIs
  <2>3. ReportedDelta(r) \in Int
    BY DEF ReportedDelta, Resolution, Fit, Whole
  <2>4. PICK x \in Int : x = p - ReportedDelta(r)
    BY <2>3
  <2> DEFINE s == Realize(NewGrid(C), x)
  <2>5. /\ DOMAIN s.applied = DOMAIN C.actives
        /\ \A i \in DOMAIN C.actives : s.applied[i] \in Int /\ s.applied[i] <= 0
    BY <2>2, RealizeIs
  <2>6. SettingsOf(r, f, p) = s.applied
    BY <2>2, <2>4 DEF SettingsOf
  <2> HIDE DEF s
  <2> QED
    BY <1>1, <2>2, <2>5, <2>6 DEF Lowering
<1> QED
  BY <1>2, <1>3

-----------------------------------------------------------------------------
(* The limits hold in a state.                                             *)

\* A gain above the least one the limits can demand is above the least of the
\* SDR and the lowest that was measured for any plane a limit is gauged on.
LEMMA LeastGainIs ==
  ASSUME NEW d, Fit(d), Resolution(d, Unit)
  PROVE  /\ LeastGain \in Int
         /\ LeastOn(d.min, d.step) \in Int /\ LeastOn(d.min, d.step) <= LeastGain
         /\ \A p \in GaugedPlanes(d) : X(CurveAt(d, p), 1) \in Int /\ X(CurveAt(d, p), 1) <= LeastGain
<1> DEFINE P == Final(d)
           S == {q \in DOMAIN P : ~P[q].derived /\ P[q].curve # <<>>}
           xs == [q \in S |-> X(P[q].curve, 1)]
           V == {xs[q] : q \in S}
           least == LeastOn(d.min, d.step)
<1>1. doc = d /\ Planes = P
  BY DEF doc, Planes, Resolution
<1>2. SamePath(BuildPlanes(d), P) /\ Good(P) /\ DOMAIN P = Names(d)
  BY PlanesIs DEF SamePath
<1>3. ASSUME NEW q \in S PROVE X(P[q].curve, 1) \in Int
  <2>1. P[q].curve \in Points /\ P[q].curve # <<>>
    BY <1>2 DEF Good, GoodGauge
  <2> DEFINE T == P[q].curve
  <2> HIDE DEF T
  <2>2. T \in Points /\ Len(T) \in Nat /\ Len(T) # 0
    BY <2>1, FlippedPoints DEF T
  <2>3. X(T, 1) \in Int
    BY <2>2, PointOf
  <2> QED
    BY <2>3 DEF T
<1>4. IsFiniteSet(S)
  BY <1>2, FS_Subset DEF Good, Closed
<1>5. V \in SUBSET Int /\ IsFiniteSet(V)
  <2> HIDE DEF S
  <2>1. \A q \in S : xs[q] \in Int
    BY <1>3
  <2> HIDE DEF xs
  <2> QED
    BY <1>4, <2>1, ImageFinite
<1>6. ASSUME NEW p \in GaugedPlanes(d) PROVE X(CurveAt(d, p), 1) \in V
  <2> DEFINE h == Gauge(d, p)
  <2>1. /\ h \in Names(d) /\ ~BuildPlanes(d)[h].derived /\ IsCurve(BuildPlanes(d)[h].curve)
        /\ P[h].curve = BuildPlanes(d)[h].curve
    BY <1>2, GaugeIs
  <2>2. h \in S /\ P[h].curve = CurveAt(d, p)
    <3> HIDE DEF h
    <3>1. ~P[h].derived
      BY <1>2, <2>1, PlanesIs DEF SamePath
    <3>2. P[h].curve # <<>>
      BY <2>1 DEF IsCurve, IsTable
    <3>3. P[h].curve = CurveAt(d, p)
      BY <2>1 DEF CurveAt, h
    <3> QED
      BY <1>2, <2>1, <3>1, <3>2, <3>3
  <2> HIDE DEF h, S
  <2>3. xs[h] = X(CurveAt(d, p), 1)
    BY <2>2
  <2> HIDE DEF xs
  <2> QED
    BY <2>2, <2>3
<1>7. d.operating \in GaugedPlanes(d)
  BY DEF GaugedPlanes
<1>8. Max(V) \in Int /\ \A x \in V : x <= Max(V)
  <2>1. V # {}
    BY <1>6, <1>7
  <2> HIDE DEF V
  <2> QED
    BY <1>5, <2>1, MaxOf
<1>9. LeastGain = Highest(least, Max(V))
  <2>1. V = {X(P[p].curve, 1) : p \in S}
    OBVIOUS
  <2> HIDE DEF V
  <2> QED
    BY <1>1, <2>1 DEF LeastGain, LeastOn
<1>10. least \in Int
  <2>1. d.min \in Int /\ d.step \in Nat
    BY DEF Fit, Whole
  <2>2. PICK step \in Int : step = Highest(d.step, 1) /\ step > 0
    BY <2>1 DEF Highest
  <2>3. Ceil(d.min, step) \in Int
    BY <2>1, <2>2, Rounded
  <2> QED
    BY <2>2, <2>3 DEF LeastOn
<1> HIDE DEF V, least
<1>11. LeastGain \in Int /\ least <= LeastGain /\ Max(V) <= LeastGain
  BY <1>8, <1>9, <1>10 DEF Highest
<1>12. \A x \in V : x \in Int /\ x <= LeastGain
  BY <1>5, <1>8, <1>11
<1> QED
  BY <1>6, <1>10, <1>11, <1>12 DEF least

\* What is radiated at a plane a limit is gauged on is at most the level with
\* the components adding nothing.
LEMMA TrueLevelIs ==
  ASSUME NEW d, Fit(d), Resolution(d, Unit), Lowering(d, applied), NEW p \in GaugedPlanes(d),
         script.gain \in Int, script.live \in Int
  PROVE  /\ TrueLevel(p, "measured") \in Int
         /\ TrueLevel(p, "measured") <= LevelAt(d, p, script.gain, script.live)
         /\ LevelAt(d, p, script.gain, script.live) \in Int
<1> DEFINE before(i) == \E k \in DOMAIN Hops(Planes, p) : Hops(Planes, p)[k] = ActiveOf(d)[i]
           D == {i \in DOMAIN ActiveOf(d) : before(i)}
<1>1. ActiveHops(Unit) = ActiveOf(d) /\ IsFiniteSet(DOMAIN ActiveOf(d))
  BY ActivesIs
<1>2. Planes = Final(d)
  BY DEF Planes, Resolution
<1>3. TrueLevel(p, "measured")
        = PowerOn(Final(d), p, script.gain, script.live, "measured") + SumOf(D, applied)
  BY <1>1, <1>2 DEF TrueLevel, SumOf
<1>4. /\ PowerOn(Final(d), p, script.gain, script.live, "measured")
           = LevelAt(d, p, script.gain, script.live)
      /\ LevelAt(d, p, script.gain, script.live) \in Int
  BY LevelIs
<1>5. IsFiniteSet(D)
  BY <1>1, FS_Subset
<1>6. \A i \in D : applied[i] \in Int /\ applied[i] <= 0
  BY DEF Lowering
<1>7. SumOf(D, applied) \in Int /\ SumOf(D, applied) <= 0
  <2> HIDE DEF D
  <2> QED
    BY <1>5, <1>6, SumOfIs
<1> HIDE DEF D
<1> QED
  BY <1>3, <1>4, <1>7

\* The running script got its artifact from this document, transmits on one of
\* the frequencies, and has capped its gain there.
Throttled(d) ==
  script.on => /\ Written(d, script.file) /\ script.live \in Freqs
               /\ Capped(script.gain, d.min, ScriptCeiling(script.file, script.live), d.step)

\* So no limit is exceeded.
LEMMA LimitsHold ==
  ASSUME NEW d, Fit(d), Resolution(d, Unit), Lowering(d, applied), Throttled(d)
  PROVE  LimitsHeld
<1> SUFFICES ASSUME script.on, script.gain > LeastGain
             PROVE  /\ \A lim \in {l \in doc.limits : Applies(doc, l)} :
                         Gauged(LimitPlane(doc, Planes, lim)) <= lim.max
                    /\ doc.limiting.cap # Inf =>
                         TrueLevel(doc.operating, IF doc.limiting.kind = "own" THEN "limiting" ELSE "measured")
                           + (IF doc.limiting.kind = "own" THEN 0 ELSE doc.limiting.k) <= doc.limiting.cap
  BY DEF LimitsHeld
<1> DEFINE a == script.file
           g == script.gain
           f == script.live
<1>1. doc = d /\ Planes = Final(d)
  BY DEF doc, Planes, Resolution
<1>2. Written(d, a) /\ f \in Freqs /\ Capped(g, d.min, ScriptCeiling(a, f), d.step)
  BY DEF Throttled
<1>3. f \in Int /\ ScriptCeiling(a, f) \in Int /\ ScriptCeiling(a, f) <= a.ceiling
  BY <1>2, ScriptCeilingIs
<1>4. /\ LeastGain \in Int
      /\ LeastOn(d.min, d.step) \in Int /\ LeastOn(d.min, d.step) <= LeastGain
      /\ \A p \in GaugedPlanes(d) : X(CurveAt(d, p), 1) \in Int /\ X(CurveAt(d, p), 1) <= LeastGain
  BY LeastGainIs
<1>5. g \in Int /\ g <= ScriptCeiling(a, f)
  BY <1>2, <1>4 DEF Capped
<1>6. \A p \in GaugedPlanes(d) : g > X(CurveAt(d, p), 1)
  BY <1>4, <1>5
<1>7. g <= FixedCeiling(d)
  <2>1. a.ceiling \in Int /\ Capped(a.ceiling, d.min, FixedCeiling(d), d.step)
    BY <1>2 DEF Written, Artifact
  <2>2. FixedCeiling(d) \in Int
    BY FixedCeilingIs
  <2> HIDE DEF a, g, f
  <2>3. g > LeastOn(d.min, d.step)
    BY <1>4, <1>5 DEF g
  <2> QED
    BY <1>3, <1>4, <1>5, <2>1, <2>2, <2>3 DEF Capped
<1>8. d.limiting.kind # "own" /\ d.limiting.k \in Int /\ d.limiting.cap \in Int
  BY DEF Fit, CapAhead, Whole
<1>9. ASSUME NEW p \in GaugedPlanes(d)
      PROVE  /\ TrueLevel(p, "measured") \in Int
             /\ TrueLevel(p, "measured") <= LevelAt(d, p, g, f)
             /\ LevelAt(d, p, g, f) \in Int
  BY <1>3, <1>5, TrueLevelIs
<1>10. ASSUME NEW lim \in d.limits, Applies(d, lim)
       PROVE  Gauged(LimitPlane(d, Final(d), lim)) <= lim.max
  <2>1. PICK l \in LimitsOf(d, Read(d)) :
          l.plane = LimitPlane(d, BuildPlanes(d), lim) /\ l.max = lim.max
    BY <1>10, LimitsAre
  <2>2. PICK p : p = l.plane
    OBVIOUS
  <2>3. /\ p \in LimitPlanes(d, BuildPlanes(d)) /\ l.max \in Int
        /\ l.via <=> ViaLimiting(d, BuildPlanes(d), p)
    BY <2>1, <2>2, LimitsAre
  <2>4. LimitPlane(d, Final(d), lim) = p
    BY <1>10, <2>1, <2>2, LimitPlaneIs
  <2>5. p \in GaugedPlanes(d)
    BY <2>3 DEF GaugedPlanes
  <2>6. ViaLimiting(d, Final(d), p) <=> l.via
    BY <2>3, LimitsAre, PlanesIs
  <2>7. LevelAt(d, p, g, f) + Reading(d, l.via) <= l.max
    <3>1. g > X(CurveAt(d, l.plane), 1)
      BY <1>6, <2>2, <2>5
    <3>2. CASE l \in FixedLimits(d)
      BY <1>3, <1>5, <1>7, <2>2, <3>1, <3>2, FixedSafe
    <3>3. CASE l \in Moving(d)
      BY <1>2, <1>5, <2>2, <3>1, <3>3, MovingSafe
    <3> QED
      BY <2>1, <3>2, <3>3 DEF Moving
  <2>8. Gauged(p) = TrueLevel(p, "measured") + Reading(d, l.via)
    <3>1. CASE l.via
      BY <1>1, <1>8, <2>6, <3>1 DEF Gauged, Reading
    <3>2. CASE ~l.via
      <4>1. Gauged(p) = TrueLevel(p, "measured") /\ Reading(d, l.via) = 0
        BY <1>1, <1>8, <2>6, <3>2 DEF Gauged, Reading
      <4>2. TrueLevel(p, "measured") \in Int
        BY <1>9, <2>5
      <4> QED
        BY <4>1, <4>2
    <3> QED
      BY <3>1, <3>2
  <2>9. Reading(d, l.via) \in Int
    BY <1>8 DEF Reading
  <2> HIDE DEF g, f
  <2>10. TrueLevel(p, "measured") + Reading(d, l.via) <= l.max
    BY <1>9, <2>3, <2>5, <2>7, <2>9
  <2> QED
    BY <2>1, <2>4, <2>8, <2>10
<1>11. ASSUME d.limiting.cap # Inf
       PROVE  TrueLevel(d.operating, "measured") + d.limiting.k <= d.limiting.cap
  <2>1. d.operating \in GaugedPlanes(d)
    BY DEF GaugedPlanes
  <2>2. LevelAt(d, d.operating, g, f) + d.limiting.k <= d.limiting.cap
    BY <1>2, <1>5, <1>6, <1>11, <2>1, CapSafe
  <2> HIDE DEF g, f
  <2> QED
    BY <1>8, <1>9, <2>1, <2>2
<1> QED
  BY <1>1, <1>8, <1>10, <1>11

-----------------------------------------------------------------------------
(* The inductive invariant.                                                *)

\* The document d has been resolved for every frequency, and was accepted.
ResolvedOf(d) ==
  resolved = [f \in Freqs \cup {NoFreq} |-> Resolved(d, f)] /\ resolved[NoFreq] # <<>>
\* A request is one that may be made; what is held of a task is known once it
\* is launched, and of a running script what it was launched or tuned with.
Asked ==
  /\ request \in {NoRequest} \cup Launches \cup Tunes
  /\ held.power \in Int /\ held.freq \in Freqs \cup {Unset}
  /\ script.on \/ request.kind = "launch" => held.freq \in Freqs
Transmits ==
  script.on => /\ DOMAIN script = {"on", "file", "power", "carrier", "live", "gain", "pin"}
               /\ script.power \in Int /\ script.carrier \in Freqs /\ script.pin \in Int
InvOf(d) == ResolvedOf(d) /\ Lowering(d, applied) /\ Asked /\ Transmits /\ Throttled(d)
Inv == script.on \in BOOLEAN /\ \E d \in Documents : InvOf(d)

\* What resolving an accepted document gives.
LEMMA AcceptedIs ==
  ASSUME \A d \in Documents : Gaugeable(d), NEW d \in Documents, NEW f, Resolved(d, f) # <<>>
  PROVE  /\ Resolved(d, f)[1] = Resolve(d, f) /\ Fit(d)
         /\ Resolution(d, Resolved(d, f)[1]) /\ SharedBase(Resolved(d, f)[1])
         /\ f # NoFreq => Resolved(d, f)[1].freq = f
<1> DEFINE r == Resolve(d, f)
<1>1. Accepts(d, r) /\ Resolved(d, f) = <<r>>
  BY DEF Resolved, IfAccepted
<1>2. Sound(d) /\ SharedBase(r)
  BY <1>1 DEF Accepts
<1>3. Fit(d)
  BY <1>2 DEF Gaugeable, Fit
<1>4. Resolution(d, r) /\ (f # NoFreq => r.freq = f)
  BY <1>3, ResolveIs DEF Resolution
<1> HIDE DEF r
<1>5. Resolved(d, f)[1] = r
  BY <1>1
<1> QED
  BY <1>2, <1>3, <1>4, <1>5 DEF r

\* What is resolved for this unit: for the document without a frequency, and
\* for each carrier unless it is refused there.
LEMMA UnitIs ==
  ASSUME \A d \in Documents : Gaugeable(d), NEW d \in Documents, ResolvedOf(d)
  PROVE  /\ Fit(d) /\ Resolution(d, Unit)
         /\ \A f \in Freqs : resolved[f] # <<>> =>
              /\ Resolution(d, resolved[f][1]) /\ SharedBase(resolved[f][1])
              /\ resolved[f][1].freq = f
<1>1. resolved[NoFreq] = Resolved(d, NoFreq) /\ \A f \in Freqs : resolved[f] = Resolved(d, f)
  BY DEF ResolvedOf
<1>2. Fit(d) /\ Resolution(d, Unit)
  BY <1>1, AcceptedIs DEF ResolvedOf, Unit
<1>3. \A f \in Freqs : f # NoFreq
  BY AskedAssumption DEF NoFreq
<1> QED
  BY <1>1, <1>2, <1>3, AcceptedIs

\* Initially the components are at rest and nothing is asked.
LEMMA InvInit ==
  ASSUME \A d \in Documents : Gaugeable(d), Init
  PROVE  Inv
<1>1. PICK d \in Documents : ResolvedOf(d)
  BY DEF Init, ResolvedOf
<1>2. Fit(d) /\ Resolution(d, Unit)
  BY <1>1, UnitIs
<1>3. Lowering(d, applied)
  BY <1>2, SettingsIs DEF Init
<1>4. script.on = FALSE
  BY DEF Init, Off
<1>5. Asked
  BY <1>4 DEF Init, Asked, NoRequest, Unset
<1> QED
  BY <1>1, <1>3, <1>4, <1>5 DEF Inv, InvOf, Transmits, Throttled

\* Numbers stay numbers where a request leaves them alone.
LEMMA OverIs ==
  ASSUME NEW x, NEW h, NEW V, h \in V, x \in V \cup {Unset}
  PROVE  Over(h, x) \in V
BY DEF Over

\* A request moves the components to settings that take power away.
LEMMA PositionKeeps ==
  ASSUME \A d \in Documents : Gaugeable(d), NEW d \in Documents, InvOf(d), script.on \in BOOLEAN,
         NEW req \in Launches \cup Tunes, Position(req)
  PROVE  InvOf(d)'
<1> DEFINE h == Overlaid(held, req)
<1>1. /\ ResolvedOf(d) /\ Lowering(d, applied) /\ Asked /\ Transmits /\ Throttled(d)
      /\ resolved' = resolved /\ script' = script /\ held' = h /\ request' = req
  BY DEF InvOf, Position
<1>2. /\ h.power \in Int /\ h.freq \in Freqs
      /\ req.kind = "launch" => req \in Launches
  <2>1. Powers \subseteq Int /\ Unset \in Int
    BY AskedAssumption DEF Unset
  <2>2. h.power = Over(held.power, req.power) /\ h.freq = Over(held.freq, req.freq)
    BY DEF Overlaid
  <2>3. held.power \in Int /\ (req.kind = "tune" => held.freq \in Freqs)
    BY <1>1 DEF Asked, Position
  <2>4. req.power \in Int
    BY <2>1 DEF Launches, Tunes
  <2>5. CASE req \in Launches
    <3>1. req.kind = "launch" /\ req.freq \in Freqs
      BY <2>5 DEF Launches
    <3>2. Over(held.freq, req.freq) \in Freqs
      <4>1. req.freq # Unset
        BY <3>1, AskedAssumption DEF Unset
      <4> QED
        BY <3>1, <4>1 DEF Over
    <3> QED
      BY <2>2, <2>3, <2>4, <2>5, <3>2, OverIs
  <2>6. CASE req \in Tunes
    <3>1. req.kind = "tune" /\ req.freq \in Freqs \cup {Unset}
      BY <2>6 DEF Tunes
    <3> HIDE DEF h
    <3> QED
      BY <2>2, <2>3, <2>4, <3>1, OverIs
  <2> QED
    BY <2>5, <2>6
<1>3. Lowering(d, Settings(h))
  <2>1. CASE applied = <<>> \/ resolved[h.freq] = <<>>
    BY <1>1, <2>1 DEF Settings
  <2>2. CASE ~(applied = <<>> \/ resolved[h.freq] = <<>>)
    <3>1. Settings(h) = SettingsOf(resolved[h.freq][1], h.freq, h.power)
      BY <2>2 DEF Settings
    <3>2. PICK f \in Freqs, p \in Int : f = h.freq /\ p = h.power
      BY <1>2
    <3>3. Fit(d) /\ Resolution(d, resolved[f][1])
      BY <1>1, <2>2, <3>2, UnitIs
    <3>4. Lowering(d, SettingsOf(resolved[f][1], f, p))
      BY <3>3, SettingsIs
    <3> QED
      BY <3>1, <3>2, <3>4
  <2> QED
    BY <2>1, <2>2
<1>4. Lowering(d, applied')
  <2>1. applied' = Settings(h) \/ applied' = applied
    BY DEF Position
  <2> HIDE DEF h
  <2> QED
    BY <1>1, <1>3, <2>1
<1>5. Lowering(d, applied)'
  BY <1>4 DEF Lowering
<1>6. Asked'
  <2> HIDE DEF h
  <2> QED
    BY <1>1, <1>2 DEF Asked
<1> QED
  BY <1>1, <1>5, <1>6 DEF InvOf, ResolvedOf, Transmits, Throttled

\* A script that starts or is tuned works out a gain that its ceiling caps.
LEMMA RunningIs ==
  ASSUME NEW d, Fit(d), NEW a, Written(d, a), NEW h, h.power \in Int, h.freq \in Freqs,
         script' = Running(a, h)
  PROVE  Transmits' /\ Throttled(d)' /\ script'.on \in BOOLEAN
<1>1. PICK p \in Int, f \in Freqs : p = h.power /\ f = h.freq
  OBVIOUS
<1>2. PICK g, pin : g = GainForPower(a, p, f) /\ pin = PinnedApplied(a, p, f)
  OBVIOUS
<1>3. Capped(g, d.min, ScriptCeiling(a, f), d.step) /\ pin \in Int
  <2>1. \A x \in Int : /\ Capped(GainForPower(a, p, f), d.min, ScriptCeiling(a, f), d.step)
                       /\ PinnedApplied(a, p, f) \in Int
    BY ScriptGains
  <2>2. 0 \in Int
    OBVIOUS
  <2> QED
    BY <1>2, <2>1, <2>2
<1>4. script' = [on |-> TRUE, file |-> a, power |-> p, carrier |-> f, live |-> f, gain |-> g, pin |-> pin]
  BY <1>1, <1>2 DEF Running
<1>5. /\ DOMAIN script' = {"on", "file", "power", "carrier", "live", "gain", "pin"}
      /\ script'.on = TRUE /\ script'.file = a /\ script'.power = p /\ script'.carrier = f
      /\ script'.live = f /\ script'.gain = g /\ script'.pin = pin
  BY <1>4
<1>6. Transmits'
  BY <1>1, <1>3, <1>5 DEF Transmits
<1>7. Throttled(d)'
  BY <1>3, <1>5 DEF Throttled
<1> QED
  BY <1>5, <1>6, <1>7

\* A launch writes an artifact of this document.
LEMMA LaunchKeeps ==
  ASSUME \A d \in Documents : Gaugeable(d), NEW d \in Documents, InvOf(d), Launch
  PROVE  InvOf(d)' /\ script'.on \in BOOLEAN
<1>1. /\ ResolvedOf(d) /\ Lowering(d, applied) /\ Asked
      /\ resolved' = resolved /\ applied' = applied /\ held' = held /\ request' = NoRequest
      /\ request.kind = "launch" /\ resolved[request.freq] # <<>>
      /\ script' = Running(ToPublic(resolved[request.freq][1]), request)
  BY DEF InvOf, Launch
<1>2. request.power \in Int /\ request.freq \in Freqs /\ held.freq \in Freqs
  <2>1. request \in Launches /\ held.freq \in Freqs
    BY <1>1 DEF Asked, NoRequest, Tunes
  <2>2. request.power \in Powers /\ request.freq \in Freqs
    BY <2>1 DEF Launches
  <2> QED
    BY <2>1, <2>2, AskedAssumption
<1>3. PICK f \in Freqs : f = request.freq
  BY <1>2
<1>4. /\ Fit(d) /\ Resolution(d, resolved[f][1]) /\ SharedBase(resolved[f][1])
      /\ resolved[f][1].freq = f /\ f \in Int
  BY <1>1, <1>3, UnitIs, AskedAssumption
<1>5. Written(d, ToPublic(resolved[f][1]))
  BY <1>4, WrittenIs
<1>6. Transmits' /\ Throttled(d)' /\ script'.on \in BOOLEAN
  BY <1>1, <1>2, <1>3, <1>4, <1>5, RunningIs
<1>7. Asked'
  BY <1>1, <1>2 DEF Asked
<1> QED
  BY <1>1, <1>6, <1>7 DEF InvOf, ResolvedOf, Lowering

\* A tune keeps the artifact, and the level or the carrier it does not name.
LEMMA TuneKeeps ==
  ASSUME \A d \in Documents : Gaugeable(d), NEW d \in Documents, InvOf(d), Tune
  PROVE  InvOf(d)' /\ script'.on \in BOOLEAN
<1> DEFINE h == Overlaid([power |-> script.power, freq |-> script.carrier], request)
<1>1. /\ ResolvedOf(d) /\ Lowering(d, applied) /\ Asked /\ Transmits /\ Throttled(d)
      /\ resolved' = resolved /\ applied' = applied /\ held' = held /\ request' = NoRequest
      /\ request.kind = "tune" /\ script.on
      /\ script' = Running(script.file, h)
  BY DEF InvOf, Tune
<1>2. h.power \in Int /\ h.freq \in Freqs
  <2>1. h.power = Over(script.power, request.power) /\ h.freq = Over(script.carrier, request.freq)
    BY DEF Overlaid
  <2>2. script.power \in Int /\ script.carrier \in Freqs
    BY <1>1 DEF Transmits
  <2>3. request \in Tunes
    BY <1>1 DEF Asked, NoRequest, Launches
  <2>4. request.power \in Int /\ request.freq \in Freqs \cup {Unset}
    <3>1. request.power \in Powers \cup {Unset} /\ request.freq \in Freqs \cup {Unset}
      BY <2>3 DEF Tunes
    <3>2. Unset \in Int
      BY DEF Unset
    <3> QED
      BY <3>1, <3>2, AskedAssumption
  <2> HIDE DEF h
  <2> QED
    BY <2>1, <2>2, <2>4, OverIs
<1>3. Written(d, script.file) /\ held.freq \in Freqs
  BY <1>1 DEF Throttled, Asked
<1> HIDE DEF h
<1>4. Fit(d)
  BY <1>1, UnitIs
<1>5. Transmits' /\ Throttled(d)' /\ script'.on \in BOOLEAN
  BY <1>1, <1>2, <1>3, <1>4, RunningIs
<1>6. Asked'
  BY <1>1, <1>3 DEF Asked
<1> QED
  BY <1>1, <1>5, <1>6 DEF InvOf, ResolvedOf, Lowering

\* A script that moves caps its gain where it then transmits.
LEMMA DriftKeeps ==
  ASSUME \A d \in Documents : Gaugeable(d), NEW d \in Documents, InvOf(d),
         NEW f \in Freqs, Drift(f)
  PROVE  InvOf(d)' /\ script'.on \in BOOLEAN
<1> DEFINE g == GainForPinned(script.file, script.power, f, script.pin)
<1>1. /\ ResolvedOf(d) /\ Lowering(d, applied) /\ Asked /\ Transmits /\ Throttled(d)
      /\ resolved' = resolved /\ applied' = applied /\ held' = held /\ request' = request
      /\ script.on /\ script' = [script EXCEPT !.live = f, !.gain = g]
  BY DEF InvOf, Drift
<1>2. /\ DOMAIN script = {"on", "file", "power", "carrier", "live", "gain", "pin"}
      /\ script.power \in Int /\ script.carrier \in Freqs /\ script.pin \in Int
      /\ Written(d, script.file)
  BY <1>1 DEF Transmits, Throttled
<1>3. Capped(g, d.min, ScriptCeiling(script.file, f), d.step)
  <2>1. Fit(d)
    BY <1>1, UnitIs
  <2>2. PICK p \in Int, pin \in Int : p = script.power /\ pin = script.pin
    BY <1>2
  <2> DEFINE a == script.file
  <2> HIDE DEF a
  <2>3. Written(d, a)
    BY <1>2 DEF a
  <2>4. Capped(GainForPinned(a, p, f, pin), d.min, ScriptCeiling(a, f), d.step)
    BY <2>1, <2>3, ScriptGains
  <2> QED
    BY <2>2, <2>4 DEF a
<1> HIDE DEF g
<1>4. /\ DOMAIN script' = {"on", "file", "power", "carrier", "live", "gain", "pin"}
      /\ script'.on = script.on /\ script'.file = script.file /\ script'.power = script.power
      /\ script'.carrier = script.carrier /\ script'.pin = script.pin
      /\ script'.live = f /\ script'.gain = g
  BY <1>1, <1>2
<1>5. Transmits'
  BY <1>2, <1>4 DEF Transmits
<1>6. Throttled(d)'
  BY <1>2, <1>3, <1>4 DEF Throttled
<1>7. Asked'
  BY <1>1, <1>4 DEF Asked
<1>8. script'.on = TRUE
  BY <1>1, <1>4
<1> QED
  BY <1>1, <1>5, <1>6, <1>7, <1>8 DEF InvOf, ResolvedOf, Lowering

\* Every step keeps what is known of a document.
LEMMA InvOfKept ==
  ASSUME \A d \in Documents : Gaugeable(d), NEW d \in Documents, InvOf(d),
         script.on \in BOOLEAN, [Next]_vars
  PROVE  InvOf(d)' /\ script'.on \in BOOLEAN
<1>1. InvOf(d)
  OBVIOUS
<1>2. script.on \in BOOLEAN
  OBVIOUS
<1>3. ASSUME NEW req \in Launches \cup Tunes, Position(req)
      PROVE  InvOf(d)' /\ script'.on \in BOOLEAN
  BY <1>1, <1>2, <1>3, PositionKeeps DEF Position
<1>4. CASE Launch
  BY <1>1, <1>4, LaunchKeeps
<1>5. CASE Tune
  BY <1>1, <1>5, TuneKeeps
<1>6. CASE Refuse
  <2>1. Asked'
    <3>1. Asked /\ request' = NoRequest /\ script' = script /\ held' = held
      BY <1>1, <1>6 DEF InvOf, Refuse
    <3>2. NoRequest.kind # "launch"
      BY DEF NoRequest
    <3> QED
      BY <3>1, <3>2 DEF Asked
  <2> QED
    BY <1>1, <1>2, <1>6, <2>1 DEF InvOf, Refuse, ResolvedOf, Lowering, Transmits, Throttled
<1>7. CASE Stop
  <2>1. script'.on = FALSE
    BY <1>7 DEF Stop, Off
  <2>2. Asked'
    BY <1>1, <1>7, <2>1 DEF InvOf, Stop, Asked
  <2> QED
    BY <1>1, <1>7, <2>1, <2>2 DEF InvOf, Stop, ResolvedOf, Lowering, Transmits, Throttled
<1>8. ASSUME NEW f \in Freqs, Drift(f)
      PROVE  InvOf(d)' /\ script'.on \in BOOLEAN
  BY <1>1, <1>8, DriftKeeps
<1>9. CASE UNCHANGED vars
  BY <1>1, <1>2, <1>9 DEF InvOf, vars, ResolvedOf, Lowering, Asked, Transmits, Throttled
<1> QED
  BY <1>3, <1>4, <1>5, <1>6, <1>7, <1>8, <1>9 DEF Next

\* So every step keeps the invariant, for the same document.
LEMMA InvKept ==
  ASSUME \A d \in Documents : Gaugeable(d), Inv, [Next]_vars
  PROVE  Inv'
BY InvOfKept DEF Inv

\* For calibrations whose limits the script can gauge, no limit of the chain is
\* exceeded, at a launch, after a tune, or when the script moves by itself, and
\* whatever the components apply (agent/calibration.py, paramkit/calkit.py).
THEOREM LimitsAlwaysHeld ==
  ASSUME \A d \in Documents : Gaugeable(d)
  PROVE  Spec => []LimitsHeld
<1>1. Init => Inv
  BY InvInit
<1>2. Inv /\ [Next]_vars => Inv'
  BY InvKept
<1>3. Inv => LimitsHeld
  <2> SUFFICES ASSUME Inv PROVE LimitsHeld
    OBVIOUS
  <2>1. PICK d \in Documents : InvOf(d)
    BY DEF Inv
  <2>2. Fit(d) /\ Resolution(d, Unit)
    BY <2>1, UnitIs DEF InvOf
  <2> QED
    BY <2>1, <2>2, LimitsHold DEF InvOf
<1> QED
  BY <1>1, <1>2, <1>3, PTL DEF Spec

-----------------------------------------------------------------------------
(* Both ends have the same curve.                                          *)

\* A table whose points are moved along.
Moved(T, c) == [i \in DOMAIN T |-> <<X(T, i) + c, Y(T, i)>>]

\* It is a table, and what a level inverts to is what the moved level does.
LEMMA MovedLevel ==
  ASSUME NEW T \in Points, IsTable(T), NEW c \in Int, NEW u \in Int, NEW mode
  PROVE  InterpExtrap(u + c, Moved(T, c), mode) = InterpExtrap(u, T, mode)
<1> DEFINE S == Moved(T, c)
           n == Len(T)
           g == u + c
<1>1. DOMAIN T = 1 .. n /\ n \in Nat /\ n # 0
  BY FlippedPoints DEF IsTable
<1>2. \A i \in 1 .. n : X(T, i) \in Int /\ Y(T, i) \in Int
  BY PointOf
<1>3. S \in Points /\ Len(S) = n /\ S # <<>>
  <2>1. S = [i \in 1 .. n |-> <<X(T, i) + c, Y(T, i)>>]
    BY <1>1 DEF Moved
  <2>2. \A i \in 1 .. n : <<X(T, i) + c, Y(T, i)>> \in Int \X Int
    BY <1>2
  <2> HIDE DEF S, n
  <2>3. S \in Points /\ Len(S) = n
    BY <1>1, <2>1, <2>2 DEF Points
  <2> QED
    BY <1>1, <2>3, FlippedPoints
<1>4. \A i \in 1 .. n : X(S, i) = X(T, i) + c /\ Y(S, i) = Y(T, i)
  <2> TAKE i \in 1 .. n
  <2>1. S[i] = <<X(T, i) + c, Y(T, i)>>
    BY <1>1 DEF Moved
  <2> HIDE DEF S
  <2> QED
    BY <2>1 DEF X, Y
<1> HIDE DEF S, n
<1>5. 1 \in 1 .. n /\ n \in 1 .. n /\ \A i \in 1 .. n - 1 : i \in 1 .. n /\ i + 1 \in 1 .. n
  BY <1>1
<1>6. Increasing(T) /\ Increasing(S) /\ IsTable(S)
  <2>1. \A i \in 1 .. n - 1 : X(T, i) < X(T, i + 1)
    BY DEF IsTable, Increasing, n
  <2>2. \A i \in 1 .. n - 1 : X(S, i) < X(S, i + 1)
    BY <1>2, <1>4, <1>5, <2>1
  <2> QED
    BY <1>3, <2>1, <2>2 DEF IsTable, Increasing, n
<1>7. g \in Int /\ \A i \in 1 .. n : g - X(S, i) = u - X(T, i)
  BY <1>2, <1>4
<1>8. \A i \in 1 .. n : (g <= X(S, i) <=> u <= X(T, i)) /\ (X(S, i) <= g <=> X(T, i) <= u)
                       /\ (g < X(S, i) <=> u < X(T, i)) /\ (X(S, i) < g <=> X(T, i) < u)
  BY <1>2, <1>4
<1>9. \A i \in 1 .. n - 1 : Segment(g, S, i) = Segment(u, T, i)
  <2> TAKE i \in 1 .. n - 1
  <2>1. Y(S, i + 1) - Y(S, i) = Y(T, i + 1) - Y(T, i) /\ Y(S, i) = Y(T, i)
    BY <1>4, <1>5
  <2>2. X(S, i + 1) - X(S, i) = X(T, i + 1) - X(T, i)
    BY <1>2, <1>4, <1>5
  <2>3. g - X(S, i) = u - X(T, i)
    BY <1>5, <1>7
  <2> HIDE DEF g
  <2> QED
    BY <2>1, <2>2, <2>3 DEF Segment
<1> HIDE DEF g
<1>10. Interp(g, S) = Interp(u, T)
  <2>1. CASE n = 1
    <3>1. Interp(g, S) = Y(S, 1) + (g - X(S, 1)) /\ Interp(u, T) = Y(T, 1) + (u - X(T, 1))
      BY <1>3, <1>6, <1>7, <2>1, InterpIs DEF n
    <3> QED
      BY <1>4, <1>5, <1>7, <3>1
  <2>2. CASE n > 1 /\ u <= X(T, 1)
    <3>1. Interp(g, S) = Y(S, 1) /\ Interp(u, T) = Y(T, 1)
      BY <1>3, <1>5, <1>6, <1>7, <1>8, <2>2, InterpIs DEF n
    <3> QED
      BY <1>4, <1>5, <3>1
  <2>3. CASE n > 1 /\ X(T, n) <= u
    <3>1. Interp(g, S) = Y(S, n) /\ Interp(u, T) = Y(T, n)
      BY <1>3, <1>5, <1>6, <1>7, <1>8, <2>3, InterpIs DEF n
    <3> QED
      BY <1>4, <1>5, <3>1
  <2>4. CASE n > 1 /\ X(T, 1) < u /\ u < X(T, n)
    <3>1. PICK i \in 1 .. n - 1 : X(T, i) < u /\ u <= X(T, i + 1) /\ Interp(u, T) = Segment(u, T, i)
      BY <2>4, InterpIs DEF n
    <3>2. PICK j \in 1 .. n - 1 : X(S, j) < g /\ g <= X(S, j + 1) /\ Interp(g, S) = Segment(g, S, j)
      BY <1>3, <1>5, <1>6, <1>7, <1>8, <2>4, InterpIs
    <3>3. X(T, j) < u /\ u <= X(T, j + 1)
      BY <1>5, <1>8, <3>2
    <3>4. i = j
      <4>1. j + 1 <= i => X(T, j + 1) <= X(T, i)
        BY <1>5, Rising DEF IsTable, n
      <4>2. i + 1 <= j => X(T, i + 1) <= X(T, j)
        BY <1>5, Rising DEF IsTable, n
      <4>3. ~(j + 1 <= i) /\ ~(i + 1 <= j)
        BY <1>2, <1>5, <3>1, <3>3, <4>1, <4>2
      <4> QED
        BY <1>1, <4>3
    <3> QED
      BY <1>9, <3>1, <3>2, <3>4
  <2>5. n = 1 \/ (n > 1 /\ (u <= X(T, 1) \/ X(T, n) <= u \/ (X(T, 1) < u /\ u < X(T, n))))
    BY <1>1, <1>2, <1>5
  <2> QED
    BY <2>1, <2>2, <2>3, <2>4, <2>5
<1>11. InterpExtrap(g, S, mode) = InterpExtrap(u, T, mode)
  <2> DEFINE a == n > 1 /\ u < X(T, 1) /\ mode \in {"down", "both"}
             b == n > 1 /\ u > X(T, n) /\ mode \in {"up", "both"}
  <2>1. InterpExtrap(u, T, mode) =
          CASE a -> Segment(u, T, 1) [] b -> Segment(u, T, n - 1) [] OTHER -> Interp(u, T)
    BY DEF InterpExtrap, n
  <2>2. InterpExtrap(g, S, mode) =
          CASE a -> Segment(g, S, 1) [] b -> Segment(g, S, n - 1) [] OTHER -> Interp(g, S)
    <3>1. (g < X(S, 1) <=> u < X(T, 1)) /\ (g > X(S, n) <=> u > X(T, n))
      BY <1>5, <1>8
    <3> QED
      BY <1>3, <3>1 DEF InterpExtrap
  <2>3. ~(a /\ b)
    <3>1. n > 1 => X(T, 1) < X(T, n)
      BY <1>5, Rising DEF IsTable, n
    <3> QED
      BY <1>2, <1>5, <3>1
  <2>4. n > 1 => 1 \in 1 .. n - 1 /\ n - 1 \in 1 .. n - 1
    BY <1>1
  <2>5. (a => n > 1) /\ (b => n > 1)
    OBVIOUS
  <2> HIDE DEF a, b
  <2>6. CASE a
    BY <1>9, <2>1, <2>2, <2>3, <2>4, <2>5, <2>6
  <2>7. CASE b
    BY <1>9, <2>1, <2>2, <2>3, <2>4, <2>5, <2>7
  <2>8. CASE ~a /\ ~b
    BY <1>10, <2>1, <2>2, <2>8
  <2> QED
    BY <2>6, <2>7, <2>8
<1> QED
  BY <1>11 DEF S, g

\* So a curve that is shifted inverts a level that is shifted alike.
LEMMA ShiftedGain ==
  ASSUME NEW T \in Points, IsCurve(T), NEW c \in Int, NEW u \in Int, NEW mode
  PROVE  InterpExtrap(u + c, Flipped(Shifted(T, c)), mode) = InterpExtrap(u, Flipped(T), mode)
<1>1. Flipped(T) \in Points /\ IsTable(Flipped(T))
  BY FlippedCurve DEF IsCurve
<1>2. Flipped(Shifted(T, c)) = Moved(Flipped(T), c)
  <2> DEFINE S == Shifted(T, c)
             n == Len(T)
  <2>1. DOMAIN T = 1 .. n /\ n \in Nat
    BY FlippedPoints
  <2>2. /\ S \in Points /\ Len(S) = n
        /\ \A i \in 1 .. n : X(S, i) = X(T, i) /\ Y(S, i) = Y(T, i) + c
    BY ShiftedIs
  <2>3. \A i \in 1 .. n : X(Flipped(T), i) = Y(T, i) /\ Y(Flipped(T), i) = X(T, i)
    BY PointOf
  <2>4. DOMAIN S = 1 .. n
    BY <2>2, FlippedPoints
  <2>5. DOMAIN Flipped(T) = 1 .. n
    BY <2>1 DEF Flipped
  <2> HIDE DEF S, n
  <2>6. Flipped(S) = [i \in 1 .. n |-> <<Y(T, i) + c, X(T, i)>>]
    BY <2>2, <2>4 DEF Flipped
  <2>7. Moved(Flipped(T), c) = [i \in 1 .. n |-> <<Y(T, i) + c, X(T, i)>>]
    BY <2>3, <2>5 DEF Moved
  <2> QED
    BY <2>6, <2>7 DEF S
<1> QED
  BY <1>1, <1>2, MovedLevel

-----------------------------------------------------------------------------
(* Sums along an injection, and of the hops that are kept.                 *)

\* Taking any of its members first.
Splits(S, h, it) ==
  /\ it \in [SUBSET S -> Int] /\ it[{}] = 0
  /\ \A s \in SUBSET S : \A x \in s : it[s] = h[x] + it[s \ {x}]

\* A sum over a finite set takes any of its members first.
LEMMA SumSplit ==
  ASSUME NEW S, IsFiniteSet(S), NEW h \in [S -> Int], NEW it, it = Sums(S, h, it)
  PROVE  Splits(S, h, it)
<1>1. it \in [SUBSET S -> Int]
  <2>1. PICK p \in [SUBSET S -> Int] : p = Sums(S, h, p)
    BY SumsExist
  <2>2. \A s \in SUBSET S : it[s] = p[s]
    BY <2>1, SumsAgree
  <2>3. it = [s \in SUBSET S |-> it[s]]
    BY DEF Sums
  <2> QED
    BY <2>1, <2>2, <2>3
<1>2. \A s \in SUBSET S : it[s] = IF s = {} THEN 0
                                  ELSE LET x == CHOOSE x \in s : TRUE IN h[x] + it[s \ {x}]
  BY DEF Sums
<1>3. it[{}] = 0
  BY <1>2
<1> DEFINE T == {m \in Nat : \A s \in SUBSET S : Cardinality(s) = m =>
                   \A x \in s : it[s] = h[x] + it[s \ {x}]}
<1>4. \A s \in SUBSET S : IsFiniteSet(s) /\ Cardinality(s) \in Nat
  BY FS_Subset, FS_CardinalityType
<1>5. 0 \in T
  <2>1. \A s \in SUBSET S : Cardinality(s) = 0 => s = {}
    BY <1>4, FS_EmptySet
  <2> QED
    BY <2>1
<1>6. ASSUME NEW m \in Nat, m \in T PROVE m + 1 \in T
  <2> SUFFICES ASSUME NEW s \in SUBSET S, Cardinality(s) = m + 1, NEW x \in s
               PROVE  it[s] = h[x] + it[s \ {x}]
    OBVIOUS
  <2>1. PICK c : c = CHOOSE x2 \in s : TRUE
    OBVIOUS
  <2>2. c \in s /\ it[s] = h[c] + it[s \ {c}]
    BY <1>2, <2>1
  <2>3. \A y \in s : Cardinality(s \ {y}) = m
    <3>1. \A y \in s : Cardinality(s \ {y}) = Cardinality(s) - 1
      BY <1>4, FS_RemoveElement
    <3> QED
      BY <3>1
  <2>4. CASE c = x
    BY <2>2, <2>4
  <2>5. CASE c # x
    <3>1. s \ {c} \in SUBSET S /\ x \in s \ {c} /\ s \ {x} \in SUBSET S /\ c \in s \ {x}
      BY <2>2, <2>5
    <3>2. it[s \ {c}] = h[x] + it[(s \ {c}) \ {x}]
      BY <1>6, <2>2, <2>3, <3>1
    <3>3. it[s \ {x}] = h[c] + it[(s \ {x}) \ {c}]
      BY <1>6, <2>3, <3>1
    <3>4. (s \ {x}) \ {c} = (s \ {c}) \ {x}
      OBVIOUS
    <3>5. h[x] \in Int /\ h[c] \in Int
      BY <2>2
    <3>6. it[(s \ {c}) \ {x}] \in Int
      BY <1>1
    <3>7. PICK u \in Int, v \in Int, w \in Int : u = h[x] /\ v = h[c] /\ w = it[(s \ {c}) \ {x}]
      BY <3>5, <3>6
    <3>8. it[s] = v + (u + w) /\ it[s \ {x}] = v + w
      BY <2>2, <3>2, <3>3, <3>4, <3>7
    <3> QED
      BY <3>7, <3>8
  <2> QED
    BY <2>4, <2>5
<1>7. \A m \in Nat : m \in T
  <2> HIDE DEF T
  <2> QED
    BY <1>5, <1>6, Induction
<1> QED
  BY <1>1, <1>3, <1>4, <1>7 DEF Splits

\* Numbers that are those of some members of S, each once, the others being 0.
Onto(T, S, f) == f \in [T -> S] /\ \A t, u \in T : f[t] = f[u] => t = u
Along(T, S, f, k, h) ==
  /\ \A t \in T : k[t] = h[f[t]]
  /\ \A x \in S : (\E t \in T : f[t] = x) \/ h[x] = 0

\* Such numbers have the sum of S.
LEMMA SumMap ==
  ASSUME NEW S, IsFiniteSet(S), NEW h \in [S -> Int], NEW T, IsFiniteSet(T), NEW k \in [T -> Int],
         NEW f, Onto(T, S, f), Along(T, S, f, k, h),
         NEW v, IsSum(S, h, v), NEW w, IsSum(T, k, w)
  PROVE  v = w
<1>1. PICK p : p = Sums(S, h, p) /\ v = p[S]
  BY DEF IsSum
<1>2. PICK q : q = Sums(T, k, q) /\ w = q[T]
  BY DEF IsSum
<1>3. /\ p \in [SUBSET S -> Int] /\ p[{}] = 0
      /\ \A s \in SUBSET S : \A x \in s : p[s] = h[x] + p[s \ {x}]
  <2>1. Splits(S, h, p)
    BY <1>1, SumSplit
  <2> QED
    BY <2>1 DEF Splits
<1>4. /\ q \in [SUBSET T -> Int] /\ q[{}] = 0
      /\ \A s \in SUBSET T : \A x \in s : q[s] = k[x] + q[s \ {x}]
  <2>1. Splits(T, k, q)
    BY <1>2, SumSplit
  <2> QED
    BY <2>1 DEF Splits
<1> DEFINE pre(s) == {t \in T : f[t] \in s}
           M == {m \in Nat : \A s \in SUBSET S : Cardinality(s) = m => p[s] = q[pre(s)]}
<1>5. \A s \in SUBSET S : IsFiniteSet(s) /\ Cardinality(s) \in Nat
  BY FS_Subset, FS_CardinalityType
<1>6. 0 \in M
  <2>1. \A s \in SUBSET S : Cardinality(s) = 0 => s = {}
    BY <1>5, FS_EmptySet
  <2>2. pre({}) = {}
    OBVIOUS
  <2> QED
    BY <1>3, <1>4, <2>1, <2>2
<1>7. ASSUME NEW m \in Nat, m \in M PROVE m + 1 \in M
  <2> SUFFICES ASSUME NEW s \in SUBSET S, Cardinality(s) = m + 1 PROVE p[s] = q[pre(s)]
    OBVIOUS
  <2>1. s # {}
    BY FS_EmptySet
  <2>2. PICK x \in s : TRUE
    BY <2>1
  <2>3. s \ {x} \in SUBSET S /\ Cardinality(s \ {x}) = m
    <3>1. Cardinality(s \ {x}) = Cardinality(s) - 1
      BY <1>5, FS_RemoveElement
    <3> QED
      BY <3>1
  <2>4. p[s \ {x}] = q[pre(s \ {x})]
    BY <1>7, <2>3
  <2>5. p[s] = h[x] + p[s \ {x}]
    BY <1>3
  <2>6. pre(s) \in SUBSET T /\ pre(s \ {x}) \in SUBSET T
    OBVIOUS
  <2>7. CASE \E t \in T : f[t] = x
    <3>1. PICK t \in T : f[t] = x
      BY <2>7
    <3>2. t \in pre(s) /\ pre(s) \ {t} = pre(s \ {x})
      BY <3>1 DEF Onto
    <3>3. k[t] = h[x]
      BY <3>1 DEF Along
    <3> HIDE DEF pre
    <3>4. q[pre(s)] = k[t] + q[pre(s) \ {t}]
      BY <1>4, <2>6, <3>2
    <3> QED
      BY <2>4, <2>5, <3>2, <3>3, <3>4
  <2>8. CASE ~\E t \in T : f[t] = x
    <3>1. pre(s) = pre(s \ {x})
      BY <2>8
    <3>2. h[x] = 0
      BY <2>8 DEF Along
    <3> HIDE DEF pre
    <3>3. p[s \ {x}] \in Int
      BY <1>3, <2>3
    <3> QED
      BY <2>4, <2>5, <3>1, <3>2, <3>3
  <2> QED
    BY <2>7, <2>8
<1>8. \A m \in Nat : m \in M
  <2> HIDE DEF M
  <2> QED
    BY <1>6, <1>7, Induction
<1>9. p[S] = q[pre(S)]
  <2> HIDE DEF pre
  <2> QED
    BY <1>5, <1>8
<1>10. pre(S) = T
  BY DEF Onto
<1> QED
  BY <1>1, <1>2, <1>9, <1>10

\* Some numbers in ascending order are each of them, once.
LEMMA AscendingOnto ==
  ASSUME NEW S \in SUBSET Int, IsFiniteSet(S)
  PROVE  /\ Onto(1 .. Cardinality(S), S, Ascending(S))
         /\ \A x \in S : \E k \in 1 .. Cardinality(S) : Ascending(S)[k] = x
<1> DEFINE n == Cardinality(S)
           below(x) == {y \in S : y < x}
           A == Ascending(S)
<1>1. n \in Nat /\ DOMAIN A = 1 .. n /\ \A k \in 1 .. n : A[k] \in S
  BY AscendingIs
<1>2. \A k \in 1 .. n : A[k] = CHOOSE x \in S : Cardinality(below(x)) = k - 1
  <2> TAKE k \in 1 .. n
  <2>1. k \in 1 .. Cardinality(S)
    OBVIOUS
  <2>2. Ascending(S)[k] = CHOOSE z \in S : Cardinality({y \in S : y < z}) = k - 1
    BY <2>1 DEF Ascending
  <2> QED
    BY <2>2
<1>3. A = [k \in 1 .. n |-> A[k]]
  <2> DEFINE e(k) == CHOOSE x \in S : Cardinality({y \in S : y < x}) = k - 1
  <2>1. A = [k \in 1 .. n |-> e(k)]
    BY DEF Ascending
  <2> HIDE DEF A, e, n
  <2> QED
    BY <2>1
<1>4. \A x \in S : IsFiniteSet(below(x)) /\ Cardinality(below(x)) \in 0 .. n - 1
  <2> TAKE x \in S
  <2>1. below(x) \in SUBSET S /\ x \notin below(x)
    OBVIOUS
  <2>2. /\ IsFiniteSet(below(x)) /\ Cardinality(below(x)) <= n
        /\ n = Cardinality(below(x)) => S = below(x)
    BY <2>1, FS_Subset
  <2>3. Cardinality(below(x)) \in Nat
    BY <2>2, FS_CardinalityType
  <2> HIDE DEF below, n
  <2> QED
    BY <1>1, <2>1, <2>2, <2>3
<1>5. \A x, y \in S : x < y => Cardinality(below(x)) < Cardinality(below(y))
  <2> SUFFICES ASSUME NEW x \in S, NEW y \in S, x < y
               PROVE  Cardinality(below(x)) < Cardinality(below(y))
    OBVIOUS
  <2>1. below(x) \in SUBSET below(y) /\ x \in below(y) /\ x \notin below(x)
    <3>1. \A z \in S : z < x => z < y
      OBVIOUS
    <3>2. ~(x < x)
      OBVIOUS
    <3> QED
      BY <3>1, <3>2
  <2>2. /\ Cardinality(below(x)) <= Cardinality(below(y))
        /\ Cardinality(below(y)) = Cardinality(below(x)) => below(y) = below(x)
    BY <1>4, <2>1, FS_Subset
  <2>3. below(x) # below(y)
    BY <2>1
  <2> HIDE DEF below
  <2> QED
    BY <1>4, <2>2, <2>3
<1>6. \A k \in 1 .. n : \E x \in S : Cardinality(below(x)) = k - 1
  <2> TAKE k \in 1 .. n
  <2> DEFINE R == {p \in S \X S : p[1] < p[2]}
  <2>1. \A x, y \in S : <<x, y>> \in R <=> x < y
    OBVIOUS
  <2> HIDE DEF R
  <2>2. StrictOrder(S, R)
    BY <2>1 DEF StrictOrder
  <2>3. PICK x \in S : Rank(S, R, x) = k - 1
    BY <2>2, RankMember
  <2>4. {y \in S : <<y, x>> \in R} = below(x)
    BY <2>1
  <2> QED
    BY <2>3, <2>4 DEF Rank
<1>7. \A k \in 1 .. n : Cardinality(below(A[k])) = k - 1
  BY <1>2, <1>6
<1> HIDE DEF A, below, n
<1>8. \A x, y \in S : Cardinality(below(x)) = Cardinality(below(y)) => x = y
  <2> SUFFICES ASSUME NEW x \in S, NEW y \in S, Cardinality(below(x)) = Cardinality(below(y)), x # y
               PROVE  FALSE
    OBVIOUS
  <2>1. x < y \/ y < x
    OBVIOUS
  <2> QED
    BY <1>4, <1>5, <2>1
<1>9. \A k, j \in 1 .. n : A[k] = A[j] => k = j
  <2> SUFFICES ASSUME NEW k \in 1 .. n, NEW j \in 1 .. n, A[k] = A[j] PROVE k = j
    OBVIOUS
  <2>1. k - 1 = j - 1
    BY <1>7
  <2> QED
    BY <1>1, <2>1
<1>10. \A x \in S : \E k \in 1 .. n : A[k] = x
  <2> TAKE x \in S
  <2>1. PICK k \in Int : k = Cardinality(below(x)) + 1 /\ k \in 1 .. n
    BY <1>1, <1>4
  <2>2. Cardinality(below(A[k])) = Cardinality(below(x)) /\ A[k] \in S
    BY <1>1, <1>4, <1>7, <2>1
  <2> QED
    BY <1>8, <2>1, <2>2
<1>11. Onto(1 .. n, S, A)
  BY <1>1, <1>3, <1>9 DEF Onto
<1> QED
  BY <1>10, <1>11 DEF A, n

\* Tables that give 0 can be left out of a sum.
LEMMA SumKept ==
  ASSUME NEW ts, Tables(ts), NEW S \in SUBSET DOMAIN ts, NEW f \in Int,
         \A i \in DOMAIN ts : i \in S \/ EvalTable(ts[i], f) = 0,
         NEW us, Tables(us), DOMAIN us = 1 .. Cardinality(S),
         \A k \in DOMAIN us : us[k] = ts[Ascending(S)[k]]
  PROVE  SumAt(us, f) = SumAt(ts, f)
<1> DEFINE D == DOMAIN ts
           E == DOMAIN us
           A == Ascending(S)
           h == [i \in D |-> EvalTable(ts[i], f)]
           k == [i \in E |-> EvalTable(us[i], f)]
<1>1. S \in SUBSET Int /\ IsFiniteSet(S)
  <2>1. D \in SUBSET Int /\ IsFiniteSet(D)
    BY FS_Interval DEF Tables
  <2> QED
    BY <2>1, FS_Subset
<1>2. Onto(E, S, A) /\ \A x \in S : \E j \in E : A[j] = x
  BY <1>1, AscendingOnto
<1>3. IsFiniteSet(D) /\ h \in [D -> Int] /\ IsSum(D, h, SumAt(ts, f))
  BY SumAtSum
<1>4. IsFiniteSet(E) /\ k \in [E -> Int] /\ IsSum(E, k, SumAt(us, f))
  BY SumAtSum
<1>5. \A t \in E : us[t] = ts[A[t]]
  OBVIOUS
<1>6. \A x \in D : h[x] = EvalTable(ts[x], f)
  OBVIOUS
<1>7. \A t \in E : k[t] = EvalTable(us[t], f)
  OBVIOUS
<1>8. S \subseteq D /\ \A x \in D : x \in S \/ EvalTable(ts[x], f) = 0
  OBVIOUS
<1> HIDE DEF D, E, A, h, k
<1>9. Onto(E, D, A)
  BY <1>2, <1>8 DEF Onto
<1>10. Along(E, D, A, k, h)
  <2>1. \A t \in E : k[t] = h[A[t]]
    BY <1>2, <1>5, <1>6, <1>7, <1>8 DEF Onto
  <2>2. \A x \in D : (\E t \in E : A[t] = x) \/ h[x] = 0
    BY <1>2, <1>6, <1>8
  <2> QED
    BY <2>1, <2>2 DEF Along
<1> QED
  BY <1>3, <1>4, <1>9, <1>10, SumMap

-----------------------------------------------------------------------------
(* The artifact, exactly.                                                  *)

\* A stage that is passed through is a hop of 0 dB.
LEMMA FallbackIs ==
  ASSUME NEW d, NEW p \in Names(d), BuildPlanes(d)[p].derived, BuildPlanes(d)[p].fallback
  PROVE  BuildPlanes(d)[p].table = Flat
<1> DEFINE i == Index(d, p)
           s == d.planes[i]
           before == IF i = 1 THEN NoPlane ELSE d.planes[i - 1].name
<1>1. BuildPlanes(d)[p] = BuildPlane(d, i)
  BY DEF BuildPlanes
<1>2. BuildPlane(d, i) =
        CASE ~s.measured /\ s.bypass -> Through(s.of)
          [] ~s.measured /\ ~s.bypass ->
               [derived |-> TRUE, frm |-> s.of, table |-> s.table, fallback |-> FALSE,
                active |-> s.active]
          [] s.measured /\ (s.bypass \/ s.curve = <<>>) /\ i > 1 -> Through(before)
          [] OTHER -> Measured(s, s.curve, Deembedded(s, d.measuredAt))
  BY DEF BuildPlane
<1> HIDE DEF i, s, before
<1>3. Through(s.of).table = Flat /\ Through(before).table = Flat
  BY DEF Through
<1>4. Measured(s, s.curve, Deembedded(s, d.measuredAt)).derived = FALSE
  BY DEF Measured
<1>5. [derived |-> TRUE, frm |-> s.of, table |-> s.table, fallback |-> FALSE,
       active |-> s.active].fallback = FALSE
  OBVIOUS
<1>6. BuildPlanes(d)[p] \in
        {Through(s.of), Through(before), Measured(s, s.curve, Deembedded(s, d.measuredAt)),
         [derived |-> TRUE, frm |-> s.of, table |-> s.table, fallback |-> FALSE, active |-> s.active]}
  BY <1>1, <1>2
<1> QED
  BY <1>3, <1>4, <1>5, <1>6

\* The hops of the artifact lose what those of the document do, and its ceiling
\* is the fixed one, or where nothing moves that one on the grid.
Snapped(d) == OnGrid(FixedCeiling(d), d.min, FixedCeiling(d), d.step, "nearest")
Exact(d, a) ==
  /\ \A f \in Int : SumAt(a.hops, f) = SumAt(HopTables(BuildPlanes(d), d.operating), f)
  /\ \/ a.ceiling = FixedCeiling(d)
     \/ Moving(d) = {} /\ d.limiting.cap = Inf /\ a.ceiling = Snapped(d)
\* What is published is exact.
LEMMA ExactIs ==
  ASSUME NEW d, Fit(d), NEW r, Resolution(d, r), r.freq \in Int
  PROVE  Exact(d, ToPublic(r))
<1> DEFINE P == Final(d)
           hops == Hops(P, d.operating)
           S == {i \in DOMAIN hops : ~P[hops[i]].fallback}
           real == KeptIn(hops, S)
           top == MaxGainAt(r, r.freq)
           flat == real = <<>> /\ r.limits = {} /\ r.bias = <<>> /\ ~HasReadings(r.doc)
           a == ToPublic(r)
           ceiling == IF flat THEN OnGrid(top, d.min, top, d.step, "nearest") ELSE FixedCeiling(d)
           ts == HopTables(P, d.operating)
           us == [i \in DOMAIN real |-> P[real[i]].table]
<1>1. /\ r.planes = P /\ r.doc = d /\ r.limits = Moving(d) /\ r.ceiling = FixedCeiling(d)
      /\ r.doc.min = d.min /\ r.doc.step = d.step
  BY DEF Resolution
<1>2. /\ d.operating \in GaugedPlanes(d) /\ SamePath(BuildPlanes(d), P) /\ Good(P)
      /\ d.operating \in DOMAIN P /\ DOMAIN BuildPlanes(d) = Names(d)
  BY PlanesIs DEF GaugedPlanes, SamePath
<1>3. Kept(hops, LAMBDA p : ~r.planes[p].fallback) = real
  BY <1>1 DEF Kept, KeptIn
<1>4. a.hops = us /\ a.ceiling = ceiling
  <2> HIDE DEF real, P
  <2> QED
    BY <1>1, <1>3 DEF ToPublic
<1>5. /\ Len(hops) \in Nat /\ DOMAIN hops = 1 .. Len(hops)
      /\ \A i \in DOMAIN hops : hops[i] \in DOMAIN P /\ P[hops[i]].derived
  BY <1>2, HopsIs DEF Good
<1>6. ts = [i \in DOMAIN hops |-> P[hops[i]].table]
  BY DEF HopTables
<1>7. Tables(ts)
  BY <1>2, HopTablesIs
<1>8. Tables(a.hops)
  <2>1. Artifact(d, a)
    BY ArtifactIs
  <2> QED
    BY <2>1 DEF Artifact
<1>9. /\ S \in SUBSET DOMAIN hops /\ DOMAIN real = 1 .. Cardinality(S)
      /\ \A k \in DOMAIN real : real[k] = hops[Ascending(S)[k]] /\ Ascending(S)[k] \in S
  <2>1. S \in SUBSET DOMAIN hops
    OBVIOUS
  <2> HIDE DEF S, hops
  <2>2. S \in SUBSET Int /\ IsFiniteSet(S)
    <3>1. DOMAIN hops \in SUBSET Int /\ IsFiniteSet(DOMAIN hops)
      BY <1>5, FS_Interval
    <3> QED
      BY <2>1, <3>1, FS_Subset
  <2>3. /\ DOMAIN Ascending(S) = 1 .. Cardinality(S)
        /\ \A k \in 1 .. Cardinality(S) : Ascending(S)[k] \in S
    BY <2>2, AscendingIs
  <2> QED
    BY <2>1, <2>3 DEF KeptIn
<1>10. ASSUME NEW i \in DOMAIN hops, i \notin S PROVE ts[i] = Flat
  <2>1. PICK p : p = hops[i]
    OBVIOUS
  <2>2. p \in DOMAIN P /\ P[p].derived /\ P[p].fallback /\ ts[i] = P[p].table
    BY <1>5, <1>6, <1>10, <2>1
  <2>3. p \in Names(d) /\ BuildPlanes(d)[p] = P[p]
    <3> HIDE DEF P
    <3> QED
      BY <1>2, <2>2 DEF SamePath
  <2> QED
    BY <2>2, <2>3, FallbackIs
<1>11. \A f : EvalTable(Flat, f) = 0
  <2>1. Len(Flat) = 1 /\ Y(Flat, 1) = 0
    BY DEF Flat, Y
  <2> QED
    BY <2>1 DEF EvalTable
<1>12. HopTables(BuildPlanes(d), d.operating) = ts
  BY <1>2, GaugeIs
<1> HIDE DEF hops, real, P, ts
<1>13. ASSUME NEW f \in Int PROVE SumAt(us, f) = SumAt(ts, f)
  <2>1. DOMAIN us = 1 .. Cardinality(S) /\ \A k \in DOMAIN us : us[k] = ts[Ascending(S)[k]]
    BY <1>6, <1>9
  <2>2. S \in SUBSET DOMAIN ts
    BY <1>6, <1>9
  <2>3. \A i \in DOMAIN ts : i \in S \/ EvalTable(ts[i], f) = 0
    BY <1>6, <1>10, <1>11
  <2>4. Tables(us)
    BY <1>4, <1>8
  <2> HIDE DEF S, us
  <2> QED
    BY <1>7, <2>1, <2>2, <2>3, <2>4, SumKept
<1>14. \A f \in Int : SumAt(a.hops, f) = SumAt(HopTables(BuildPlanes(d), d.operating), f)
  BY <1>4, <1>12, <1>13
<1>15. \/ ceiling = FixedCeiling(d)
       \/ Moving(d) = {} /\ d.limiting.cap = Inf /\ ceiling = Snapped(d)
  <2>1. CASE flat
    <3>1. Moving(d) = {} /\ d.limiting.cap = Inf
      BY <1>1, <2>1 DEF HasReadings
    <3>2. top = FixedCeiling(d)
      BY <3>1, MaxGainIs
    <3> HIDE DEF top
    <3> QED
      BY <2>1, <3>1, <3>2 DEF Snapped
  <2>2. CASE ~flat
    BY <2>2
  <2> QED
    BY <2>1, <2>2
<1> HIDE DEF a, ceiling
<1> QED
  BY <1>4, <1>14, <1>15 DEF Exact, a

-----------------------------------------------------------------------------
(* The gains on the grid.                                                  *)

\* Multiples of a step, and numbers that are a step apart.
Multiple(g, step) == \E k \in Int : g = step * k
Apart(a, b, step) ==
  /\ a \in Int /\ b \in Int /\ Multiple(a + b, step)
  /\ a < b => a + step <= b

\* Multiples of a step that differ are a step apart.
LEMMA MultipleGap ==
  ASSUME NEW step \in Int, step > 0, NEW a, Multiple(a, step), NEW b, Multiple(b, step)
  PROVE  Apart(a, b, step)
<1>1. PICK j \in Int, k \in Int : a = step * j /\ b = step * k
  BY DEF Multiple
<1>2. a \in Int /\ b \in Int
  BY <1>1
<1>3. ASSUME a < b PROVE a + step <= b
  <2>1. ~(k <= j)
    BY <1>1, <1>3, TimesOrder
  <2>2. j + 1 <= k
    BY <2>1
  <2>3. step * (j + 1) <= step * k
    BY <2>2, TimesOrder
  <2>4. step * (j + 1) = step * j + step
    OBVIOUS
  <2> QED
    BY <1>1, <2>3, <2>4
<1>4. Multiple(a + b, step)
  <2>1. a + b = step * (j + k) /\ j + k \in Int
    BY <1>1
  <2> QED
    BY <2>1 DEF Multiple
<1> QED
  BY <1>2, <1>3, <1>4 DEF Apart

\* A number rounded down, up or to the nearest multiple of a step.
Near(x, step, how) ==
  CASE how = "floor" -> Floor(x, step)
    [] how = "ceil" -> Ceil(x, step)
    [] OTHER -> RoundTo(x, step) * step

\* Rounded down, up or to the nearest, a number is a multiple less than a step
\* away.
LEMMA NearIs ==
  ASSUME NEW x \in Int, NEW step \in Int, step > 0
  PROVE  /\ Multiple(Floor(x, step), step) /\ Floor(x, step) <= x /\ x < Floor(x, step) + step
         /\ Multiple(Ceil(x, step), step) /\ x <= Ceil(x, step) /\ Ceil(x, step) < x + step
         /\ \A how : /\ Multiple(Near(x, step, how), step)
                     /\ x - step < Near(x, step, how) /\ Near(x, step, how) < x + step
<1>1. PICK q \in Int : q = x \div step /\ step * q <= x /\ x < step * q + step
  BY Quotient
<1>2. PICK m \in Int : m = (-x) \div step /\ step * m <= -x /\ -x < step * m + step
  <2>1. -x \in Int
    OBVIOUS
  <2> QED
    BY <2>1, Quotient
<1>3. PICK low \in Int : low = step * q /\ Multiple(low, step)
  BY <1>1 DEF Multiple
<1>4. Floor(x, step) = low
  <2>1. Floor(x, step) = q * step
    BY <1>1 DEF Floor
  <2>2. q * step = step * q
    OBVIOUS
  <2> QED
    BY <1>3, <2>1, <2>2
<1>5. PICK high \in Int : high = step * (-m) /\ Multiple(high, step)
  BY DEF Multiple
<1>6. Ceil(x, step) = high /\ x <= high /\ high < x + step
  <2>1. Ceil(x, step) = -m * step
    BY <1>2 DEF Ceil
  <2>2. -m * step = step * (-m) /\ step * (-m) = -(step * m)
    OBVIOUS
  <2>3. step * m \in Int
    OBVIOUS
  <2> QED
    BY <1>2, <1>5, <2>1, <2>2, <2>3
<1>7. PICK near \in Int : near = RoundTo(x, step) * step /\ Multiple(near, step)
        /\ x - step < near /\ near < x + step
  <2>1. RoundTo(x, step) = q \/ (RoundTo(x, step) = q + 1 /\ x % step # 0)
    <3> DEFINE r == 2 * (x % step)
    <3>1. RoundTo(x, step) = IF r < step \/ (r = step /\ q % 2 = 0) THEN q ELSE q + 1
      BY <1>1 DEF RoundTo
    <3>2. x % step = 0 => r < step
      OBVIOUS
    <3> HIDE DEF r
    <3> QED
      BY <3>1, <3>2
  <2>2. x % step # 0 => x # low
    <3>1. x % step = x - step * (x \div step)
      OBVIOUS
    <3> QED
      BY <1>1, <1>3, <3>1
  <2>3. q * step = low /\ (q + 1) * step = low + step
    BY <1>3
  <2>4. CASE RoundTo(x, step) = q
    <3>1. RoundTo(x, step) * step = low
      BY <2>3, <2>4
    <3> QED
      BY <1>1, <1>3, <3>1
  <2>5. CASE RoundTo(x, step) = q + 1 /\ x % step # 0
    <3>1. RoundTo(x, step) * step = low + step
      BY <2>3, <2>5
    <3>2. low < x
      BY <1>1, <1>3, <2>2, <2>5
    <3>3. Multiple(low + step, step)
      <4>1. low + step = step * (q + 1) /\ q + 1 \in Int
        BY <1>3
      <4> QED
        BY <4>1 DEF Multiple
    <3> QED
      BY <1>1, <1>3, <3>1, <3>2, <3>3
  <2> QED
    BY <2>1, <2>4, <2>5
<1>8. \A how : Near(x, step, how) \in {low, high, near}
  BY <1>4, <1>6, <1>7 DEF Near
<1>9. x - step < low /\ low < x + step /\ x - step < high
  BY <1>1, <1>3, <1>6
<1> QED
  BY <1>1, <1>3, <1>4, <1>5, <1>6, <1>7, <1>8, <1>9

\* A multiple of a step is a number.
LEMMA MultipleInt ==
  ASSUME NEW step \in Int, NEW a, Multiple(a, step)
  PROVE  a \in Int
BY DEF Multiple

\* Of two multiples less than a step apart, neither is below the other.
LEMMA SameMultiple ==
  ASSUME NEW step \in Int, step > 0, NEW a, Multiple(a, step), NEW b, Multiple(b, step),
         a < b + step, b < a + step
  PROVE  a = b
<1>1. Apart(a, b, step)
  BY MultipleGap
<1>2. Apart(b, a, step)
  BY MultipleGap
<1> QED
  BY <1>1, <1>2 DEF Apart

\* The gains that are on the grid between a least gain and a ceiling, the least
\* multiple there is being one even above the ceiling.
Member(g, lo, hi, step) ==
  /\ g \in Int
  /\ step = 0 => g <= hi /\ (lo <= g \/ g = hi)
  /\ step # 0 => Multiple(g, step) /\ lo <= g /\ (g <= hi \/ g < lo + step)
\* With a step: the multiple near the clamped gain, down to
\* the ceiling, and up to the least gain.
Lowered(down, g, lo, hi, step, how) ==
  /\ Multiple(down, step) /\ down \in Int /\ down <= hi
  /\ OnGrid(g, lo, hi, step, how) = IF down < lo THEN Ceil(lo, step) ELSE down
  /\ down = IF Near(Clamp(g, lo, hi), step, how) > hi THEN Floor(hi, step)
            ELSE Near(Clamp(g, lo, hi), step, how)

\* That is what _grid gives, with a step.
LEMMA OnGridIs ==
  ASSUME NEW g \in Int, NEW lo \in Int, NEW hi \in Int, NEW step \in Int, step > 0, NEW how
  PROVE  \E down \in Int : Lowered(down, g, lo, hi, step, how)
<1> DEFINE c == Clamp(g, lo, hi)
           q == CASE how = "floor" -> Floor(c, step)
                  [] how = "ceil" -> Ceil(c, step)
                  [] OTHER -> RoundTo(c, step) * step
           down == IF q > hi THEN Floor(hi, step) ELSE q
<1>1. c \in Int
  BY Clamped
<1>2. OnGrid(g, lo, hi, step, how) = IF down < lo THEN Ceil(lo, step) ELSE down
  BY DEF OnGrid
<1>3. q = Near(c, step, how)
  BY DEF Near
<1> HIDE DEF q, c
<1>4. Multiple(q, step)
  BY <1>1, <1>3, NearIs
<1>5. Multiple(Floor(hi, step), step) /\ Floor(hi, step) <= hi
  BY NearIs
<1>6. q \in Int
  BY <1>4, MultipleInt
<1>7. Floor(hi, step) \in Int
  BY <1>5, MultipleInt
<1>8. Multiple(down, step) /\ down <= hi /\ down \in Int
  BY <1>4, <1>5, <1>6, <1>7
<1>9. down = IF Near(c, step, how) > hi THEN Floor(hi, step) ELSE Near(c, step, how)
  BY <1>3
<1> HIDE DEF down
<1>10. Lowered(down, g, lo, hi, step, how)
  BY <1>2, <1>8, <1>9 DEF c, Lowered
<1> QED
  BY <1>8, <1>10

\* The least multiple that is not below a gain.
LEMMA LeastIs ==
  ASSUME NEW lo \in Int, NEW step \in Int, step > 0
  PROVE  /\ Ceil(lo, step) \in Int /\ Multiple(Ceil(lo, step), step)
         /\ lo <= Ceil(lo, step) /\ Ceil(lo, step) < lo + step
<1>1. Multiple(Ceil(lo, step), step) /\ lo <= Ceil(lo, step) /\ Ceil(lo, step) < lo + step
  BY NearIs
<1> QED
  BY <1>1, MultipleInt

\* What is put on the grid is on it.
LEMMA OnGridOn ==
  ASSUME NEW g \in Int, NEW lo \in Int, NEW hi \in Int, NEW step \in Nat, NEW how
  PROVE  Member(OnGrid(g, lo, hi, step, how), lo, hi, step)
<1>1. CASE step = 0
  <2> DEFINE c == Lowest(Highest(g, lo), hi)
  <2>1. OnGrid(g, lo, hi, step, how) = c
    BY <1>1 DEF OnGrid, Clamp
  <2>2. c \in Int /\ c <= hi /\ (lo <= c \/ c = hi)
    BY DEF Lowest, Highest
  <2> HIDE DEF c
  <2> QED
    BY <1>1, <2>1, <2>2 DEF Member
<1>2. CASE step # 0
  <2>1. step \in Int /\ step > 0
    BY <1>2
  <2>2. PICK least \in Int : /\ least = Ceil(lo, step) /\ Multiple(least, step)
                             /\ lo <= least /\ least < lo + step
    BY <2>1, LeastIs
  <2>3. PICK down \in Int : Lowered(down, g, lo, hi, step, how)
    BY <2>1, OnGridIs
  <2>4. PICK v : v = OnGrid(g, lo, hi, step, how)
    OBVIOUS
  <2>5. v = IF down < lo THEN least ELSE down
    BY <2>2, <2>3, <2>4 DEF Lowered
  <2>6. Multiple(down, step) /\ down <= hi
    BY <2>3 DEF Lowered
  <2>7. Member(v, lo, hi, step)
    BY <1>2, <2>2, <2>5, <2>6 DEF Member
  <2> QED
    BY <2>4, <2>7
<1> QED
  BY <1>1, <1>2

\* And what is on it stays where it is.
LEMMA OnGridMember ==
  ASSUME NEW g, NEW lo \in Int, NEW hi \in Int, NEW step \in Nat, Member(g, lo, hi, step)
  PROVE  OnGrid(g, lo, hi, step, "nearest") = g
<1>0. g \in Int
  BY DEF Member
<1>1. CASE step = 0
  <2>1. g <= hi /\ (lo <= g \/ g = hi)
    BY <1>1 DEF Member
  <2> QED
    BY <1>0, <1>1, <2>1 DEF OnGrid, Clamp, Lowest, Highest
<1>2. CASE step # 0
  <2>1. step \in Int /\ step > 0
    BY <1>2
  <2>2. Multiple(g, step) /\ lo <= g /\ (g <= hi \/ g < lo + step)
    BY <1>2 DEF Member
  <2>3. PICK least \in Int : /\ least = Ceil(lo, step) /\ Multiple(least, step)
                             /\ lo <= least /\ least < lo + step
    BY <2>1, LeastIs
  <2>4. PICK down \in Int : Lowered(down, g, lo, hi, step, "nearest")
    BY <1>0, <2>1, OnGridIs
  <2>5. PICK v : v = OnGrid(g, lo, hi, step, "nearest")
    OBVIOUS
  <2>6. v = (IF down < lo THEN least ELSE down) /\ Multiple(down, step) /\ down <= hi
    BY <2>3, <2>4, <2>5 DEF Lowered
  <2>7. CASE g <= hi
    <3>1. Clamp(g, lo, hi) = g
      BY <1>0, <2>2, <2>7 DEF Clamp, Lowest, Highest
    <3>2. PICK q : q = Near(g, step, "nearest")
      OBVIOUS
    <3>3. Multiple(q, step) /\ g - step < q /\ q < g + step
      BY <1>0, <2>1, <3>2, NearIs
    <3>4. q \in Int
      BY <3>3, MultipleInt
    <3>5. g < q + step
      BY <1>0, <3>3, <3>4
    <3>6. q = g
      BY <2>1, <2>2, <3>3, <3>5, SameMultiple
    <3>7. down = IF g > hi THEN Floor(hi, step) ELSE g
      BY <2>4, <3>1, <3>2, <3>6 DEF Lowered
    <3> QED
      BY <1>0, <2>2, <2>5, <2>6, <2>7, <3>7
  <2>8. CASE g > hi
    <3>1. Apart(down, g, step)
      BY <2>1, <2>2, <2>6, MultipleGap
    <3>2. down + step <= g
      BY <1>0, <2>6, <2>8, <3>1 DEF Apart
    <3>3. down < lo
      BY <1>0, <2>2, <2>8, <3>2
    <3>4. least < g + step /\ g < least + step
      BY <1>0, <2>2, <2>3, <2>8
    <3>5. least = g
      BY <2>1, <2>2, <2>3, <3>4, SameMultiple
    <3> QED
      BY <2>5, <2>6, <3>3, <3>5
  <2> QED
    BY <1>0, <2>7, <2>8
<1> QED
  BY <1>1, <1>2

\* A ceiling that is put on the grid itself: down to a multiple, unless that is
\* below the least gain.
LEMMA SnappedIs ==
  ASSUME NEW lo \in Int, NEW hi \in Int, NEW step \in Int, step > 0
  PROVE  OnGrid(hi, lo, hi, step, "nearest")
           = IF Floor(hi, step) < lo THEN Ceil(lo, step) ELSE Floor(hi, step)
<1>1. Clamp(hi, lo, hi) = hi
  BY DEF Clamp, Lowest, Highest
<1>2. PICK top : top = Floor(hi, step)
  OBVIOUS
<1>3. Multiple(top, step) /\ top <= hi /\ hi < top + step
  BY <1>2, NearIs
<1>4. top \in Int
  BY <1>3, MultipleInt
<1>5. PICK fit : fit = Near(hi, step, "nearest")
  OBVIOUS
<1>6. Multiple(fit, step) /\ hi - step < fit /\ fit < hi + step
  BY <1>5, NearIs
<1>7. fit \in Int
  BY <1>6, MultipleInt
<1>8. ASSUME fit <= hi PROVE fit = top
  <2>1. fit < top + step /\ top < fit + step
    BY <1>3, <1>4, <1>6, <1>7, <1>8
  <2> QED
    BY <1>3, <1>6, <2>1, SameMultiple
<1>9. PICK down \in Int : Lowered(down, hi, lo, hi, step, "nearest")
  BY OnGridIs
<1>10. down = IF fit > hi THEN top ELSE fit
  BY <1>1, <1>2, <1>5, <1>9 DEF Lowered
<1>11. down = top
  BY <1>7, <1>8, <1>10
<1> QED
  BY <1>2, <1>9, <1>11 DEF Lowered

\* It leaves what is put on the grid under it the same.
LEMMA SnappedCeiling ==
  ASSUME NEW g \in Int, NEW lo \in Int, NEW hi \in Int, NEW step \in Nat, NEW how
  PROVE  OnGrid(g, lo, OnGrid(hi, lo, hi, step, "nearest"), step, how) = OnGrid(g, lo, hi, step, how)
<1>1. CASE step = 0
  <2>1. OnGrid(hi, lo, hi, step, "nearest") = hi
    BY <1>1 DEF OnGrid, Clamp, Lowest, Highest
  <2> QED
    BY <2>1
<1>2. CASE step # 0
  <2>1. step \in Int /\ step > 0
    BY <1>2
  <2>2. PICK b \in Int : b = Ceil(lo, step) /\ Multiple(b, step) /\ lo <= b /\ b < lo + step
    BY <2>1, LeastIs
  <2>3. PICK top : top = Floor(hi, step)
    OBVIOUS
  <2>4. Multiple(top, step) /\ top <= hi /\ hi < top + step
    BY <2>1, <2>3, NearIs
  <2>5. top \in Int
    BY <2>4, MultipleInt
  <2>6. PICK t : t = OnGrid(hi, lo, hi, step, "nearest")
    OBVIOUS
  <2>7. t = IF top < lo THEN b ELSE top
    BY <2>1, <2>2, <2>3, <2>6, SnappedIs
  <2>8. t \in Int
    BY <2>5, <2>7
  <2>9. PICK down \in Int : Lowered(down, g, lo, hi, step, how)
    BY <2>1, OnGridIs
  <2>10. PICK new \in Int : Lowered(new, g, lo, t, step, how)
    BY <2>1, <2>8, OnGridIs
  <2>11. PICK v : v = OnGrid(g, lo, hi, step, how)
    OBVIOUS
  <2>12. PICK w : w = OnGrid(g, lo, t, step, how)
    OBVIOUS
  <2>13. v = (IF down < lo THEN b ELSE down) /\ Multiple(down, step) /\ down <= hi
    BY <2>2, <2>9, <2>11 DEF Lowered
  <2>14. w = (IF new < lo THEN b ELSE new) /\ Multiple(new, step) /\ new <= t
    BY <2>2, <2>10, <2>12 DEF Lowered
  <2>15. v = w
    <3>1. CASE top < lo
      <4>1. Apart(top, down, step)
        BY <2>1, <2>4, <2>13, MultipleGap
      <4>2. down <= top
        BY <2>4, <2>5, <2>13, <4>1 DEF Apart
      <4>3. Apart(new, b, step)
        BY <2>1, <2>2, <2>14, MultipleGap
      <4>4. new < lo \/ new = b
        BY <2>2, <2>7, <2>14, <3>1, <4>3 DEF Apart
      <4> QED
        BY <2>5, <2>13, <2>14, <3>1, <4>2, <4>4
    <3>2. CASE ~(top < lo)
      <4>1. t = top /\ lo <= t /\ t <= hi
        BY <2>4, <2>5, <2>7, <3>2
      <4>2. PICK c \in Int : c = Clamp(g, lo, hi)
        BY Clamped
      <4>3. PICK e \in Int : e = Clamp(g, lo, t)
        BY <2>8, Clamped
      <4>4. e = (IF c <= t THEN c ELSE t) /\ c <= hi
        BY <2>8, <4>1, <4>2, <4>3 DEF Clamp, Lowest, Highest
      <4>5. PICK near : near = Near(c, step, how)
        OBVIOUS
      <4>6. Multiple(near, step) /\ c - step < near /\ near < c + step
        BY <2>1, <4>2, <4>5, NearIs
      <4>7. near \in Int
        BY <4>6, MultipleInt
      <4>8. PICK exact : exact = Near(t, step, how)
        OBVIOUS
      <4>9. exact = t
        <5>1. Multiple(exact, step) /\ t - step < exact /\ exact < t + step
          BY <2>1, <2>8, <4>8, NearIs
        <5>2. exact \in Int
          BY <5>1, MultipleInt
        <5>3. exact < t + step /\ t < exact + step
          BY <2>8, <5>1, <5>2
        <5> QED
          BY <2>1, <2>4, <4>1, <5>1, <5>3, SameMultiple
      <4>10. Floor(t, step) = t
        <5>1. PICK low : low = Floor(t, step)
          OBVIOUS
        <5>2. Multiple(low, step) /\ low <= t /\ t < low + step
          BY <2>1, <2>8, <5>1, NearIs
        <5>3. low \in Int
          BY <5>2, MultipleInt
        <5>4. low < t + step
          BY <2>1, <2>8, <5>2, <5>3
        <5>5. low = t
          BY <2>1, <2>4, <4>1, <5>2, <5>4, SameMultiple
        <5> QED
          BY <5>1, <5>5
      <4>11. down = IF near > hi THEN top ELSE near
        BY <2>3, <2>9, <4>2, <4>5 DEF Lowered
      <4>12. new = IF Near(e, step, how) > t THEN Floor(t, step) ELSE Near(e, step, how)
        BY <2>10, <4>3 DEF Lowered
      <4>13. Apart(t, near, step)
        BY <2>1, <2>4, <4>1, <4>6, MultipleGap
      <4>14. near > hi <=> near > t
        BY <2>4, <2>5, <4>1, <4>7, <4>13 DEF Apart
      <4>15. Apart(near, t, step)
        BY <2>1, <2>4, <4>1, <4>6, MultipleGap
      <4>16. new = down
        <5>1. CASE c <= t
          <6>1. new = IF near > t THEN t ELSE near
            BY <4>4, <4>5, <4>10, <4>12, <5>1
          <6> QED
            BY <4>1, <4>11, <4>14, <6>1
        <5>2. CASE ~(c <= t)
          <6>1. new = t
            BY <2>8, <4>4, <4>8, <4>9, <4>10, <4>12, <5>2
          <6>2. ~(near < t)
            BY <2>1, <2>8, <4>2, <4>6, <4>7, <4>15, <5>2 DEF Apart
          <6>3. down = t
            BY <2>8, <4>1, <4>7, <4>11, <4>14, <6>2
          <6> QED
            BY <6>1, <6>3
        <5> QED
          BY <5>1, <5>2
      <4> QED
        BY <2>13, <2>14, <4>16
    <3> QED
      BY <3>1, <3>2
  <2> QED
    BY <2>6, <2>11, <2>12, <2>15
<1> QED
  BY <1>1, <1>2

\* A gain whole steps above one on the grid, and not above another, is on it.
LEMMA StepsAbove ==
  ASSUME NEW lo \in Int, NEW hi \in Int, NEW step \in Nat, step # 0,
         NEW a, Member(a, lo, hi, step), NEW b, Member(b, lo, hi, step),
         NEW g \in a .. b, (g - a) % step = 0
  PROVE  Member(g, lo, hi, step)
<1>1. step \in Int /\ step > 0
  OBVIOUS
<1>2. /\ a \in Int /\ b \in Int /\ Multiple(a, step) /\ lo <= a
      /\ (b <= hi \/ b < lo + step)
  BY DEF Member
<1>3. g \in Int /\ a <= g /\ g <= b
  BY <1>2
<1>4. PICK x \in Int : x = g - a
  BY <1>2, <1>3
<1>5. Multiple(x, step)
  <2>1. x % step = x - step * (x \div step)
    BY <1>1
  <2>2. PICK q \in Int : q = x \div step
    BY <1>1, Quotient
  <2>3. x = step * q
    BY <1>1, <1>4, <2>1, <2>2
  <2> QED
    BY <2>3 DEF Multiple
<1>6. Apart(x, a, step)
  BY <1>1, <1>2, <1>5, MultipleGap
<1>7. x + a = g
  BY <1>2, <1>3, <1>4
<1>8. Multiple(g, step)
  BY <1>6, <1>7 DEF Apart
<1>9. lo <= g /\ (g <= hi \/ g < lo + step)
  BY <1>1, <1>2, <1>3
<1> QED
  BY <1>3, <1>8, <1>9 DEF Member

\* What is clamped between gains is one of them, or an end.
LEMMA ClampedOne == ASSUME NEW x, NEW a, NEW b PROVE Clamp(x, a, b) \in {x, a, b}
BY DEF Clamp, Lowest, Highest

\* The gains on the grid of a chain.
On(C, g) == Member(g, C.min, C.ceiling, C.step)

\* A gain put on the grid is on it.
LEMMA GridGainOn ==
  ASSUME NEW C, IsChain(C), NEW x \in Int, NEW how
  PROVE  On(C, GridGain(C, x, how))
BY OnGridOn DEF On, GridGain, IsChain

\* The ends of a chain's grid and the gain its components engage below are on it.
LEMMA GridOn ==
  ASSUME NEW C, IsChain(C)
  PROVE  LET G == NewGrid(C) IN On(C, G.lo) /\ On(C, G.hi) /\ On(C, G.thr)
<1>1. PICK G : G = NewGrid(C)
  OBVIOUS
<1>2. C.min \in Int /\ C.ceiling \in Int /\ C.step \in Nat
  BY DEF IsChain
<1>3. /\ G.lo = GridGain(C, C.min, "nearest") /\ G.hi = GridGain(C, C.ceiling, "nearest")
      /\ C.step = 0 => \E x \in Int : G.thr = Clamp(GridGain(C, x, "nearest"), G.lo, G.hi)
      /\ C.step # 0 => G.thr = G.hi \/ (G.thr \in G.lo .. G.hi /\ (G.thr - G.lo) % C.step = 0)
  BY <1>1, GridIs
<1>4. On(C, G.lo) /\ On(C, G.hi)
  BY <1>2, <1>3, GridGainOn
<1>5. On(C, G.thr)
  <2>1. CASE C.step = 0
    <3>1. PICK x \in Int : G.thr = Clamp(GridGain(C, x, "nearest"), G.lo, G.hi)
      BY <1>3, <2>1
    <3>2. On(C, GridGain(C, x, "nearest"))
      BY GridGainOn
    <3>3. G.thr \in {GridGain(C, x, "nearest"), G.lo, G.hi}
      BY <3>1, ClampedOne
    <3> QED
      BY <1>4, <3>2, <3>3
  <2>2. CASE C.step # 0
    <3>1. CASE G.thr = G.hi
      BY <1>4, <3>1
    <3>2. CASE G.thr \in G.lo .. G.hi /\ (G.thr - G.lo) % C.step = 0
      BY <1>2, <1>4, <2>2, <3>2, StepsAbove DEF On
    <3> QED
      BY <1>3, <2>2, <3>1, <3>2
  <2> QED
    BY <2>1, <2>2
<1> QED
  BY <1>1, <1>4, <1>5

\* The gain a level is realized with is on the grid.
LEMMA RealizeOn ==
  ASSUME NEW C, IsChain(C), NEW p \in Int
  PROVE  On(C, Realize(NewGrid(C), p).gain)
<1>1. PICK G : G = NewGrid(C)
  OBVIOUS
<1>2. PICK target \in Int : target = Target(G, p)
  BY <1>1, RealizeIs
<1>3. PICK gain : gain = Realize(NewGrid(C), p).gain
  OBVIOUS
<1>4. gain \in Tried(G, target)
  BY <1>1, <1>2, <1>3, RealizeIs
<1>5. G.chain = C /\ G.rest \in Int /\ G.reach \in Int
  BY <1>1, GridIs
<1>6. C.min \in Int /\ C.ceiling \in Int /\ C.step \in Nat
  BY DEF IsChain
<1>7. On(C, G.lo) /\ On(C, G.hi) /\ On(C, G.thr)
  BY <1>1, GridOn
<1>8. ASSUME NEW x \in Int, NEW how PROVE On(C, GainOf(G, x, how))
  <2>1. PICK y \in Int : y = x - G.rest
    BY <1>5
  <2>2. Gain(C, y) \in Int
    BY ChainNumbers
  <2>3. GainOf(G, x, how) = GridGain(C, Gain(C, y), how)
    BY <1>5, <2>1 DEF GainOf
  <2> QED
    BY <2>2, <2>3, GridGainOn
<1>9. PICK a : a = GainOf(G, target, "floor")
  OBVIOUS
<1>10. PICK b : b = GainOf(G, target + G.reach, "ceil")
  OBVIOUS
<1>11. On(C, a) /\ On(C, b)
  <2>1. target + G.reach \in Int
    BY <1>2, <1>5
  <2> QED
    BY <1>8, <1>9, <1>10, <2>1
<1>12. PICK from : from = Clamp(a, G.lo, G.hi)
  OBVIOUS
<1>13. PICK to : to = Clamp(b, G.lo, G.hi)
  OBVIOUS
<1>14. On(C, from) /\ On(C, to)
  <2>1. from \in {a, G.lo, G.hi} /\ to \in {b, G.lo, G.hi}
    BY <1>12, <1>13, ClampedOne
  <2> QED
    BY <1>7, <1>11, <2>1
<1>15. Tried(G, target) = IF C.step = 0 THEN {from, to}
         ELSE {G.lo, G.thr, G.hi} \cup {g \in from .. to : (g - from) % C.step = 0}
  BY <1>5, <1>9, <1>10, <1>12, <1>13 DEF Tried, GainPoints
<1>16. On(C, gain)
  <2>1. CASE C.step = 0
    BY <1>4, <1>14, <1>15, <2>1
  <2>2. CASE C.step # 0 /\ gain \in {G.lo, G.thr, G.hi}
    BY <1>7, <2>2
  <2>3. CASE C.step # 0 /\ gain \in from .. to /\ (gain - from) % C.step = 0
    BY <1>6, <1>14, <2>3, StepsAbove DEF On
  <2> QED
    BY <1>4, <1>15, <2>1, <2>2, <2>3
<1> QED
  BY <1>3, <1>16

-----------------------------------------------------------------------------
(* Chains that give the same.                                              *)

\* Chains that look different but give the same level to a gain, the same gain
\* to a level and the same place on the grid to a gain.
Alike(C, D) ==
  /\ C.actives = D.actives /\ C.min = D.min /\ C.step = D.step
  /\ \A x \in Int : Power(C, x) = Power(D, x) /\ Gain(C, x) = Gain(D, x)
  /\ \A x \in Int : \A how \in {"floor", "ceil", "nearest"} : GridGain(C, x, how) = GridGain(D, x, how)
  /\ GridGain(C, C.ceiling, "nearest") = GridGain(D, D.ceiling, "nearest")

\* Their grids are the same: the components, what these take away at rest and at
\* most, both ends and the gain the components engage below.
LEMMA AlikeGrids ==
  ASSUME NEW C, NEW D, IsChain(C), IsChain(D), Alike(C, D)
  PROVE  LET G == NewGrid(C)  H == NewGrid(D) IN
         /\ G.actives = H.actives /\ G.rest = H.rest /\ G.reach = H.reach
         /\ G.lo = H.lo /\ G.hi = H.hi /\ G.thr = H.thr
<1>1. /\ C.actives = D.actives /\ C.min = D.min /\ C.step = D.step /\ C.min \in Int
      /\ GridGain(C, C.ceiling, "nearest") = GridGain(D, D.ceiling, "nearest")
  BY DEF Alike, IsChain
<1>2. \A x \in Int : /\ Power(C, x) = Power(D, x) /\ Power(C, x) \in Int
                     /\ Gain(C, x) = Gain(D, x) /\ Gain(C, x) \in Int
                     /\ GridGain(C, x, "nearest") = GridGain(D, x, "nearest")
                     /\ GridGain(C, x, "nearest") \in Int
  BY ChainNumbers, GridNumbers DEF Alike
<1> DEFINE actives == C.actives
           rest == AtRest(actives)
           reach == Reaches(actives)
           lo == GridGain(C, C.min, "nearest")
           hi == GridGain(C, C.ceiling, "nearest")
           engage == Max({0} \cup {actives[i].engage : i \in DOMAIN actives})
           Threshold(bottom, top) ==
             IF top > bottom THEN bottom + (engage * (top - bottom)) \div 100 ELSE bottom
           gains == IF C.step = 0 THEN {lo, hi} ELSE {g \in lo .. hi : g = hi \/ (g - lo) % C.step = 0}
           Thr(K, threshold) ==
             IF K.step = 0 THEN Clamp(GridGain(K, Gain(K, threshold - rest), "nearest"), lo, hi)
             ELSE Min({hi} \cup {g \in gains : Power(K, g) + rest >= threshold})
           Grid(K) ==
             [chain |-> K, actives |-> actives, rest |-> rest, lo |-> lo, hi |-> hi, gains |-> gains,
              reach |-> reach,
              thr |-> Thr(K, Threshold(Power(K, lo) + rest, Power(K, hi) + rest))]
<1>3. lo = GridGain(D, D.min, "nearest") /\ hi = GridGain(D, D.ceiling, "nearest")
  BY <1>1, <1>2
<1>4. NewGrid(C) = Grid(C)
  BY DEF NewGrid, AtRest, Reaches
<1>5. NewGrid(D) = Grid(D)
  <2> DEFINE Of(acts, l, h, step) ==
        LET at == AtRest(acts)
            engaged == Max({0} \cup {acts[i].engage : i \in DOMAIN acts})
            bottom == Power(D, l) + at
            top == Power(D, h) + at
            threshold == IF top > bottom THEN bottom + (engaged * (top - bottom)) \div 100 ELSE bottom
            all == IF step = 0 THEN {l, h} ELSE {g \in l .. h : g = h \/ (g - l) % step = 0}
        IN [chain |-> D, actives |-> acts, rest |-> at, lo |-> l, hi |-> h, gains |-> all,
            reach |-> Reaches(acts),
            thr |-> IF D.step = 0 THEN Clamp(GridGain(D, Gain(D, threshold - at), "nearest"), l, h)
                    ELSE Min({h} \cup {g \in all : Power(D, g) + at >= threshold})]
  <2>1. NewGrid(D) = Of(D.actives, GridGain(D, D.min, "nearest"), GridGain(D, D.ceiling, "nearest"), D.step)
    BY DEF NewGrid, AtRest, Reaches
  <2>2. Of(actives, lo, hi, C.step) = Grid(D)
    OBVIOUS
  <2>3. Of(D.actives, GridGain(D, D.min, "nearest"), GridGain(D, D.ceiling, "nearest"), D.step)
          = Of(actives, lo, hi, C.step)
    <3>1. /\ D.actives = actives /\ D.step = C.step
          /\ GridGain(D, D.min, "nearest") = lo /\ GridGain(D, D.ceiling, "nearest") = hi
      BY <1>1, <1>3
    <3> HIDE DEF Of, actives, lo, hi
    <3> QED
      BY <3>1
  <2> HIDE DEF Of, Grid
  <2> QED
    BY <2>1, <2>2, <2>3
<1>6. lo \in Int /\ hi \in Int
  BY <1>1, <1>2, GridNumbers DEF IsChain
<1>7. rest \in Int
  BY RestIs DEF IsChain
<1>8. gains \in SUBSET Int
  BY <1>6
<1> HIDE DEF lo, hi, rest, reach, gains
<1>9. PICK bottom \in Int, top \in Int : bottom = Power(C, lo) + rest /\ top = Power(C, hi) + rest
  BY <1>2, <1>6, <1>7
<1>10. bottom = Power(D, lo) + rest /\ top = Power(D, hi) + rest
  BY <1>2, <1>6, <1>9
<1>11. engage \in Int
  <2> DEFINE f == [i \in DOMAIN actives |-> actives[i].engage]
             E == {f[i] : i \in DOMAIN actives}
             engages == {0} \cup {actives[i].engage : i \in DOMAIN actives}
  <2>0. Components(actives)
    BY DEF IsChain
  <2>1. IsFiniteSet(DOMAIN actives)
    BY <2>0, FS_Interval DEF Components
  <2>2. IsFiniteSet(E)
    <3> HIDE DEF f
    <3> QED
      BY <2>1, ImageFinite
  <2>3. engages = E \cup {0}
    OBVIOUS
  <2>4. engages \in SUBSET Int /\ engages # {}
    BY <2>0 DEF Components, IsComponent
  <2>5. IsFiniteSet(engages)
    <3> HIDE DEF E, engages
    <3> QED
      BY <2>2, <2>3, FS_AddElement
  <2>6. engage = Max(engages)
    OBVIOUS
  <2> HIDE DEF engages, engage
  <2> QED
    BY <2>4, <2>5, <2>6, MaxOf
<1> HIDE DEF engage
<1>12. PICK threshold : threshold = Threshold(bottom, top)
  OBVIOUS
<1>13. threshold \in Int
  <2>1. engage * (top - bottom) \in Int
    BY <1>9, <1>11
  <2>2. (engage * (top - bottom)) \div 100 \in Int
    BY <2>1, Quotient
  <2> QED
    BY <1>9, <1>12, <2>2
<1> HIDE DEF Threshold
<1>14. Thr(C, threshold) = Thr(D, threshold)
  <2>1. CASE C.step = 0
    <3>1. PICK x \in Int : x = threshold - rest
      BY <1>7, <1>13
    <3>2. GridGain(C, Gain(C, x), "nearest") = GridGain(D, Gain(D, x), "nearest")
      BY <1>2
    <3> QED
      BY <1>1, <2>1, <3>1, <3>2
  <2>2. CASE C.step # 0
    <3>1. {g \in gains : Power(C, g) + rest >= threshold} = {g \in gains : Power(D, g) + rest >= threshold}
      BY <1>2, <1>8
    <3> QED
      BY <1>1, <2>2, <3>1
  <2> QED
    BY <2>1, <2>2
<1>15. Grid(C).thr = Grid(D).thr
  <2> HIDE DEF Thr
  <2> QED
    BY <1>9, <1>10, <1>12, <1>14
<1> HIDE DEF Thr
<1> QED
  BY <1>4, <1>5, <1>15

\* Such chains realize a level alike: the same gain and the same settings.
LEMMA AlikeRealize ==
  ASSUME NEW C, NEW D, IsChain(C), IsChain(D), Alike(C, D), NEW p \in Int
  PROVE  Realize(NewGrid(C), p) = Realize(NewGrid(D), p)
<1>1. PICK G : G = NewGrid(C)
  OBVIOUS
<1>2. PICK H : H = NewGrid(D)
  OBVIOUS
<1>3. /\ G.actives = H.actives /\ G.rest = H.rest /\ G.reach = H.reach
      /\ G.lo = H.lo /\ G.hi = H.hi /\ G.thr = H.thr
  BY <1>1, <1>2, AlikeGrids
<1>4. G.chain = C /\ H.chain = D /\ G.rest \in Int /\ G.reach \in Int /\ C.step = D.step
  BY <1>1, <1>2, GridIs DEF Alike
<1>5. On(C, G.lo) /\ On(C, G.hi)
  BY <1>1, GridOn
<1>6. G.lo \in Int /\ G.hi \in Int
  BY <1>5 DEF On, Member
<1>7. \A g \in Int : Base(G, g) = Base(H, g)
  BY <1>3, <1>4 DEF Base, Alike
<1>8. ASSUME NEW x \in Int, NEW how \in {"floor", "ceil", "nearest"}
      PROVE  GainOf(G, x, how) = GainOf(H, x, how)
  <2>1. PICK y \in Int : y = x - G.rest
    BY <1>4
  <2>2. PICK g \in Int : g = Gain(C, y) /\ g = Gain(D, y)
    BY ChainNumbers DEF Alike
  <2>3. GridGain(C, g, how) = GridGain(D, g, how)
    BY DEF Alike
  <2> QED
    BY <1>3, <1>4, <2>1, <2>2, <2>3 DEF GainOf
<1>9. PICK target \in Int : target = Target(G, p)
  BY <1>1, RealizeIs
<1>10. target = Target(H, p)
  BY <1>3, <1>6, <1>7, <1>9 DEF Target
<1>11. Tried(G, target) = Tried(H, target)
  <2>1. target + G.reach \in Int
    BY <1>4, <1>9
  <2>2. GainOf(G, target, "floor") = GainOf(H, target, "floor")
    BY <1>8, <1>9
  <2>3. GainOf(G, target + G.reach, "ceil") = GainOf(H, target + H.reach, "ceil")
    BY <1>3, <1>8, <2>1
  <2> QED
    BY <1>3, <1>4, <2>2, <2>3 DEF Tried, GainPoints
<1>12. \A g \in Int : Trial(G, g, target) = Trial(H, g, target)
  <2> SUFFICES ASSUME NEW g \in Int PROVE Trial(G, g, target) = Trial(H, g, target)
    OBVIOUS
  <2>1. PICK base : base = Base(G, g) /\ base = Base(H, g)
    BY <1>7
  <2>2. SnapReduction(G, base - target) = SnapReduction(H, base - target)
    BY <1>3 DEF SnapReduction
  <2> QED
    BY <1>3, <2>1, <2>2 DEF Trial
<1>13. \A g \in Tried(G, target) : g \in Int
  <2>1. PICK from : from = Clamp(GainOf(G, target, "floor"), G.lo, G.hi)
    OBVIOUS
  <2>2. PICK to : to = Clamp(GainOf(G, target + G.reach, "ceil"), G.lo, G.hi)
    OBVIOUS
  <2>3. ASSUME NEW x \in Int, NEW how PROVE GainOf(G, x, how) \in Int
    <3>1. PICK y \in Int : y = x - G.rest
      BY <1>4
    <3>2. Gain(C, y) \in Int
      BY ChainNumbers
    <3>3. GainOf(G, x, how) = GridGain(C, Gain(C, y), how)
      BY <1>4, <3>1 DEF GainOf
    <3> QED
      BY <3>2, <3>3, GridNumbers
  <2>4. from \in Int /\ to \in Int
    <3>1. target + G.reach \in Int
      BY <1>4, <1>9
    <3>2. GainOf(G, target, "floor") \in Int /\ GainOf(G, target + G.reach, "ceil") \in Int
      BY <1>9, <2>3, <3>1
    <3> QED
      BY <1>6, <2>1, <2>2, <3>2, Clamped
  <2>5. G.thr \in Int
    BY <1>1, GridOn DEF On, Member
  <2>6. Tried(G, target) = IF C.step = 0 THEN {from, to}
         ELSE {G.lo, G.thr, G.hi} \cup {g \in from .. to : (g - from) % C.step = 0}
    BY <1>4, <2>1, <2>2 DEF Tried, GainPoints
  <2> QED
    BY <1>6, <2>4, <2>5, <2>6
<1>14. PICK tried : tried = Tried(G, target) /\ tried = Tried(H, target)
  BY <1>11
<1>15. {Trial(G, g, target) : g \in tried} = {Trial(H, g, target) : g \in tried}
  BY <1>12, <1>13, <1>14
<1>16. PICK trials : trials = {Trial(G, g, target) : g \in tried} /\ trials = {Trial(H, g, target) : g \in tried}
  BY <1>15
<1>17. Realize(G, p) = CHOOSE s \in trials : \A t \in trials : RankLE(s.rank, t.rank)
  BY <1>9, <1>14, <1>16 DEF Realize
<1>18. Realize(H, p) = CHOOSE s \in trials : \A t \in trials : RankLE(s.rank, t.rank)
  BY <1>10, <1>14, <1>16 DEF Realize
<1> QED
  BY <1>1, <1>2, <1>17, <1>18

-----------------------------------------------------------------------------
(* The chains of the two ends.                                             *)

\* The measured plane the operating plane comes from, and what is lost on the
\* way to it.
Meter(d) == BuildPlanes(d)[Gauge(d, d.operating)]
Loss(d, f) == SumAt(HopTables(BuildPlanes(d), d.operating), f)
\* They have numbers.
LEMMA MeterIs ==
  ASSUME NEW d, Fit(d), NEW f \in Int
  PROVE  /\ Meter(d).curve \in Points /\ IsCurve(Meter(d).curve) /\ IsTable(Meter(d).curve)
         /\ Meter(d).offset \in Int /\ Loss(d, f) \in Int /\ Bias(d, f) \in Int
<1>1. d.operating \in GaugedPlanes(d)
  BY DEF GaugedPlanes
<1>2. /\ Meter(d).curve \in Points /\ IsCurve(Meter(d).curve) /\ Meter(d).offset \in Int
      /\ Tables(HopTables(BuildPlanes(d), d.operating))
  BY <1>1, GaugeIs DEF Meter
<1>3. Loss(d, f) \in Int
  BY <1>2, SumAtIs DEF Loss
<1> QED
  BY <1>2, <1>3, BiasBothEnds DEF IsCurve

\* A document both of whose ends have the same: no reported reading of its own,
\* and a cap ahead of hops that add up to 0 dB.
Same(d) ==
  /\ d.reported.kind # "own" /\ d.reported.curve = <<>>
  /\ d.limiting.cap # Inf => \A f \in Freqs : Loss(d, f) = 0

\* The resolved planes have that plane as it is.
LEMMA MeteredIs ==
  ASSUME NEW d, Fit(d), Same(d)
  PROVE  LET m == Final(d)[Gauge(d, d.operating)] IN
         /\ AnchorPlane(Final(d), d.operating, FALSE) = Gauge(d, d.operating)
         /\ m.curve = Meter(d).curve /\ m.mode = Meter(d).mode /\ m.offset = Meter(d).offset
         /\ m.own.reported = <<>>
         /\ HopTables(Final(d), d.operating) = HopTables(BuildPlanes(d), d.operating)
<1> DEFINE g == BasePlane(d)
           B == BuildPlanes(d)
<1>1. d.operating \in GaugedPlanes(d)
  BY DEF GaugedPlanes
<1>2. /\ DOMAIN B = Names(d) /\ g \in Names(d) /\ Good(B) /\ Good(Read(d)) /\ SamePath(B, Read(d))
      /\ SamePath(B, Final(d)) /\ ~B[g].derived
      /\ d.bias # <<>> => SourcePlane(d, Read(d)) = g
  BY PlanesIs
<1>3. /\ AnchorPlane(B, d.operating, FALSE) = Gauge(d, d.operating)
      /\ AnchorPlane(Final(d), d.operating, FALSE) = Gauge(d, d.operating)
      /\ Final(d)[Gauge(d, d.operating)].curve = B[Gauge(d, d.operating)].curve
      /\ Final(d)[Gauge(d, d.operating)].mode = B[Gauge(d, d.operating)].mode
      /\ Final(d)[Gauge(d, d.operating)].offset = B[Gauge(d, d.operating)].offset
      /\ HopTables(Final(d), d.operating) = HopTables(B, d.operating)
  <2>1. AnchorPlane(B, d.operating, FALSE) = Gauge(d, d.operating)
    BY <1>1, GaugeIs
  <2>2. PICK F : F = Final(d) /\ SamePath(BuildPlanes(d), F)
    BY <1>2
  <2>3. /\ AnchorPlane(F, d.operating, FALSE) = Gauge(d, d.operating)
        /\ F[Gauge(d, d.operating)].curve = BuildPlanes(d)[Gauge(d, d.operating)].curve
        /\ F[Gauge(d, d.operating)].mode = BuildPlanes(d)[Gauge(d, d.operating)].mode
        /\ F[Gauge(d, d.operating)].offset = BuildPlanes(d)[Gauge(d, d.operating)].offset
        /\ HopTables(F, d.operating) = HopTables(BuildPlanes(d), d.operating)
    <3> HIDE DEF B
    <3> QED
      BY <1>1, <2>2, GaugeIs
  <2> QED
    BY <2>1, <2>2, <2>3
<1>4. g = Gauge(d, d.operating)
  BY <1>3 DEF BasePlane
<1> DEFINE own == [reported |-> d.reported.curve, limiting |-> d.limiting.curve]
<1>5. Read(d)[g].own = own
  <2>1. IsGauge(B[g])
    BY <1>2 DEF Good, GoodGauge
  <2>2. Read(d)[g] = [B[g] EXCEPT !.own = own]
    BY <1>2 DEF Read
  <2> HIDE DEF B, g, own
  <2> QED
    BY <2>1, <2>2 DEF IsGauge
<1>6. Final(d)[g].own = own
  <2>1. CASE Zeroed(d) = <<>>
    BY <1>5, <2>1 DEF Final
  <2>2. CASE Zeroed(d) # <<>>
    <3>1. d.bias # <<>>
      BY <2>2 DEF Zeroed, BiasOf
    <3>2. SourcePlane(d, Read(d)) = g /\ g \in DOMAIN Read(d) /\ ~Read(d)[g].derived
      BY <1>2, <3>1 DEF SamePath
    <3>3. IsGauge(Read(d)[g])
      BY <1>2, <3>2 DEF Good, GoodGauge
    <3>4. Final(d)[g] = [Read(d)[g] EXCEPT !.bias = Zeroed(d)]
      BY <2>2, <3>2 DEF Final
    <3> HIDE DEF B, g, own
    <3> QED
      BY <1>5, <3>3, <3>4 DEF IsGauge
  <2> QED
    BY <2>1, <2>2
<1>7. own.reported = <<>>
  BY DEF Same
<1> HIDE DEF own, B, g
<1> QED
  BY <1>3, <1>4, <1>6, <1>7 DEF Meter, B

\* The chain of either end.
ChainOf(d, curve, shift, ceiling) ==
  [curve |-> curve, mode |-> Meter(d).mode, shift |-> shift, min |-> d.min, ceiling |-> ceiling,
   step |-> d.step, actives |-> Actives(d)]
\* It is one.
LEMMA ChainOfIs ==
  ASSUME NEW d, Fit(d), NEW curve \in Points, IsCurve(curve), NEW shift \in Int, NEW ceiling \in Int
  PROVE  IsChain(ChainOf(d, curve, shift, ceiling))
<1>1. d.min \in Int /\ d.step \in Nat
  BY DEF Fit, Whole
<1>2. Components(Actives(d))
  <2>1. \E r : Resolution(d, r)
    BY ResolveIs DEF Resolution
  <2> QED
    BY <2>1, ActivesIs
<1> QED
  BY <1>1, <1>2 DEF ChainOf, IsChain

\* The agent works on the measured curve, the script on the published one.
AgentChain(d, r, f) ==
  ChainOf(d, Meter(d).curve, Meter(d).offset + Bias(d, f) + Loss(d, f), MaxGainAt(r, f))
ScriptChain(d, a, f) ==
  ChainOf(d, Shifted(Meter(d).curve, Meter(d).offset), Loss(d, f) + Bias(d, f), ScriptCeiling(a, f))
\* The agent's grid is that of its chain.
LEMMA AgentGridIs ==
  ASSUME NEW d, Fit(d), Same(d), NEW r, Resolution(d, r), NEW f \in Freqs
  PROVE  IsChain(AgentChain(d, r, f)) /\ GridAt(r, f) = NewGrid(AgentChain(d, r, f))
<1>1. f \in Int /\ f # NoFreq
  BY AskedAssumption DEF NoFreq
<1>2. /\ Meter(d).curve \in Points /\ IsCurve(Meter(d).curve)
      /\ Meter(d).offset \in Int /\ Loss(d, f) \in Int /\ Bias(d, f) \in Int
  BY <1>1, MeterIs
<1>3. MaxGainAt(r, f) \in Int
  BY <1>1, MaxGainIs
<1>4. IsChain(AgentChain(d, r, f))
  <2>1. PICK shift \in Int : shift = Meter(d).offset + Bias(d, f) + Loss(d, f)
    BY <1>2
  <2> QED
    BY <1>2, <1>3, <2>1, ChainOfIs DEF AgentChain
<1>5. GridAt(r, f) = NewGrid(AgentChain(d, r, f))
  <2>1. PICK m : m = Final(d)[Gauge(d, d.operating)]
    OBVIOUS
  <2>2. /\ AnchorPlane(Final(d), d.operating, FALSE) = Gauge(d, d.operating)
        /\ m.curve = Meter(d).curve /\ m.mode = Meter(d).mode /\ m.offset = Meter(d).offset
        /\ m.own.reported = <<>>
        /\ HopTables(Final(d), d.operating) = HopTables(BuildPlanes(d), d.operating)
    BY <2>1, MeteredIs
  <2>3. /\ r.planes = Final(d) /\ r.doc.operating = d.operating
        /\ r.doc.min = d.min /\ r.doc.step = d.step
    BY DEF Resolution
  <2>4. EffFreq(r, f) = f
    BY <1>1 DEF EffFreq
  <2>5. [i \in DOMAIN ActiveHops(r) |-> r.planes[ActiveHops(r)[i]].active[1]] = Actives(d)
    BY <2>3, ActivesIs DEF Actives
  <2>6. CurveFor(m, "reported") = Meter(d).curve
    BY <2>2 DEF CurveFor
  <2>7. BiasAt(m, f) = Bias(d, f)
    BY <1>1, <2>1, BiasBothEnds
  <2>8. SumAt(HopTables(r.planes, r.doc.operating), f) = Loss(d, f)
    BY <2>2, <2>3 DEF Loss
  <2>9. m = r.planes[AnchorPlane(r.planes, r.doc.operating, FALSE)]
    BY <2>1, <2>2, <2>3
  <2>10. GridAt(r, f) = NewGrid([curve |-> CurveFor(m, "reported"), mode |-> m.mode,
              shift |-> m.offset + BiasAt(m, f) + SumAt(HopTables(r.planes, r.doc.operating), f),
              min |-> r.doc.min, ceiling |-> MaxGainAt(r, f), step |-> r.doc.step,
              actives |-> [i \in DOMAIN ActiveHops(r) |-> r.planes[ActiveHops(r)[i]].active[1]]])
    BY <2>4, <2>9 DEF GridAt
  <2> QED
    BY <2>2, <2>3, <2>5, <2>6, <2>7, <2>8, <2>10 DEF AgentChain, ChainOf
<1> QED
  BY <1>4, <1>5

\* The script's grid is that of its own.
LEMMA ScriptGridIs ==
  ASSUME NEW d, Fit(d), NEW a, Written(d, a), Exact(d, a), NEW f \in Freqs
  PROVE  /\ IsChain(ScriptChain(d, a, f)) /\ ScriptGrid(a, f) = NewGrid(ScriptChain(d, a, f))
         /\ OpDelta(a, f) = Loss(d, f) /\ SourceBiasAt(a, f) = Bias(d, f)
         /\ a.curve = Shifted(Meter(d).curve, Meter(d).offset) /\ a.mode = Meter(d).mode
         /\ a.min = d.min /\ a.step = d.step /\ a.actives = Actives(d) /\ a.reported = d.reported.k
<1>1. f \in Int /\ f # NoFreq /\ ScriptCeiling(a, f) \in Int /\ a.curve \in Points /\ IsCurve(a.curve)
  BY ScriptCeilingIs
<1>2. Artifact(d, a)
  BY DEF Written
<1>3. Loss(d, f) \in Int /\ Bias(d, f) \in Int
  BY <1>1, MeterIs
<1>4. OpDelta(a, f) = Loss(d, f)
  BY <1>1 DEF OpDelta, Exact, Loss
<1>5. SourceBiasAt(a, f) = Bias(d, f)
  BY <1>1, <1>2, BiasBothEnds
<1>6. /\ a.curve = Shifted(Meter(d).curve, Meter(d).offset) /\ a.mode = Meter(d).mode
      /\ a.min = d.min /\ a.step = d.step /\ a.actives = Actives(d) /\ a.reported = d.reported.k
  BY <1>2 DEF Artifact, Meter
<1>7. IsChain(ScriptChain(d, a, f))
  <2>1. PICK shift \in Int : shift = Loss(d, f) + Bias(d, f)
    BY <1>3
  <2> QED
    BY <1>1, <1>6, <2>1, ChainOfIs DEF ScriptChain
<1>8. EffFreq(a, f) = f
  BY <1>1 DEF EffFreq
<1>9. ScriptGrid(a, f) = NewGrid(ScriptChain(d, a, f))
  BY <1>4, <1>5, <1>6, <1>8 DEF ScriptGrid, ScriptChain, ChainOf
<1> QED
  BY <1>4, <1>5, <1>6, <1>7, <1>9

-----------------------------------------------------------------------------
(* Both ends give the same.                                                *)

\* What caps the agent caps the script.
LEMMA SameLimit ==
  ASSUME NEW d, Fit(d), NEW a, Artifact(d, a), NEW f \in Int, NEW p \in GaugedPlanes(d),
         Gauge(d, p) = Gauge(d, d.operating), NEW max \in Int, NEW via \in BOOLEAN
  PROVE  CeilingFor(d, Final(d), p, max, via, f)
           = OnScript(a, max - SumAt(HopTables(BuildPlanes(d), p), f) - Reading(d, via) - Bias(d, f))
<1>1. SamePath(BuildPlanes(d), Final(d)) /\ Good(Final(d))
  BY PlanesIs
<1>2. PICK u : u = LevelLeft(d, Final(d), p, max, via, f)
  OBVIOUS
<1>3. /\ u \in Int
      /\ CeilingFor(d, Final(d), p, max, via, f) =
           InterpExtrap(u, Flipped(BuildPlanes(d)[Gauge(d, p)].curve), BuildPlanes(d)[Gauge(d, p)].mode)
      /\ SumAt(HopTables(BuildPlanes(d), p), f) \in Int
  BY <1>1, <1>2, CeilingIs
<1>4. PICK sum \in Int : sum = SumAt(HopTables(BuildPlanes(d), p), f)
  BY <1>3
<1>5. PICK offset \in Int, bias \in Int : offset = Meter(d).offset /\ bias = Bias(d, f)
  BY MeterIs
<1>6. PICK k \in Int : k = Reading(d, via)
  BY DEF Reading, Fit, Whole
<1>7. u = max - k - sum - offset - bias
  BY <1>2, <1>4, <1>5, <1>6, BiasBothEnds DEF LevelLeft, Meter
<1>8. u + offset = max - sum - k - bias
  BY <1>3, <1>7
<1>9. Meter(d).curve \in Points /\ IsCurve(Meter(d).curve)
  BY MeterIs
<1>10. InterpExtrap(u + offset, Flipped(Shifted(Meter(d).curve, offset)), Meter(d).mode)
         = InterpExtrap(u, Flipped(Meter(d).curve), Meter(d).mode)
  BY <1>3, <1>9, ShiftedGain
<1>11. a.curve = Shifted(Meter(d).curve, offset) /\ a.mode = Meter(d).mode
  BY <1>5 DEF Artifact, Meter
<1>12. CeilingFor(d, Final(d), p, max, via, f) = InterpExtrap(u, Flipped(Meter(d).curve), Meter(d).mode)
  BY <1>3 DEF Meter
<1>13. OnScript(a, max - sum - k - bias) = CeilingFor(d, Final(d), p, max, via, f)
  BY <1>8, <1>10, <1>11, <1>12 DEF OnScript
<1> QED
  BY <1>4, <1>5, <1>6, <1>13

\* The ceiling of the script is that of the agent, or that one on the grid.
LEMMA SameCeiling ==
  ASSUME NEW d, Fit(d), Same(d), NEW r, Resolution(d, r),
         NEW a, Written(d, a), Exact(d, a), NEW f \in Freqs
  PROVE  LET c == MaxGainAt(r, f) IN
         /\ c \in Int
         /\ \/ ScriptCeiling(a, f) = c
            \/ ScriptCeiling(a, f) = OnGrid(c, d.min, c, d.step, "nearest")
<1>1. f \in Int
  BY AskedAssumption
<1>2. Artifact(d, a)
  BY DEF Written
<1>3. PICK c \in Int : c = MaxGainAt(r, f)
  BY <1>1, MaxGainIs
<1>4. Moving(d) = {} /\ d.limiting.cap = Inf => c = FixedCeiling(d)
  BY <1>1, <1>3, MaxGainIs
<1> DEFINE H == {CeilingFor(d, Final(d), l.plane, l.max, l.via, f) : l \in Moving(d)}
           K == {CeilingOf(a, pl, f) : pl \in a.limits}
           top == CeilingFor(d, Final(d), d.operating, d.limiting.cap, TRUE, f)
           cap == Invert(a, a.cap - a.limiting - SourceBiasAt(a, f))
           V == IF d.limiting.cap = Inf THEN {} ELSE {top}
           W == IF a.cap = Inf THEN {} ELSE {cap}
<1>5. c = Min({FixedCeiling(d)} \cup V \cup H)
  BY <1>3 DEF MaxGainAt, Resolution
<1>6. ScriptCeiling(a, f) = Min({a.ceiling} \cup K \cup W)
  BY DEF ScriptCeiling
<1>7. /\ \A pl \in a.limits : \E l \in Moving(d) : Publishes(d, l, pl)
      /\ \A l \in Moving(d) : /\ \E pl \in a.limits : Publishes(d, l, pl)
                              /\ Gauge(d, l.plane) = Gauge(d, d.operating)
  BY DEF Written
<1>8. ASSUME NEW l \in Moving(d), NEW pl, Publishes(d, l, pl)
      PROVE  CeilingFor(d, Final(d), l.plane, l.max, l.via, f) = CeilingOf(a, pl, f)
  <2>1. l.plane \in GaugedPlanes(d) /\ l.max \in Int /\ l.via \in BOOLEAN
    BY LimitsAre DEF Moving, GaugedPlanes
  <2>2. Gauge(d, l.plane) = Gauge(d, d.operating)
    BY <1>7
  <2>3. CeilingFor(d, Final(d), l.plane, l.max, l.via, f) = OnScript(a, ScriptLevel(d, l, f))
    BY <1>1, <1>2, <2>1, <2>2, SameLimit DEF ScriptLevel
  <2>4. CeilingOf(a, pl, f) = OnScript(a, ScriptLevel(d, l, f))
    BY <1>2, <1>8, ScriptLimitIs
  <2> QED
    BY <2>3, <2>4
<1>9. H = K
  BY <1>7, <1>8
<1>10. V = W
  <2>1. a.cap = d.limiting.cap /\ a.limiting = d.limiting.k /\ d.limiting.cap \in Int
    BY <1>2 DEF Artifact, Fit, Whole
  <2>2. ASSUME d.limiting.cap # Inf PROVE top = cap
    <3>1. d.operating \in GaugedPlanes(d) /\ TRUE \in BOOLEAN
      BY DEF GaugedPlanes
    <3>2. top = OnScript(a, d.limiting.cap - Loss(d, f) - Reading(d, TRUE) - Bias(d, f))
      BY <1>1, <1>2, <2>1, <3>1, SameLimit DEF Loss
    <3>3. Loss(d, f) = 0 /\ Reading(d, TRUE) = d.limiting.k
      BY <2>2 DEF Same, Reading
    <3>4. d.limiting.cap - 0 = d.limiting.cap
      BY <2>1
    <3>5. SourceBiasAt(a, f) = Bias(d, f)
      BY <1>1, <1>2, BiasBothEnds
    <3> HIDE DEF top
    <3> QED
      BY <2>1, <3>2, <3>3, <3>4, <3>5 DEF Invert, OnScript
  <2> HIDE DEF top, cap
  <2> QED
    BY <2>1, <2>2
<1>11. FixedCeiling(d) \in Int
  BY FixedCeilingIs
<1>12. CASE a.ceiling = FixedCeiling(d)
  <2>1. {FixedCeiling(d)} \cup V \cup H = {a.ceiling} \cup K \cup W
    <3> HIDE DEF H, K, V, W
    <3> QED
      BY <1>9, <1>10, <1>12
  <2> HIDE DEF H, K, V, W
  <2> QED
    BY <1>3, <1>5, <1>6, <2>1
<1>13. CASE Moving(d) = {} /\ d.limiting.cap = Inf /\ a.ceiling = Snapped(d)
  <2>1. c = FixedCeiling(d) /\ H = {} /\ V = {}
    BY <1>4, <1>13
  <2> HIDE DEF H, K, V, W
  <2>2. {a.ceiling} \cup K \cup W = {a.ceiling}
    BY <1>9, <1>10, <2>1
  <2>3. a.ceiling \in Int
    BY <1>2 DEF Artifact
  <2>4. Min({a.ceiling}) = a.ceiling
    BY <2>3 DEF Min
  <2>5. ScriptCeiling(a, f) = OnGrid(c, d.min, c, d.step, "nearest")
    BY <1>6, <1>13, <2>1, <2>2, <2>4 DEF Snapped
  <2> QED
    BY <1>3, <2>5
<1> QED
  BY <1>12, <1>13 DEF Exact

\* So the chains of both ends are alike, and a level is realized the same way.
LEMMA SameChain ==
  ASSUME NEW d, Fit(d), Same(d), NEW r, Resolution(d, r),
         NEW a, Written(d, a), Exact(d, a), NEW f \in Freqs
  PROVE  Alike(AgentChain(d, r, f), ScriptChain(d, a, f))
<1> DEFINE C == AgentChain(d, r, f)
           D == ScriptChain(d, a, f)
<1>1. f \in Int
  BY AskedAssumption
<1>2. PICK c \in Int, e \in Int :
        /\ c = MaxGainAt(r, f) /\ e = ScriptCeiling(a, f)
        /\ e = c \/ e = OnGrid(c, d.min, c, d.step, "nearest")
  BY SameCeiling, ScriptCeilingIs
<1>3. PICK offset \in Int, bias \in Int, loss \in Int :
        offset = Meter(d).offset /\ bias = Bias(d, f) /\ loss = Loss(d, f)
  BY <1>1, MeterIs
<1>4. PICK T \in Points : T = Meter(d).curve /\ IsCurve(T) /\ IsTable(T)
  BY <1>1, MeterIs
<1>5. PICK mode : mode = Meter(d).mode
  OBVIOUS
<1>6. d.min \in Int /\ d.step \in Nat
  BY DEF Fit, Whole
<1>7. /\ C.curve = T /\ C.mode = mode /\ C.shift = offset + bias + loss /\ C.min = d.min
      /\ C.ceiling = c /\ C.step = d.step /\ C.actives = Actives(d)
  BY <1>2, <1>3, <1>4, <1>5 DEF AgentChain, ChainOf
<1>8. /\ D.curve = Shifted(T, offset) /\ D.mode = mode /\ D.shift = loss + bias /\ D.min = d.min
      /\ D.ceiling = e /\ D.step = d.step /\ D.actives = Actives(d)
  BY <1>2, <1>3, <1>4, <1>5 DEF ScriptChain, ChainOf
<1> HIDE DEF C, D
<1>9. ASSUME NEW x \in Int PROVE Power(C, x) = Power(D, x) /\ Gain(C, x) = Gain(D, x)
  <2>1. PICK level \in Int : level = InterpExtrap(x, T, mode)
    BY <1>4, InterpNumber
  <2>2. InterpExtrap(x, Shifted(T, offset), mode) = level + offset
    BY <1>4, <2>1, ShiftedLevel
  <2>3. Power(C, x) = level + (offset + bias + loss) /\ Power(D, x) = level + offset + (loss + bias)
    BY <1>7, <1>8, <2>1, <2>2 DEF Power
  <2>4. PICK u \in Int : u = x - (offset + bias + loss)
    OBVIOUS
  <2>5. x - (loss + bias) = u + offset
    BY <2>4
  <2>6. InterpExtrap(u + offset, Flipped(Shifted(T, offset)), mode) = InterpExtrap(u, Flipped(T), mode)
    BY <1>4, ShiftedGain
  <2>7. Gain(C, x) = InterpExtrap(u, Flipped(T), mode)
    BY <1>7, <2>4 DEF Gain
  <2>8. Gain(D, x) = InterpExtrap(u + offset, Flipped(Shifted(T, offset)), mode)
    BY <1>8, <2>5 DEF Gain
  <2> QED
    BY <2>3, <2>6, <2>7, <2>8
<1>10. ASSUME NEW x \in Int, NEW how PROVE GridGain(C, x, how) = GridGain(D, x, how)
  <2>1. OnGrid(x, d.min, OnGrid(c, d.min, c, d.step, "nearest"), d.step, how)
          = OnGrid(x, d.min, c, d.step, how)
    BY <1>6, SnappedCeiling
  <2> QED
    BY <1>2, <1>7, <1>8, <2>1 DEF GridGain
<1>11. GridGain(C, C.ceiling, "nearest") = GridGain(D, D.ceiling, "nearest")
  <2>1. CASE e = c
    BY <1>7, <1>8, <1>10, <2>1
  <2>2. CASE e = OnGrid(c, d.min, c, d.step, "nearest")
    <3>1. Member(e, d.min, c, d.step)
      BY <1>6, <2>2, OnGridOn
    <3>2. OnGrid(e, d.min, c, d.step, "nearest") = e
      BY <1>6, <3>1, OnGridMember
    <3>3. GridGain(C, e, "nearest") = e /\ GridGain(C, c, "nearest") = e
      BY <1>7, <2>2, <3>2 DEF GridGain
    <3> QED
      BY <1>7, <1>8, <1>10, <3>3
  <2> QED
    BY <1>2, <2>1, <2>2
<1>12. C.actives = D.actives /\ C.min = D.min /\ C.step = D.step
  BY <1>7, <1>8
<1>13. Alike(C, D)
  BY <1>9, <1>10, <1>11, <1>12 DEF Alike
<1> QED
  BY <1>13 DEF C, D

\* Nothing adds up to 0.
LEMMA SumOfNone == ASSUME NEW h PROVE SumOf({}, h) = 0
<1> DEFINE hs == [i \in {} |-> h[i]]
           Rec(it) == [s \in SUBSET {} |-> IF s = {} THEN 0
                        ELSE LET x == CHOOSE x \in s : TRUE IN h[x] + it[s \ {x}]]
           p == CHOOSE it : it = Rec(it)
<1>1. SumOf({}, h) = p[{}]
  BY DEF SumOf, SumOver, MapThenSumSet, MapThenFoldSet
<1>2. \E it : it = Rec(it)
  <2>1. Rec(0) = Rec(Rec(0))
    OBVIOUS
  <2> QED
    BY <2>1
<1>3. p = Rec(p)
  BY <1>2
<1>4. \A it : Rec(it)[{}] = 0
  OBVIOUS
<1> HIDE DEF Rec, p
<1> QED
  BY <1>1, <1>3, <1>4

\* The split the script works out is the one the agent has set.
LEMMA SameSplit ==
  ASSUME NEW d, Fit(d), Same(d), NEW r, Resolution(d, r),
         NEW a, Written(d, a), Exact(d, a), NEW f \in Freqs, NEW p \in Int
  PROVE  PinnedApplied(a, p, f) = SumOf(DOMAIN SettingsOf(r, f, p), SettingsOf(r, f, p))
<1>1. PICK C : C = AgentChain(d, r, f) /\ IsChain(C) /\ GridAt(r, f) = NewGrid(C)
  BY AgentGridIs
<1>2. PICK D : D = ScriptChain(d, a, f) /\ IsChain(D) /\ ScriptGrid(a, f) = NewGrid(D)
  BY ScriptGridIs
<1>3. d.reported.k \in Int /\ ReportedDelta(r) = d.reported.k /\ a.reported = d.reported.k
  BY ScriptGridIs DEF ReportedDelta, Resolution, Same, Fit, Whole
<1>4. PICK x \in Int : x = p - d.reported.k
  BY <1>3
<1>5. Alike(C, D)
  BY <1>1, <1>2, SameChain
<1>6. PICK s : s = Realize(NewGrid(C), x) /\ s = Realize(NewGrid(D), x)
  BY <1>1, <1>2, <1>5, AlikeRealize
<1>7. SettingsOf(r, f, p) = s.applied
  BY <1>1, <1>3, <1>4, <1>6 DEF SettingsOf
<1>8. PinnedApplied(a, p, f) = IF a.actives = <<>> THEN 0 ELSE SumOf(DOMAIN s.applied, s.applied)
  <2>1. Realize(ScriptGrid(a, f), p - a.reported).applied = s.applied
    BY <1>2, <1>3, <1>4, <1>6
  <2>2. PinnedApplied(a, p, f) =
          IF a.actives = <<>> THEN 0 ELSE Total(Realize(ScriptGrid(a, f), p - a.reported).applied)
    BY DEF PinnedApplied
  <2>3. Total(s.applied) = SumOf(DOMAIN s.applied, s.applied)
    BY DEF Total, SumOf
  <2> QED
    BY <2>1, <2>2, <2>3
<1>9. a.actives = <<>> => DOMAIN s.applied = {}
  <2>1. DOMAIN s.applied = DOMAIN C.actives
    BY <1>1, <1>6, RealizeIs
  <2>2. C.actives = a.actives
    BY <1>1, ScriptGridIs DEF AgentChain, ChainOf
  <2>3. C.actives = <<>> => DOMAIN C.actives = {}
    OBVIOUS
  <2> QED
    BY <2>1, <2>2, <2>3
<1>10. SumOf({}, s.applied) = 0
  BY SumOfNone
<1> QED
  BY <1>7, <1>8, <1>9, <1>10

\* The gain the script chooses is on its grid, and stays.
LEMMA GainStays ==
  ASSUME NEW d, Fit(d), NEW a, Written(d, a), Exact(d, a), NEW f \in Freqs,
         NEW p \in Int, NEW pin \in Int
  PROVE  /\ SnapGain(a, GainForPower(a, p, f), f) = GainForPower(a, p, f)
         /\ SnapGain(a, GainForPinned(a, p, f, pin), f) = GainForPinned(a, p, f, pin)
<1>1. PICK D : D = ScriptChain(d, a, f) /\ IsChain(D) /\ ScriptGrid(a, f) = NewGrid(D)
  BY ScriptGridIs
<1>2. /\ OpDelta(a, f) \in Int /\ SourceBiasAt(a, f) \in Int /\ a.reported \in Int
      /\ a.min = d.min /\ a.step = d.step
  <2>1. f \in Int
    BY AskedAssumption
  <2>2. Loss(d, f) \in Int /\ Bias(d, f) \in Int
    BY <2>1, MeterIs
  <2> QED
    BY <2>2, ScriptGridIs DEF Fit, Whole
<1>3. EffFreq(a, f) = f /\ a.curve \in Points /\ IsCurve(a.curve)
  BY ScriptCeilingIs DEF EffFreq
<1>4. D.min = d.min /\ D.ceiling = ScriptCeiling(a, f) /\ D.step = d.step
  BY <1>1 DEF ScriptChain, ChainOf
<1>5. D.min \in Int /\ D.ceiling \in Int /\ D.step \in Nat
  BY <1>1 DEF IsChain
<1>6. ASSUME NEW g PROVE SnapGain(a, g, f) = OnGrid(g, D.min, D.ceiling, D.step, "nearest")
  BY <1>2, <1>4 DEF SnapGain, GridGain
<1>7. \A g \in Int : On(D, SnapGain(a, g, f))
  BY <1>5, <1>6, OnGridOn DEF On
<1>8. \A g : On(D, g) => SnapGain(a, g, f) = g
  BY <1>5, <1>6, OnGridMember DEF On
<1>9. \A x \in Int : Invert(a, x) \in Int
  <2>1. Flipped(a.curve) \in Points /\ IsTable(Flipped(a.curve))
    BY <1>3, FlippedCurve DEF IsCurve
  <2> QED
    BY <2>1, InterpNumber DEF Invert
<1>10. On(D, GainForPower(a, p, f))
  <2>1. PICK x \in Int : x = p - a.reported
    BY <1>2
  <2>2. PICK y \in Int : y = p - a.reported - OpDelta(a, f) - SourceBiasAt(a, f)
    BY <1>2
  <2>3. On(D, Realize(NewGrid(D), x).gain)
    BY <1>1, RealizeOn
  <2>4. GainForPower(a, p, f) = IF a.actives # <<>> THEN Realize(NewGrid(D), x).gain
                                ELSE SnapGain(a, Invert(a, y), f)
    BY <1>1, <1>3, <2>1, <2>2 DEF GainForPower
  <2> QED
    BY <1>7, <1>9, <2>3, <2>4
<1>11. On(D, GainForPinned(a, p, f, pin))
  <2>1. PICK y \in Int : y = p - a.reported - OpDelta(a, f) - SourceBiasAt(a, f) - pin
    BY <1>2
  <2>2. GainForPinned(a, p, f, pin) = SnapGain(a, Invert(a, y), f)
    BY <1>3, <2>1 DEF GainForPinned
  <2> QED
    BY <1>7, <1>9, <2>2
<1> QED
  BY <1>8, <1>10, <1>11

\* What the script says it delivers is the level with the components adding
\* nothing, and what it takes them to add.
LEMMA SaidIs ==
  ASSUME NEW d, Fit(d), NEW a, Written(d, a), Exact(d, a), NEW f \in Freqs,
         NEW g \in Int, SnapGain(a, g, f) = g, NEW pin \in Int
  PROVE  PowerForGain(a, g, f, pin) = LevelAt(d, d.operating, g, f) + pin + d.reported.k
<1>1. f \in Int /\ EffFreq(a, f) = f
  BY ScriptCeilingIs DEF EffFreq
<1>2. /\ OpDelta(a, f) = Loss(d, f) /\ SourceBiasAt(a, f) = Bias(d, f)
      /\ a.curve = Shifted(Meter(d).curve, Meter(d).offset) /\ a.mode = Meter(d).mode
      /\ a.reported = d.reported.k
  BY ScriptGridIs
<1>3. PICK offset \in Int, bias \in Int, loss \in Int :
        offset = Meter(d).offset /\ bias = Bias(d, f) /\ loss = Loss(d, f)
  BY <1>1, MeterIs
<1>4. PICK T \in Points : T = Meter(d).curve /\ IsTable(T)
  BY <1>1, MeterIs
<1>5. PICK level \in Int : level = InterpExtrap(g, T, Meter(d).mode)
  BY <1>4, InterpNumber
<1>6. InterpExtrap(g, Shifted(T, offset), Meter(d).mode) = level + offset
  BY <1>4, <1>5, ShiftedLevel
<1>7. d.reported.k \in Int
  BY DEF Fit, Whole
<1>8. PowerForGain(a, g, f, pin) = (level + offset) + loss + bias + pin + d.reported.k
  BY <1>1, <1>2, <1>3, <1>4, <1>6 DEF PowerForGain
<1>9. LevelAt(d, d.operating, g, f) = level + offset + bias + loss
  BY <1>1, <1>3, <1>4, <1>5, BiasBothEnds DEF LevelAt, CurveAt, Meter, Loss
<1> QED
  BY <1>7, <1>8, <1>9

\* What is radiated is that level and what the components apply.
LEMMA RadiatedIs ==
  ASSUME NEW d, Fit(d), Resolution(d, Unit), Lowering(d, applied),
         script.gain \in Int, script.live \in Int
  PROVE  /\ TrueLevel(d.operating, "measured")
              = LevelAt(d, d.operating, script.gain, script.live) + SumOf(DOMAIN applied, applied)
         /\ SumOf(DOMAIN applied, applied) \in Int
         /\ LevelAt(d, d.operating, script.gain, script.live) \in Int
<1> DEFINE p == d.operating
           hops == Hops(Final(d), p)
           before(i) == \E k \in DOMAIN hops : hops[k] = ActiveOf(d)[i]
           D == {i \in DOMAIN ActiveOf(d) : before(i)}
<1>1. ActiveHops(Unit) = ActiveOf(d) /\ IsFiniteSet(DOMAIN ActiveOf(d))
  BY ActivesIs
<1>2. Planes = Final(d) /\ p \in GaugedPlanes(d)
  BY DEF Planes, Resolution, GaugedPlanes
<1>3. TrueLevel(p, "measured")
        = PowerOn(Final(d), p, script.gain, script.live, "measured") + SumOf(D, applied)
  BY <1>1, <1>2 DEF TrueLevel, SumOf
<1>4. /\ PowerOn(Final(d), p, script.gain, script.live, "measured")
           = LevelAt(d, p, script.gain, script.live)
      /\ LevelAt(d, p, script.gain, script.live) \in Int
  BY <1>2, LevelIs
<1>5. Good(Final(d)) /\ p \in DOMAIN Final(d)
  BY PlanesIs DEF SamePath
<1>6. D = DOMAIN ActiveOf(d)
  <2>1. Len(hops) \in Nat /\ DOMAIN hops = 1 .. Len(hops)
    BY <1>5, HopsIs DEF Good
  <2> DEFINE S == {i \in DOMAIN hops : Final(d)[hops[i]].active # <<>>}
  <2>2. ActiveOf(d) = KeptIn(hops, S)
    BY DEF ActiveOf
  <2>3. S \in SUBSET DOMAIN hops
    OBVIOUS
  <2> HIDE DEF S, hops
  <2>4. \A k \in DOMAIN KeptIn(hops, S) : \E i \in S : KeptIn(hops, S)[k] = hops[i]
    BY <2>1, <2>3, KeptIs
  <2> QED
    BY <2>2, <2>3, <2>4
<1>7. DOMAIN applied = DOMAIN ActiveOf(d) /\ \A i \in DOMAIN applied : applied[i] \in Int
  BY DEF Lowering
<1> HIDE DEF D
<1>8. SumOf(DOMAIN applied, applied) \in Int
  BY <1>1, <1>7, SumOfIs
<1> QED
  BY <1>3, <1>4, <1>6, <1>7, <1>8

-----------------------------------------------------------------------------
(* The two ends agree in a state.                                          *)

\* The running script has an exact artifact, a gain that is on its grid, and
\* takes the components to be where it worked them out to be; where they are
\* known to be there, they were set for what is held of the task.
Pinned(d) ==
  script.on => /\ Exact(d, script.file)
               /\ SnapGain(script.file, script.gain, script.live) = script.gain
               /\ script.pin = PinnedApplied(script.file, script.power, script.carrier)
SetFor(res, h) == SettingsOf(res[h.freq][1], h.freq, h.power)
Placed == certain /\ applied # <<>> => applied = SetFor(resolved, held)
AgreeOf(d) == InvOf(d) /\ Pinned(d) /\ Placed
AgreeInv == script.on \in BOOLEAN /\ \E d \in Documents : AgreeOf(d)

\* What both ends have of a document that was accepted, and that it was accepted
\* for every carrier.
LEMMA AgreeableIs ==
  ASSUME \A d \in Documents : Agreeable(d), NEW d \in Documents, ResolvedOf(d)
  PROVE  /\ Fit(d) /\ Same(d) /\ Resolution(d, Unit)
         /\ \A f \in Freqs : resolved[f] # <<>> /\ Resolution(d, resolved[f][1])
<1>1. \A e \in Documents : Gaugeable(e)
  BY DEF Agreeable
<1>2. /\ Fit(d) /\ Resolution(d, Unit)
      /\ \A f \in Freqs : resolved[f] # <<>> => Resolution(d, resolved[f][1])
  BY <1>1, UnitIs
<1>3. Same(d)
  BY <1>2 DEF Agreeable, Fit, Same, Loss
<1>4. \A f \in Freqs : resolved[f] # <<>>
  <2>1. resolved[NoFreq] = Resolved(d, NoFreq) /\ \A f \in Freqs : resolved[f] = Resolved(d, f)
    BY DEF ResolvedOf
  <2> QED
    BY <2>1 DEF ResolvedOf, Agreeable
<1> QED
  BY <1>2, <1>3, <1>4

\* In such a state they agree.
LEMMA Agree ==
  ASSUME \A d \in Documents : Agreeable(d), NEW d \in Documents, AgreeOf(d)
  PROVE  ScriptAgrees
<1> SUFFICES ASSUME InStep
             PROVE  PowerForGain(script.file, script.gain, script.live, script.pin)
                      = TrueLevel(doc.operating, "measured") + ReportedDelta(Unit)
  BY DEF ScriptAgrees
<1>1. /\ script.on /\ certain /\ held.power = script.power /\ held.freq = script.carrier
  BY DEF InStep
<1>2. /\ ResolvedOf(d) /\ Lowering(d, applied) /\ Transmits /\ Throttled(d) /\ Pinned(d) /\ Placed
  BY DEF AgreeOf, InvOf
<1>3. /\ Fit(d) /\ Same(d) /\ Resolution(d, Unit)
      /\ \A f \in Freqs : resolved[f] # <<>> /\ Resolution(d, resolved[f][1])
  BY <1>2, AgreeableIs
<1>4. PICK a : a = script.file /\ Written(d, a) /\ Exact(d, a)
  BY <1>1, <1>2 DEF Throttled, Pinned
<1>5. PICK f \in Freqs, c \in Freqs, p \in Int, pin \in Int :
        f = script.live /\ c = script.carrier /\ p = script.power /\ pin = script.pin
  BY <1>1, <1>2 DEF Throttled, Transmits
<1>6. PICK g \in Int : g = script.gain /\ SnapGain(a, g, f) = g
  BY <1>1, <1>2, <1>4, <1>5 DEF Throttled, Pinned, Capped
<1>7. PowerForGain(a, g, f, pin) = LevelAt(d, d.operating, g, f) + pin + d.reported.k
  BY <1>3, <1>4, <1>6, SaidIs
<1>8. f \in Int
  BY AskedAssumption
<1>9. /\ TrueLevel(d.operating, "measured") = LevelAt(d, d.operating, g, f) + SumOf(DOMAIN applied, applied)
      /\ SumOf(DOMAIN applied, applied) \in Int /\ LevelAt(d, d.operating, g, f) \in Int
  BY <1>2, <1>3, <1>5, <1>6, <1>8, RadiatedIs
<1>10. pin = SumOf(DOMAIN applied, applied)
  <2>1. pin = PinnedApplied(a, p, c)
    BY <1>1, <1>2, <1>4, <1>5 DEF Pinned
  <2>2. CASE applied = <<>>
    <3>1. DOMAIN applied = {}
      BY <2>2
    <3>2. PICK s : s = SettingsOf(Unit, c, p)
      OBVIOUS
    <3>3. Lowering(d, s)
      BY <1>3, <3>2, SettingsIs
    <3>4. DOMAIN s = {}
      BY <1>2, <3>1, <3>3 DEF Lowering
    <3>5. pin = SumOf(DOMAIN s, s)
      BY <1>3, <1>4, <2>1, <3>2, SameSplit
    <3> QED
      BY <3>1, <3>4, <3>5, SumOfNone
  <2>3. CASE applied # <<>>
    <3>1. applied = SettingsOf(resolved[c][1], c, p)
      BY <1>1, <1>2, <1>5, <2>3 DEF Placed, SetFor
    <3>2. PinnedApplied(a, p, c) = SumOf(DOMAIN SettingsOf(resolved[c][1], c, p), SettingsOf(resolved[c][1], c, p))
      BY <1>3, <1>4, SameSplit
    <3> QED
      BY <2>1, <3>1, <3>2
  <2> QED
    BY <2>2, <2>3
<1>11. doc = d /\ ReportedDelta(Unit) = d.reported.k /\ d.reported.k \in Int
  BY <1>3 DEF doc, Resolution, ReportedDelta, Same, Fit, Whole
<1> QED
  BY <1>4, <1>5, <1>6, <1>7, <1>9, <1>10, <1>11

\* A script that starts or is tuned has such a gain and such a split.
LEMMA RunningPinned ==
  ASSUME NEW d, Fit(d), NEW a, Written(d, a), Exact(d, a), NEW h, h.power \in Int, h.freq \in Freqs,
         script' = Running(a, h)
  PROVE  Pinned(d)'
<1>1. PICK p \in Int, f \in Freqs : p = h.power /\ f = h.freq
  OBVIOUS
<1>2. PICK g, pin : g = GainForPower(a, p, f) /\ pin = PinnedApplied(a, p, f)
  OBVIOUS
<1>3. SnapGain(a, g, f) = g
  <2>1. \A x \in Int : SnapGain(a, GainForPower(a, p, f), f) = GainForPower(a, p, f)
    BY GainStays
  <2>2. 0 \in Int
    OBVIOUS
  <2> QED
    BY <1>2, <2>1, <2>2
<1>4. script' = [on |-> TRUE, file |-> a, power |-> p, carrier |-> f, live |-> f, gain |-> g, pin |-> pin]
  BY <1>1, <1>2 DEF Running
<1>5. /\ script'.file = a /\ script'.power = p /\ script'.carrier = f
      /\ script'.live = f /\ script'.gain = g /\ script'.pin = pin
  BY <1>4
<1> QED
  BY <1>2, <1>3, <1>5 DEF Pinned

\* A script that is left alone keeps its gain and its split.
LEMMA SameScript ==
  ASSUME NEW d, Pinned(d), script' = script
  PROVE  Pinned(d)'
BY DEF Pinned

\* Components that are not moved stay where they were set for what is held.
LEMMA PlacedStays ==
  ASSUME Placed, UNCHANGED <<resolved, held, applied, certain>>
  PROVE  Placed'
BY DEF Placed

\* Every step keeps both.
LEMMA AgreeKept ==
  ASSUME \A d \in Documents : Agreeable(d), NEW d \in Documents, AgreeOf(d),
         script.on \in BOOLEAN, [Next]_vars
  PROVE  AgreeOf(d)' /\ script'.on \in BOOLEAN
<1>1. \A e \in Documents : Gaugeable(e)
  BY DEF Agreeable
<1>2. InvOf(d)' /\ script'.on \in BOOLEAN
  BY <1>1, InvOfKept DEF AgreeOf
<1>3. /\ ResolvedOf(d) /\ Asked /\ Transmits /\ Throttled(d) /\ Pinned(d) /\ Placed
  BY DEF AgreeOf, InvOf
<1>4. /\ Fit(d) /\ \A f \in Freqs : resolved[f] # <<>> /\ Resolution(d, resolved[f][1])
  BY <1>3, AgreeableIs
<1> SUFFICES Pinned(d)' /\ Placed'
  BY <1>2 DEF AgreeOf
<1>5. ASSUME NEW req \in Launches \cup Tunes, Position(req)
      PROVE  Pinned(d)' /\ Placed'
  <2>1. /\ script' = script /\ resolved' = resolved /\ held' = Overlaid(held, req) /\ request' = req
        /\ req.kind = "tune" => script.on
        /\ \/ applied' = Settings(held') /\ certain' = TRUE
           \/ certain' = FALSE
    BY <1>5 DEF Position
  <2>2. Pinned(d)'
    BY <1>3, <2>1 DEF Pinned
  <2>3. held'.freq \in Freqs
    <3>1. req.kind \in {"launch", "tune"}
      BY DEF Launches, Tunes
    <3> QED
      BY <1>2, <2>1, <3>1 DEF InvOf, Asked
  <2>4. ASSUME certain', applied' # <<>>
        PROVE  applied' = SetFor(resolved', held')
    <3>1. applied' = Settings(held')
      BY <2>1, <2>4
    <3>2. resolved[held'.freq] # <<>>
      BY <1>4, <2>3
    <3>3. applied # <<>>
      BY <2>4, <3>1 DEF Settings
    <3> QED
      BY <2>1, <3>1, <3>2, <3>3 DEF Settings, SetFor
  <2> QED
    BY <2>2, <2>4 DEF Placed
<1>6. CASE Launch
  <2>1. /\ resolved' = resolved /\ applied' = applied /\ held' = held /\ certain' = certain
        /\ request.kind = "launch" /\ resolved[request.freq] # <<>>
        /\ script' = Running(ToPublic(resolved[request.freq][1]), request)
    BY <1>6 DEF Launch
  <2>2. request.power \in Int /\ request.freq \in Freqs
    <3>1. request \in Launches
      BY <1>3, <2>1 DEF Asked, NoRequest, Tunes
    <3>2. request.power \in Powers /\ request.freq \in Freqs
      BY <3>1 DEF Launches
    <3> QED
      BY <3>2, AskedAssumption
  <2>3. PICK f \in Freqs : f = request.freq
    BY <2>2
  <2>4. PICK r : r = resolved[f][1]
    OBVIOUS
  <2>5. Resolution(d, r) /\ SharedBase(r) /\ r.freq \in Int
    BY <1>1, <1>3, <2>1, <2>3, <2>4, UnitIs, AskedAssumption
  <2>6. Written(d, ToPublic(r)) /\ Exact(d, ToPublic(r))
    BY <1>4, <2>5, WrittenIs, ExactIs
  <2>7. Pinned(d)'
    BY <1>4, <2>1, <2>2, <2>3, <2>4, <2>6, RunningPinned
  <2> QED
    BY <1>3, <2>1, <2>7, PlacedStays
<1>7. CASE Tune
  <2>1. /\ resolved' = resolved /\ applied' = applied /\ held' = held /\ certain' = certain
        /\ request.kind = "tune" /\ script.on
        /\ script' = Running(script.file,
                       Overlaid([power |-> script.power, freq |-> script.carrier], request))
    BY <1>7 DEF Tune
  <2>2. PICK h : h = Overlaid([power |-> script.power, freq |-> script.carrier], request)
    OBVIOUS
  <2>3. h.power = Over(script.power, request.power) /\ h.freq = Over(script.carrier, request.freq)
    BY <2>2 DEF Overlaid
  <2>4. h.power \in Int /\ h.freq \in Freqs
    <3>1. script.power \in Int /\ script.carrier \in Freqs
      BY <1>3, <2>1 DEF Transmits
    <3>2. request \in Tunes
      BY <1>3, <2>1 DEF Asked, NoRequest, Launches
    <3>3. request.power \in Powers \cup {Unset} /\ request.freq \in Freqs \cup {Unset}
      BY <3>2 DEF Tunes
    <3>4. request.power \in Int
      <4>1. Unset \in Int
        BY DEF Unset
      <4> QED
        BY <3>3, <4>1, AskedAssumption
    <3> QED
      BY <2>3, <3>1, <3>3, <3>4, OverIs
  <2>5. Written(d, script.file) /\ Exact(d, script.file)
    BY <1>3, <2>1 DEF Throttled, Pinned
  <2>6. Pinned(d)'
    BY <1>4, <2>1, <2>2, <2>4, <2>5, RunningPinned
  <2> QED
    BY <1>3, <2>1, <2>6, PlacedStays
<1>8. CASE Refuse
  BY <1>3, <1>8, SameScript, PlacedStays DEF Refuse
<1>9. CASE Stop
  <2>1. script'.on = FALSE
    BY <1>9 DEF Stop, Off
  <2>2. Pinned(d)'
    BY <2>1 DEF Pinned
  <2> QED
    BY <1>3, <1>9, <2>2, PlacedStays DEF Stop
<1>10. ASSUME NEW f \in Freqs, Drift(f)
       PROVE  Pinned(d)' /\ Placed'
  <2> DEFINE g == GainForPinned(script.file, script.power, f, script.pin)
  <2>1. /\ resolved' = resolved /\ applied' = applied /\ held' = held /\ certain' = certain
        /\ script.on /\ script' = [script EXCEPT !.live = f, !.gain = g]
    BY <1>10 DEF Drift
  <2>2. /\ DOMAIN script = {"on", "file", "power", "carrier", "live", "gain", "pin"}
        /\ script.power \in Int /\ script.pin \in Int /\ Written(d, script.file)
        /\ Exact(d, script.file) /\ script.pin = PinnedApplied(script.file, script.power, script.carrier)
    BY <1>3, <2>1 DEF Transmits, Throttled, Pinned
  <2>3. SnapGain(script.file, g, f) = g
    <3>1. PICK p \in Int, pin \in Int : p = script.power /\ pin = script.pin
      BY <2>2
    <3> PICK a : a = script.file
      OBVIOUS
    <3>2. SnapGain(a, GainForPinned(a, p, f, pin), f) = GainForPinned(a, p, f, pin)
      BY <1>4, <2>2, <3>1, GainStays
    <3> QED
      BY <3>1, <3>2
  <2> HIDE DEF g
  <2>4. /\ script'.file = script.file /\ script'.power = script.power
        /\ script'.carrier = script.carrier /\ script'.pin = script.pin
        /\ script'.live = f /\ script'.gain = g
    BY <2>1, <2>2
  <2>5. Pinned(d)'
    BY <2>2, <2>3, <2>4 DEF Pinned
  <2> QED
    BY <1>3, <2>1, <2>5, PlacedStays
<1>11. CASE UNCHANGED vars
  BY <1>3, <1>11, SameScript, PlacedStays DEF vars
<1> QED
  BY <1>5, <1>6, <1>7, <1>8, <1>9, <1>10, <1>11 DEF Next

\* For calibrations both of whose ends have the same, what the script says it
\* delivers is what is radiated once a request has reached both ends, also after
\* it has moved its frequency by itself (PowerMap.power_for_gain and
\* pinned_applied in paramkit/calkit.py, active_settings in agent/calibration.py).
THEOREM ScriptAlwaysAgrees ==
  ASSUME \A d \in Documents : Agreeable(d)
  PROVE  Spec => []ScriptAgrees
<1>1. Init => AgreeInv
  <2> SUFFICES ASSUME Init PROVE AgreeInv
    OBVIOUS
  <2>1. \A e \in Documents : Gaugeable(e)
    BY DEF Agreeable
  <2>2. PICK d \in Documents : InvOf(d)
    BY <2>1, InvInit DEF Inv
  <2>3. script.on = FALSE /\ certain = FALSE
    BY DEF Init, Off
  <2> QED
    BY <2>2, <2>3 DEF AgreeInv, AgreeOf, Pinned, Placed
<1>2. AgreeInv /\ [Next]_vars => AgreeInv'
  BY AgreeKept DEF AgreeInv
<1>3. AgreeInv => ScriptAgrees
  BY Agree DEF AgreeInv
<1> QED
  BY <1>1, <1>2, <1>3, PTL DEF Spec
=============================================================================
