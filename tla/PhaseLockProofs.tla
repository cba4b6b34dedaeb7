-------------------------- MODULE PhaseLockProofs ---------------------------
(***************************************************************************)
(* What holds of the phase lock for every size of the ring, every          *)
(* spacing, skew and error bar of the measurements, every limit and        *)
(* every host: the type invariant, the box, the true rate in it, the       *)
(* shift and the direction of the change.                                  *)
(***************************************************************************)
EXTENDS PhaseLock, TLAPS, WellFoundedInduction, FiniteSetTheorems

-----------------------------------------------------------------------------
(***************************************************************************)
(* Sets of numbers. Induction over Nat is taken from its                   *)
(* well-foundedness, which speaks of sets, not of operators.               *)
(***************************************************************************)

\* A set of natural numbers that is not empty has a least one.
LEMMA LeastNumber ==
    ASSUME NEW S, S \subseteq Nat, S # {}
    PROVE  \E m \in S : \A n \in S : m <= n
<1> DEFINE R == {ss \in Nat \X Nat : ss[1] < ss[2]}
<1>1. IsWellFoundedOn(R, Nat)
  BY NatLessThanWellFounded DEF OpToRel
<1>2. \A x, y \in S : y < x => <<y, x>> \in R
  OBVIOUS
<1>3. PICK x \in S : \A y \in S : <<y, x>> \notin R
  <2> HIDE DEF R
  <2> QED BY <1>1, WFMin
<1>4. \A y \in S : ~ (y < x)
  <2> HIDE DEF R
  <2> QED BY <1>2, <1>3
<1> QED BY <1>4

\* A set that holds 0 and with every number its successor holds all.
LEMMA SetInduction ==
    ASSUME NEW S, 0 \in S, \A n \in Nat : n \in S => n + 1 \in S
    PROVE  \A n \in Nat : n \in S
<1> SUFFICES ASSUME Nat \ S # {} PROVE FALSE
  OBVIOUS
<1>1. PICK m \in Nat \ S : \A n \in Nat \ S : m <= n
  BY LeastNumber
<1>2. m # 0 /\ m - 1 \in Nat /\ m - 1 \in S
  BY <1>1
<1> QED BY <1>2

\* The image of a finite set under a function is finite.
LEMMA FiniteImage ==
    ASSUME NEW S, IsFiniteSet(S), NEW f
    PROVE  IsFiniteSet({f[x] : x \in S})
<1> DEFINE T == {f[x] : x \in S}
           g == [x \in S |-> f[x]]
<1>1. g \in Surjection(S, T)
  BY DEF Surjection
<1> HIDE DEF T, g
<1>2. IsFiniteSet(T)
  BY <1>1, FS_Surjection
<1> QED BY <1>2 DEF T

\* A finite set of integers is bounded.
LEMMA FiniteBounded ==
    ASSUME NEW S, S \subseteq Int, IsFiniteSet(S)
    PROVE  \E b \in Int : \A s \in S : -b <= s /\ s <= b
<1> DEFINE Bounded(T) == \E b \in Int : \A s \in T : -b <= s /\ s <= b
           Good == {n \in Nat : \A T \in SUBSET Int :
                        IsFiniteSet(T) /\ Cardinality(T) = n => Bounded(T)}
<1>1. 0 \in Good
  <2>1. \A T \in SUBSET Int : IsFiniteSet(T) /\ Cardinality(T) = 0 => T = {}
    BY FS_EmptySet
  <2>2. Bounded({})
    <3>1. 0 \in Int OBVIOUS
    <3> QED BY <3>1
  <2> QED BY <2>1, <2>2
<1>2. ASSUME NEW n \in Nat, n \in Good  PROVE n + 1 \in Good
  <2> SUFFICES ASSUME NEW T \in SUBSET Int, IsFiniteSet(T), Cardinality(T) = n + 1
               PROVE  Bounded(T)
    OBVIOUS
  <2>1. PICK x \in T : x \in Int
    <3>1. Cardinality(T) # 0 OBVIOUS
    <3>2. T # {} BY <3>1, FS_EmptySet
    <3> QED BY <3>2
  <2>2. IsFiniteSet(T \ {x}) /\ Cardinality(T \ {x}) = n
    <3>1. Cardinality(T \ {x}) = Cardinality(T) - 1 BY FS_RemoveElement
    <3>2. IsFiniteSet(T \ {x}) BY FS_RemoveElement
    <3> QED BY <3>1, <3>2
  <2>3. Bounded(T \ {x})
    BY <1>2, <2>2
  <2>4. PICK b \in Int : \A s \in T \ {x} : -b <= s /\ s <= b
    BY <2>3
  <2>5. PICK c \in Int : c >= b /\ c >= x /\ c >= -x
    <3>1. CASE b >= x /\ b >= -x BY <3>1
    <3>2. CASE x >= b /\ x >= -x BY <3>2
    <3>3. CASE -x >= b /\ -x >= x BY <3>3
    <3> QED BY <3>1, <3>2, <3>3
  <2>6. \A s \in T : -c <= s /\ s <= c
    BY <2>4, <2>5
  <2> QED BY <2>6
<1>3. \A n \in Nat : n \in Good
  <2> HIDE DEF Good
  <2> QED BY <1>1, <1>2, SetInduction
<1>4. Cardinality(S) \in Nat
  BY FS_CardinalityType
<1>5. Cardinality(S) \in Good
  <2> HIDE DEF Good
  <2> QED BY <1>3, <1>4
<1> QED BY <1>5

\* Min of a finite set of integers that is not empty is its least
\* element.
LEMMA FiniteMin ==
    ASSUME NEW S, S \subseteq Int, IsFiniteSet(S), S # {}
    PROVE  Min(S) \in S /\ \A s \in S : Min(S) <= s
<1>1. PICK b \in Int : \A s \in S : -b <= s /\ s <= b
  BY FiniteBounded
<1> DEFINE T == {s + b : s \in S}
<1>2. PICK m \in T : \A n \in T : m <= n
  <2>1. \A s \in S : s + b \in Nat BY <1>1
  <2>2. T \subseteq Nat BY <2>1
  <2>3. T # {} OBVIOUS
  <2> HIDE DEF T
  <2> QED BY <2>2, <2>3, LeastNumber
<1>3. PICK s \in S : m = s + b
  BY <1>2
<1>4. ASSUME NEW r \in S  PROVE s <= r
  <2>1. r + b \in T OBVIOUS
  <2>2. s + b <= r + b BY <2>1, <1>2, <1>3
  <2> QED BY <2>2
<1> QED BY <1>4 DEF Min

\* Max is its greatest.
LEMMA FiniteMax ==
    ASSUME NEW S, S \subseteq Int, IsFiniteSet(S), S # {}
    PROVE  Max(S) \in S /\ \A s \in S : Max(S) >= s
<1>1. PICK b \in Int : \A s \in S : -b <= s /\ s <= b
  BY FiniteBounded
<1> DEFINE T == {b - s : s \in S}
<1>2. PICK m \in T : \A n \in T : m <= n
  <2>1. \A s \in S : b - s \in Nat BY <1>1
  <2>2. T \subseteq Nat BY <2>1
  <2>3. T # {} OBVIOUS
  <2> HIDE DEF T
  <2> QED BY <2>2, <2>3, LeastNumber
<1>3. PICK s \in S : m = b - s
  BY <1>2
<1>4. ASSUME NEW r \in S  PROVE s >= r
  <2>1. b - r \in T OBVIOUS
  <2>2. b - s <= b - r BY <2>1, <1>2, <1>3
  <2> QED BY <2>2
<1> QED BY <1>4 DEF Max

-----
\* The ends of the error bars, the upper or the lower ones.
Curve == [1..RING_SIZE -> Int]

\* The times of the measurements: distinct and in order.
Rising(at) ==
    /\ at \in Curve
    /\ \A i, j \in 1..RING_SIZE : i < j => at[i] < at[j]

\* Every line through an end of one curve and a later one of another has
\* an integer for slope.
Grid(at, from, to) ==
    \A j, n \in 1..RING_SIZE : j < n =>
        \E q \in Int : to[n] - from[j] = (at[n] - at[j]) * q

\* The line s at time t.
Val(s, t) == s.offset + s.slope * t

\* A line of search(): it goes through a point of one curve and a later
\* point of another.
IsLine(s, at, from, to) ==
    /\ s.from \in 1 .. RING_SIZE - 1 /\ s.to \in s.from + 1 .. RING_SIZE
    /\ s.slope \in Int /\ s.offset \in Int
    /\ Val(s, at[s.from]) = from[s.from] /\ Val(s, at[s.to]) = to[s.to]

\* How two lines compare at two times: what is known at one time and of
\* the slopes decides at the other.
Compare(s, r, x, y) ==
    LET dx == Val(r, x) - Val(s, x)
        dy == Val(r, y) - Val(s, y)
    IN  /\ Val(s, x) \in Int /\ Val(r, x) \in Int /\ Val(s, y) \in Int /\ Val(r, y) \in Int
        /\ dx >= 0 /\ r.slope >= s.slope => dy >= 0
        /\ dx >= 0 /\ r.slope > s.slope => dy > 0
        /\ dx > 0 /\ r.slope >= s.slope => dy > 0
        /\ dx <= 0 /\ r.slope <= s.slope => dy <= 0
        /\ dx <= 0 /\ r.slope < s.slope => dy < 0
        /\ dx < 0 /\ r.slope <= s.slope => dy < 0
        /\ dy >= 0 /\ r.slope <= s.slope => dx >= 0
        /\ dy >= 0 /\ r.slope < s.slope => dx > 0
        /\ dy <= 0 /\ r.slope >= s.slope => dx <= 0
        /\ dy <= 0 /\ r.slope > s.slope => dx < 0

\* A quotient without a remainder.
LEMMA DivExact ==
    ASSUME NEW a \in Int, NEW d \in Nat \ {0}, NEW q \in Int, a = d * q
    PROVE  a \div d = q
OBVIOUS

\* The sign of a product with a positive number.
LEMMA Steps ==
    ASSUME NEW a \in Int, NEW b \in Int, NEW p \in Int, NEW q \in Int, NEW d \in Int,
           d > 0, q - p = a * d
    PROVE  /\ a >= 0 => q >= p
           /\ a > 0 => q > p
           /\ a <= 0 => q <= p
           /\ a < 0 => q < p
OBVIOUS

\* Lines compare as their slopes say.
LEMMA Comparison ==
    ASSUME NEW s, NEW r, NEW x \in Int, NEW y \in Int, x < y,
           s.slope \in Int, s.offset \in Int, r.slope \in Int, r.offset \in Int
    PROVE  Compare(s, r, x, y)
<1> DEFINE dx == Val(r, x) - Val(s, x)
           dy == Val(r, y) - Val(s, y)
<1>1. /\ Val(s, x) \in Int /\ Val(r, x) \in Int /\ Val(s, y) \in Int /\ Val(r, y) \in Int
  BY DEF Val
<1>2. dy - dx = (r.slope - s.slope) * (y - x)
  BY DEF Val
<1>3. dx \in Int /\ dy \in Int /\ y - x \in Int /\ y - x > 0 /\ r.slope - s.slope \in Int
  BY <1>1
<1> HIDE DEF dx, dy
<1>4. /\ r.slope - s.slope >= 0 => dy >= dx
      /\ r.slope - s.slope > 0 => dy > dx
      /\ r.slope - s.slope <= 0 => dy <= dx
      /\ r.slope - s.slope < 0 => dy < dx
  BY <1>2, <1>3, Steps
<1>5. /\ dx >= 0 /\ r.slope >= s.slope => dy >= 0
      /\ dx >= 0 /\ r.slope > s.slope => dy > 0
      /\ dx > 0 /\ r.slope >= s.slope => dy > 0
      /\ dx <= 0 /\ r.slope <= s.slope => dy <= 0
      /\ dx <= 0 /\ r.slope < s.slope => dy < 0
      /\ dx < 0 /\ r.slope <= s.slope => dy < 0
      /\ dy >= 0 /\ r.slope <= s.slope => dx >= 0
      /\ dy >= 0 /\ r.slope < s.slope => dx > 0
      /\ dy <= 0 /\ r.slope >= s.slope => dx <= 0
      /\ dy <= 0 /\ r.slope > s.slope => dx < 0
  BY <1>3, <1>4
<1> QED BY <1>1, <1>5 DEF Compare, dx, dy

\* search()'s slope and offset are exact: the line goes through both
\* points.
LEMMA LineThrough ==
    ASSUME NEW at, NEW from \in Curve, NEW to \in Curve, Rising(at), Grid(at, from, to),
           NEW j \in 1..RING_SIZE, NEW n \in j + 1 .. RING_SIZE
    PROVE  /\ IsLine(Line(at, from, to, j, n), at, from, to)
           /\ Line(at, from, to, j, n).from = j
           /\ Line(at, from, to, j, n).to = n
<1> RING_SIZE \in Nat BY PhaseAssumption
<1> DEFINE d == at[n] - at[j]
           s == Line(at, from, to, j, n)
<1>1. n \in 1..RING_SIZE /\ j < n /\ j \in 1 .. RING_SIZE - 1
  OBVIOUS
<1>2. PICK q \in Int : to[n] - from[j] = d * q
  BY <1>1 DEF Grid
<1>3. d \in Nat \ {0} /\ at[n] \in Int /\ at[j] \in Int
  BY <1>1 DEF Rising, Curve
<1>4. to[n] \in Int /\ from[j] \in Int
  BY <1>1 DEF Curve
<1>5. (to[n] - from[j]) \div d = q
  <2> HIDE DEF d
  <2> QED BY <1>2, <1>3, <1>4, DivExact
<1>6. s = [from |-> j, to |-> n, slope |-> q, offset |-> to[n] - q * at[n]]
  BY <1>5 DEF Line
<1>7. q * at[n] \in Int /\ q * at[j] \in Int /\ q * at[n] - q * at[j] = d * q
  BY <1>3
<1>8. s.offset \in Int /\ Val(s, at[n]) = to[n]
  BY <1>4, <1>6, <1>7 DEF Val
<1>9. Val(s, at[j]) = from[j]
  <2>1. Val(s, at[j]) = to[n] - q * at[n] + q * at[j] BY <1>6 DEF Val
  <2> HIDE DEF d, s
  <2> QED BY <1>2, <1>4, <1>7, <2>1
<1> QED BY <1>1, <1>6, <1>8, <1>9 DEF IsLine

-----------------------------------------------------------------------------
(***************************************************************************)
(* The two functions contemplate_data() computes index by index: the sum   *)
(* of pass 1 and the walk of passes 2 and 3.                               *)
(***************************************************************************)

\* RING_SIZE is at least 2.
LEMMA Size == RING_SIZE \in Nat /\ RING_SIZE >= 2
BY PhaseAssumption

\* The sum of lines 222-227 is defined for every ring, entry by entry.
LEMMA CumDef ==
    ASSUME NEW w, \A j \in 1..RING_SIZE : w[j].absolute \in Int /\ w[j].freq \in Int
    PROVE  /\ Cum(w) \in [1..RING_SIZE -> Int]
           /\ Cum(w)[RING_SIZE] = 0
           /\ \A j \in 1 .. RING_SIZE - 1 : Cum(w)[j] = Cum(w)[j + 1]
                  + Apart(w, j, j + 1) * (w[j + 1].freq - w[RING_SIZE].freq)
<1> DEFINE Added(j) == Apart(w, j, j + 1) * (w[j + 1].freq - w[RING_SIZE].freq)
           Sums(g) == [j \in 1..RING_SIZE |-> IF j = RING_SIZE THEN 0 ELSE g[j + 1] + Added(j)]
           Good == {n \in Nat : n < RING_SIZE =>
                       \E g \in [1..RING_SIZE -> Int] :
                           \A j \in RING_SIZE - n .. RING_SIZE : g[j] = Sums(g)[j]}
<1>1. \A j \in 1 .. RING_SIZE - 1 : Added(j) \in Int
  <2> SUFFICES ASSUME NEW j \in 1 .. RING_SIZE - 1 PROVE Added(j) \in Int
    OBVIOUS
  <2>1. j \in 1..RING_SIZE /\ j + 1 \in 1..RING_SIZE /\ RING_SIZE \in 1..RING_SIZE
    BY Size
  <2> QED BY <2>1 DEF Apart
<1> HIDE DEF Added
<1>2. 0 \in Good
  <2> DEFINE g == [j \in 1..RING_SIZE |-> 0]
  <2>1. g \in [1..RING_SIZE -> Int] OBVIOUS
  <2>2. \A j \in RING_SIZE - 0 .. RING_SIZE : g[j] = Sums(g)[j] BY Size
  <2> HIDE DEF g
  <2> QED BY <2>1, <2>2
<1>3. ASSUME NEW n \in Nat, n \in Good  PROVE n + 1 \in Good
  <2> SUFFICES ASSUME n + 1 < RING_SIZE
               PROVE  \E g \in [1..RING_SIZE -> Int] :
                          \A j \in RING_SIZE - (n + 1) .. RING_SIZE : g[j] = Sums(g)[j]
    OBVIOUS
  <2>1. PICK g \in [1..RING_SIZE -> Int] :
            \A j \in RING_SIZE - n .. RING_SIZE : g[j] = Sums(g)[j]
    <3>1. n < RING_SIZE BY Size
    <3> HIDE DEF Sums
    <3> QED BY <1>3, <3>1
  <2>2. PICK k \in 1 .. RING_SIZE - 1 :
            k = RING_SIZE - (n + 1) /\ k \in 1..RING_SIZE /\ k + 1 \in 1..RING_SIZE
                /\ k # RING_SIZE /\ k + 1 # k
    BY Size
  <2> DEFINE h == [g EXCEPT ![k] = g[k + 1] + Added(k)]
  <2>3. h \in [1..RING_SIZE -> Int]
    <3>1. g[k + 1] + Added(k) \in Int BY <1>1, <2>2
    <3> QED BY <3>1
  <2>4. ASSUME NEW j \in k..RING_SIZE  PROVE h[j] = Sums(h)[j]
    <3>1. CASE j = k
      <4>1. h[k] = g[k + 1] + Added(k) /\ h[k + 1] = g[k + 1] BY <2>2
      <4>2. Sums(h)[k] = h[k + 1] + Added(k) BY <2>2
      <4> QED BY <3>1, <4>1, <4>2
    <3>2. CASE j # k
      <4>1. j \in RING_SIZE - n .. RING_SIZE /\ j \in 1..RING_SIZE BY <3>2, <2>2, Size
      <4>2. h[j] = g[j] BY <3>2, <4>1
      <4>3. j # RING_SIZE => j + 1 \in 1..RING_SIZE /\ j + 1 # k BY <4>1, <2>2, Size
      <4>4. j # RING_SIZE => h[j + 1] = g[j + 1] BY <4>3
      <4>5. g[j] = Sums(g)[j] BY <2>1, <4>1
      <4> QED BY <4>1, <4>2, <4>4, <4>5
    <3> QED BY <3>1, <3>2
  <2> HIDE DEF h, Sums
  <2> QED BY <2>2, <2>3, <2>4
<1>4. PICK g \in [1..RING_SIZE -> Int] : \A j \in 1..RING_SIZE : g[j] = Sums(g)[j]
  <2>1. \A n \in Nat : n \in Good
    <3> HIDE DEF Good
    <3> QED BY <1>2, <1>3, SetInduction
  <2>2. RING_SIZE - 1 \in Good /\ RING_SIZE - 1 < RING_SIZE /\ RING_SIZE - (RING_SIZE - 1) = 1
    <3> HIDE DEF Good
    <3> QED BY <2>1, Size
  <2> HIDE DEF Sums
  <2> QED BY <2>2
<1>5. g = Sums(g)
  BY <1>4
<1>6. Cum(w) = Sums(Cum(w))
  <2> DEFINE C == CHOOSE cum : cum = Sums(cum)
  <2>1. C = Sums(C)
    <3> HIDE DEF Sums
    <3> QED BY <1>5
  <2>2. Cum(w) = C
    BY DEF Cum, Added
  <2> HIDE DEF C, Sums
  <2> QED BY <2>1, <2>2
<1> DEFINE c == Cum(w)
<1>7. /\ c[RING_SIZE] = 0
      /\ \A j \in 1 .. RING_SIZE - 1 : c[j] = c[j + 1] + Added(j)
  <2> HIDE DEF c
  <2>1. c = Sums(c) BY <1>6 DEF c
  <2> QED BY <2>1, Size
<1>8. \A j \in 1..RING_SIZE : c[j] \in Int
  <2> DEFINE Typed == {n \in Nat : n < RING_SIZE => c[RING_SIZE - n] \in Int}
  <2> HIDE DEF c
  <2>1. 0 \in Typed BY <1>7, Size
  <2>2. ASSUME NEW n \in Nat, n \in Typed PROVE n + 1 \in Typed
    <3> SUFFICES ASSUME n + 1 < RING_SIZE PROVE c[RING_SIZE - (n + 1)] \in Int
      OBVIOUS
    <3> DEFINE k == RING_SIZE - (n + 1)
    <3>1. k \in 1 .. RING_SIZE - 1 /\ k + 1 = RING_SIZE - n BY Size
    <3>2. c[k + 1] \in Int BY <2>2, <3>1, Size
    <3> HIDE DEF k
    <3>3. c[k] \in Int BY <1>1, <1>7, <3>1, <3>2
    <3> QED BY <3>3 DEF k
  <2>3. \A n \in Nat : n \in Typed
    <3> HIDE DEF Typed
    <3> QED BY <2>1, <2>2, SetInduction
  <2>4. ASSUME NEW j \in 1..RING_SIZE  PROVE c[j] \in Int
    <3>1. RING_SIZE - j \in Nat /\ RING_SIZE - j < RING_SIZE /\ RING_SIZE - (RING_SIZE - j) = j
      BY Size
    <3> QED BY <2>3, <3>1
  <2> QED BY <2>4
<1>9. DOMAIN c = 1..RING_SIZE /\ c = [j \in 1..RING_SIZE |-> c[j]]
  <2> HIDE DEF c
  <2> QED BY <1>6 DEF c
<1> QED
  <2>1. c \in [1..RING_SIZE -> Int]
    <3> HIDE DEF c
    <3> QED BY <1>8, <1>9
  <2> QED BY <2>1, <1>7 DEF Added

\* The walk of lines 235-245 is a sequence of segments, each the
\* successor of the one before, or the same once the newest point is
\* reached.
LEMMA WalkDef ==
    ASSUME NEW next
    PROVE  \E at : /\ at[1] = next[1]
                   /\ \A c \in 2 .. RING_SIZE - 1 :
                         at[c] = IF at[c - 1].to = RING_SIZE
                                 THEN at[c - 1] ELSE next[at[c - 1].to]
                   /\ Walk(next) = {at[c] : c \in 1 .. RING_SIZE - 1}
<1> DEFINE From(s) == IF s.to = RING_SIZE THEN s ELSE next[s.to]
           Steps_(g, n) == [c \in 1..n |-> IF c = 1 THEN next[1] ELSE From(g[c - 1])]
           Good == {n \in Nat : \E g : g = Steps_(g, n)}
<1> HIDE DEF From
<1>1. 0 \in Good
  <2> DEFINE g == [c \in 1..0 |-> 0]
  <2>1. g = Steps_(g, 0) OBVIOUS
  <2> HIDE DEF g, Steps_
  <2> QED BY <2>1
<1>2. ASSUME NEW n \in Nat, n \in Good  PROVE n + 1 \in Good
  <2>1. PICK g : g = Steps_(g, n)
    BY <1>2
  <2> DEFINE h == [c \in 1 .. n + 1 |-> IF c = 1 THEN next[1] ELSE From(g[c - 1])]
  <2>2. \A c \in 1..n : h[c] = g[c]
    BY <2>1
  <2>3. ASSUME NEW c \in 2 .. n + 1  PROVE g[c - 1] = h[c - 1]
    <3>1. c - 1 \in 1..n OBVIOUS
    <3> QED BY <2>2, <3>1
  <2>4. h = Steps_(h, n + 1)
    <3>1. \A c \in 1 .. n + 1 : c = 1 \/ c \in 2 .. n + 1 OBVIOUS
    <3>2. \A c \in 1 .. n + 1 : h[c] = Steps_(h, n + 1)[c] BY <2>3, <3>1
    <3> QED BY <3>2
  <2> HIDE DEF h, Steps_
  <2> QED BY <2>4
<1>3. PICK g : g = Steps_(g, RING_SIZE - 1)
  <2>1. \A n \in Nat : n \in Good
    <3> HIDE DEF Good
    <3> QED BY <1>1, <1>2, SetInduction
  <2>2. RING_SIZE - 1 \in Good
    <3> HIDE DEF Good
    <3> QED BY <2>1, Size
  <2> HIDE DEF Steps_
  <2> QED BY <2>2
<1> DEFINE at == CHOOSE at : at = Steps_(at, RING_SIZE - 1)
<1>4. at = Steps_(at, RING_SIZE - 1)
  <2> HIDE DEF Steps_
  <2> QED BY <1>3
<1>5. Walk(next) = {at[c] : c \in 1 .. RING_SIZE - 1}
  BY DEF Walk, From
<1> HIDE DEF at
<1>6. at[1] = next[1] /\ \A c \in 2 .. RING_SIZE - 1 : at[c] = From(at[c - 1])
  <2>1. 1 \in 1 .. RING_SIZE - 1 /\ \A c \in 2 .. RING_SIZE - 1 : c \in 1 .. RING_SIZE - 1 /\ c # 1
    BY Size
  <2> QED BY <1>4, <2>1
<1> QED BY <1>5, <1>6 DEF From

\* What holds of the first segment and of the successor of any holds of
\* all a walk visits.
LEMMA WalkWithin ==
    ASSUME NEW next, NEW P, next[1] \in P,
           \A s \in P : s.to # RING_SIZE => next[s.to] \in P
    PROVE  \A s \in Walk(next) : s \in P
<1>1. PICK at : /\ at[1] = next[1]
                /\ \A c \in 2 .. RING_SIZE - 1 :
                      at[c] = IF at[c - 1].to = RING_SIZE
                              THEN at[c - 1] ELSE next[at[c - 1].to]
                /\ Walk(next) = {at[c] : c \in 1 .. RING_SIZE - 1}
  BY WalkDef
<1> DEFINE Good == {n \in Nat : n + 1 \in 1 .. RING_SIZE - 1 => at[n + 1] \in P}
<1>2. 0 \in Good
  BY <1>1
<1>3. ASSUME NEW n \in Nat, n \in Good  PROVE n + 1 \in Good
  <2> SUFFICES ASSUME n + 2 \in 1 .. RING_SIZE - 1 PROVE at[n + 2] \in P
    OBVIOUS
  <2>1. n + 1 \in 1 .. RING_SIZE - 1 /\ n + 2 \in 2 .. RING_SIZE - 1 /\ (n + 2) - 1 = n + 1
    BY Size
  <2>2. at[n + 1] \in P BY <1>3, <2>1
  <2>3. at[n + 2] = IF at[n + 1].to = RING_SIZE THEN at[n + 1] ELSE next[at[n + 1].to]
    BY <1>1, <2>1
  <2> QED BY <2>2, <2>3
<1>4. \A n \in Nat : n \in Good
  <2> HIDE DEF Good
  <2> QED BY <1>2, <1>3, SetInduction
<1>5. ASSUME NEW c \in 1 .. RING_SIZE - 1  PROVE at[c] \in P
  <2>1. c - 1 \in Nat /\ (c - 1) + 1 = c OBVIOUS
  <2> QED BY <1>4, <2>1
<1> QED BY <1>1, <1>5

\* A walk visits the first segment and the successor of any it visits: it
\* reaches the newest point within RING_SIZE - 1 steps.
LEMMA WalkCloses ==
    ASSUME NEW next, \A j \in 1 .. RING_SIZE - 1 : next[j].to \in j + 1 .. RING_SIZE
    PROVE  /\ next[1] \in Walk(next)
           /\ \A s \in Walk(next) : s.to # RING_SIZE => next[s.to] \in Walk(next)
<1>1. PICK at : /\ at[1] = next[1]
                /\ \A c \in 2 .. RING_SIZE - 1 :
                      at[c] = IF at[c - 1].to = RING_SIZE
                              THEN at[c - 1] ELSE next[at[c - 1].to]
                /\ Walk(next) = {at[c] : c \in 1 .. RING_SIZE - 1}
  BY WalkDef
<1> DEFINE Good == {n \in Nat : n + 1 \in 1 .. RING_SIZE - 1 => at[n + 1].to \in n + 2 .. RING_SIZE}
<1>2. 0 \in Good
  BY <1>1
<1>3. ASSUME NEW n \in Nat, n \in Good  PROVE n + 1 \in Good
  <2> SUFFICES ASSUME n + 2 \in 1 .. RING_SIZE - 1 PROVE at[n + 2].to \in n + 3 .. RING_SIZE
    OBVIOUS
  <2>1. n + 1 \in 1 .. RING_SIZE - 1 /\ n + 2 \in 2 .. RING_SIZE - 1 /\ (n + 2) - 1 = n + 1
    BY Size
  <2>2. at[n + 1].to \in n + 2 .. RING_SIZE BY <1>3, <2>1
  <2>3. at[n + 2] = IF at[n + 1].to = RING_SIZE THEN at[n + 1] ELSE next[at[n + 1].to]
    BY <1>1, <2>1
  <2>4. CASE at[n + 1].to = RING_SIZE
    <3>1. at[n + 2].to = RING_SIZE BY <2>3, <2>4
    <3> QED BY <3>1, Size
  <2>5. CASE at[n + 1].to # RING_SIZE
    <3>1. at[n + 1].to \in 1 .. RING_SIZE - 1 BY <2>2, <2>5, Size
    <3>2. at[n + 2].to \in at[n + 1].to + 1 .. RING_SIZE BY <2>3, <2>5, <3>1
    <3> QED BY <2>2, <3>1, <3>2, Size
  <2> QED BY <2>4, <2>5
<1>4. \A n \in Nat : n \in Good
  <2> HIDE DEF Good
  <2> QED BY <1>2, <1>3, SetInduction
<1>5. ASSUME NEW c \in 1 .. RING_SIZE - 1, at[c].to # RING_SIZE
      PROVE  next[at[c].to] \in Walk(next)
  <2>1. c - 1 \in Nat /\ (c - 1) + 1 = c /\ (c - 1) + 2 = c + 1 OBVIOUS
  <2>2. at[c].to \in c + 1 .. RING_SIZE
    BY <1>4, <2>1
  <2>3. c + 1 \in 2 .. RING_SIZE - 1 /\ (c + 1) - 1 = c BY <1>5, <2>2, Size
  <2>4. at[c + 1] = next[at[c].to] BY <1>1, <1>5, <2>3
  <2>5. c + 1 \in 1 .. RING_SIZE - 1 BY <2>3
  <2> QED BY <1>1, <2>4, <2>5
<1>6. 1 \in 1 .. RING_SIZE - 1
  BY Size
<1> QED BY <1>1, <1>5, <1>6

-----------------------------------------------------------------------------
(***************************************************************************)
(* search().                                                               *)
(***************************************************************************)

\* What contemplate_data() relies on: times in order, and exact lines
\* through any two ends.
Shape(at, u, l) ==
    /\ Rising(at) /\ u \in Curve /\ l \in Curve
    /\ \A from, to \in {u, l} : Grid(at, from, to)

\* What search() makes of two points is a line through both.
LEMMA LinesAre ==
    ASSUME NEW at, NEW from \in Curve, NEW to \in Curve, Rising(at), Grid(at, from, to)
    PROVE  /\ \A s \in Lines(at, from, to) : IsLine(s, at, from, to)
           /\ \A j \in 1 .. RING_SIZE - 1 : \A s \in LinesFrom(at, from, to, j) :
                 s \in Lines(at, from, to) /\ IsLine(s, at, from, to) /\ s.from = j
           /\ \A j, n \in 1..RING_SIZE : j < n =>
                 /\ Line(at, from, to, j, n) \in LinesFrom(at, from, to, j)
                 /\ Line(at, from, to, j, n) \in Lines(at, from, to)
                 /\ IsLine(Line(at, from, to, j, n), at, from, to)
                 /\ Line(at, from, to, j, n).from = j
                 /\ Line(at, from, to, j, n).to = n
<1>1. ASSUME NEW j \in 1 .. RING_SIZE - 1, NEW s \in LinesFrom(at, from, to, j)
      PROVE  s \in Lines(at, from, to) /\ IsLine(s, at, from, to) /\ s.from = j
  <2>1. PICK n \in j + 1 .. RING_SIZE : s = Line(at, from, to, j, n)
    BY DEF LinesFrom
  <2>2. j \in 1..RING_SIZE
    BY Size
  <2>3. IsLine(s, at, from, to) /\ s.from = j
    BY <2>1, <2>2, LineThrough
  <2> QED BY <2>3 DEF Lines
<1>2. ASSUME NEW j \in 1..RING_SIZE, NEW n \in 1..RING_SIZE, j < n
      PROVE  /\ Line(at, from, to, j, n) \in LinesFrom(at, from, to, j)
             /\ Line(at, from, to, j, n) \in Lines(at, from, to)
             /\ IsLine(Line(at, from, to, j, n), at, from, to)
             /\ Line(at, from, to, j, n).from = j
             /\ Line(at, from, to, j, n).to = n
  <2>1. n \in j + 1 .. RING_SIZE /\ j \in 1 .. RING_SIZE - 1
    BY <1>2, Size
  <2>2. Line(at, from, to, j, n) \in LinesFrom(at, from, to, j)
    BY <2>1 DEF LinesFrom
  <2>3. /\ IsLine(Line(at, from, to, j, n), at, from, to)
        /\ Line(at, from, to, j, n).from = j
        /\ Line(at, from, to, j, n).to = n
    BY <2>1, LineThrough
  <2> QED BY <2>1, <2>2, <2>3, <1>1
<1>3. \A s \in Lines(at, from, to) : IsLine(s, at, from, to)
  BY <1>1 DEF Lines
<1> QED BY <1>1, <1>2, <1>3

\* The flattest line from a point to the later points of a curve stays
\* below all of them.
LEMMA FlattestIs ==
    ASSUME NEW at, NEW from \in Curve, NEW to \in Curve, Rising(at), Grid(at, from, to),
           NEW j \in 1 .. RING_SIZE - 1
    PROVE  LET s == Flattest(LinesFrom(at, from, to, j))
           IN  /\ s \in LinesFrom(at, from, to, j)
               /\ \A n \in j + 1 .. RING_SIZE : Val(s, at[n]) <= to[n]
<1> DEFINE L(n) == Line(at, from, to, j, n)
           later == j + 1 .. RING_SIZE
           slopes == {L(n).slope : n \in later}
           m == Min(slopes)
<1> HIDE DEF L
<1>1. \A n \in later : /\ L(n) \in LinesFrom(at, from, to, j)
                       /\ IsLine(L(n), at, from, to) /\ L(n).from = j /\ L(n).to = n
  <2>1. j \in 1..RING_SIZE /\ \A n \in later : n \in 1..RING_SIZE /\ j < n
    BY Size
  <2> QED BY <2>1, LinesAre DEF L
<1>2. \A n \in later : L(n).slope \in Int /\ L(n).offset \in Int
  BY <1>1 DEF IsLine
<1>3. m \in slopes /\ \A x \in slopes : m <= x
  <2>1. slopes \subseteq Int BY <1>2
  <2>2. IsFiniteSet(later) BY FS_Interval, Size
  <2>3. IsFiniteSet(slopes)
    <3> DEFINE f == [n \in later |-> L(n).slope]
    <3>1. slopes = {f[n] : n \in later} OBVIOUS
    <3> HIDE DEF slopes, f
    <3> QED BY <2>2, <3>1, FiniteImage
  <2>4. RING_SIZE \in later BY Size
  <2>5. slopes # {} BY <2>4
  <2> HIDE DEF slopes
  <2> QED BY <2>1, <2>3, <2>5, FiniteMin
<1> HIDE DEF m
<1>4. PICK n \in later : L(n).slope = m /\ \A k \in later : L(k).slope = m => n <= k
  <2> DEFINE best == {k \in later : L(k).slope = m}
  <2>1. best \subseteq Nat /\ best # {} BY <1>3, Size
  <2>2. PICK k \in best : \A i \in best : k <= i
    <3> HIDE DEF best
    <3> QED BY <2>1, LeastNumber
  <2> QED BY <2>2
<1> DEFINE s == Flattest(LinesFrom(at, from, to, j))
           Wins(r) == \A t \in LinesFrom(at, from, to, j) :
                         r.slope < t.slope \/ (r.slope = t.slope /\ r.to <= t.to)
<1>5. Wins(L(n))
  <2> SUFFICES ASSUME NEW k \in later
               PROVE  L(n).slope < L(k).slope \/ (L(n).slope = L(k).slope /\ L(n).to <= L(k).to)
    BY DEF LinesFrom, L
  <2>1. m <= L(k).slope /\ L(k).slope \in Int /\ m \in Int BY <1>2, <1>3
  <2>2. L(n).slope = m /\ L(n).to = n /\ L(k).to = k BY <1>1, <1>4
  <2> QED BY <1>4, <2>1, <2>2
<1>6. s \in LinesFrom(at, from, to, j) /\ Wins(s)
  BY <1>1, <1>5 DEF Flattest
<1> HIDE DEF s
<1>7. ASSUME NEW k \in later  PROVE Val(s, at[k]) <= to[k]
  <2>1. IsLine(s, at, from, to) /\ s.from = j
    BY <1>6, LinesAre
  <2>2. s.slope \in Int /\ s.offset \in Int /\ Val(s, at[j]) = from[j]
    BY <2>1 DEF IsLine
  <2>3. s.slope <= L(k).slope
    BY <1>1, <1>2, <1>6, <2>2
  <2>4. Val(L(k), at[j]) = from[j] /\ Val(L(k), at[k]) = to[k]
    BY <1>1 DEF IsLine
  <2>5. j \in 1..RING_SIZE /\ k \in 1..RING_SIZE /\ j < k BY Size
  <2>6. at[j] \in Int /\ at[k] \in Int /\ at[j] < at[k] BY <2>5 DEF Rising, Curve
  <2>7. Compare(s, L(k), at[j], at[k]) BY <1>2, <2>2, <2>6, Comparison
  <2> QED BY <1>2, <2>2, <2>3, <2>4, <2>7 DEF Compare
<1> QED BY <1>6, <1>7 DEF s

\* The steepest stays above all of them.
LEMMA SteepestIs ==
    ASSUME NEW at, NEW from \in Curve, NEW to \in Curve, Rising(at), Grid(at, from, to),
           NEW j \in 1 .. RING_SIZE - 1
    PROVE  LET s == Steepest(LinesFrom(at, from, to, j))
           IN  /\ s \in LinesFrom(at, from, to, j)
               /\ \A n \in j + 1 .. RING_SIZE : Val(s, at[n]) >= to[n]
<1> DEFINE L(n) == Line(at, from, to, j, n)
           later == j + 1 .. RING_SIZE
           slopes == {L(n).slope : n \in later}
           m == Max(slopes)
<1> HIDE DEF L
<1>1. \A n \in later : /\ L(n) \in LinesFrom(at, from, to, j)
                       /\ IsLine(L(n), at, from, to) /\ L(n).from = j /\ L(n).to = n
  <2>1. j \in 1..RING_SIZE /\ \A n \in later : n \in 1..RING_SIZE /\ j < n
    BY Size
  <2> QED BY <2>1, LinesAre DEF L
<1>2. \A n \in later : L(n).slope \in Int /\ L(n).offset \in Int
  BY <1>1 DEF IsLine
<1>a. IsFiniteSet(later) BY FS_Interval, Size
<1>3. m \in slopes /\ \A x \in slopes : m >= x
  <2>1. slopes \subseteq Int BY <1>2
  <2>3. IsFiniteSet(slopes)
    <3> DEFINE f == [n \in later |-> L(n).slope]
    <3>1. slopes = {f[n] : n \in later} OBVIOUS
    <3> HIDE DEF slopes, f
    <3> QED BY <1>a, <3>1, FiniteImage
  <2>4. RING_SIZE \in later BY Size
  <2>5. slopes # {} BY <2>4
  <2> HIDE DEF slopes
  <2> QED BY <2>1, <2>3, <2>5, FiniteMax
<1> HIDE DEF m
<1>4. PICK n \in later : L(n).slope = m /\ \A k \in later : L(k).slope = m => n >= k
  <2> DEFINE best == {k \in later : L(k).slope = m}
  <2>1. best \subseteq Int /\ best # {} BY <1>3, Size
  <2>2. IsFiniteSet(best) BY <1>a, FS_Subset
  <2>3. PICK k \in best : \A i \in best : k >= i
    <3> HIDE DEF best
    <3> QED BY <2>1, <2>2, FiniteMax
  <2> QED BY <2>3
<1> DEFINE s == Steepest(LinesFrom(at, from, to, j))
           Wins(r) == \A t \in LinesFrom(at, from, to, j) :
                         r.slope > t.slope \/ (r.slope = t.slope /\ r.to >= t.to)
<1>5. Wins(L(n))
  <2> SUFFICES ASSUME NEW k \in later
               PROVE  L(n).slope > L(k).slope \/ (L(n).slope = L(k).slope /\ L(n).to >= L(k).to)
    BY DEF LinesFrom, L
  <2>1. m >= L(k).slope /\ L(k).slope \in Int /\ m \in Int BY <1>2, <1>3
  <2>2. L(n).slope = m /\ L(n).to = n /\ L(k).to = k BY <1>1, <1>4
  <2> QED BY <1>4, <2>1, <2>2
<1>6. s \in LinesFrom(at, from, to, j) /\ Wins(s)
  BY <1>1, <1>5 DEF Steepest
<1> HIDE DEF s
<1>7. ASSUME NEW k \in later  PROVE Val(s, at[k]) >= to[k]
  <2>1. IsLine(s, at, from, to) /\ s.from = j
    BY <1>6, LinesAre
  <2>2. s.slope \in Int /\ s.offset \in Int /\ Val(s, at[j]) = from[j]
    BY <2>1 DEF IsLine
  <2>3. s.slope >= L(k).slope
    BY <1>1, <1>2, <1>6, <2>2
  <2>4. Val(L(k), at[j]) = from[j] /\ Val(L(k), at[k]) = to[k]
    BY <1>1 DEF IsLine
  <2>5. j \in 1..RING_SIZE /\ k \in 1..RING_SIZE /\ j < k BY Size
  <2>6. at[j] \in Int /\ at[k] \in Int /\ at[j] < at[k] BY <2>5 DEF Rising, Curve
  <2>7. Compare(s, L(k), at[j], at[k]) BY <1>2, <2>2, <2>6, Comparison
  <2> QED BY <1>2, <2>2, <2>3, <2>4, <2>7 DEF Compare
<1> QED BY <1>6, <1>7 DEF s

-----------------------------------------------------------------------------
(***************************************************************************)
(* A walk along one hull.                                                  *)
(***************************************************************************)

\* The segments of a walk along the curve c: chained from the oldest
\* point to the newest, one from each point visited.
Hull(A, at, c) ==
    /\ \A s \in A : s \in Lines(at, c, c) /\ IsLine(s, at, c, c)
    /\ \E s \in A : s.from = 1
    /\ \A s \in A : /\ s.to # RING_SIZE => \E r \in A : r.from = s.to
                    /\ s.from # 1 => \E r \in A : r.to = s.from
    /\ \A s, r \in A : s.from = r.from => s = r

\* No point of the curve is below the line.
Under(s, at, c) == \A k \in 1..RING_SIZE : Val(s, at[k]) <= c[k]
\* No point of the curve is above the line.
Over(s, at, c) == \A k \in 1..RING_SIZE : Val(s, at[k]) >= c[k]

\* A walk's segments form such a chain.
LEMMA WalkHull ==
    ASSUME NEW at, NEW c \in Curve, Rising(at), Grid(at, c, c),
           NEW next, \A j \in 1 .. RING_SIZE - 1 : next[j] \in LinesFrom(at, c, c, j)
    PROVE  Hull(Walk(next), at, c)
<1> DEFINE A == Walk(next)
<1>1. \A j \in 1 .. RING_SIZE - 1 :
          /\ next[j] \in Lines(at, c, c) /\ IsLine(next[j], at, c, c)
          /\ next[j].from = j /\ next[j].to \in j + 1 .. RING_SIZE
  <2> SUFFICES ASSUME NEW j \in 1 .. RING_SIZE - 1
               PROVE  /\ next[j] \in Lines(at, c, c) /\ IsLine(next[j], at, c, c)
                      /\ next[j].from = j /\ next[j].to \in j + 1 .. RING_SIZE
    OBVIOUS
  <2>1. next[j] \in Lines(at, c, c) /\ IsLine(next[j], at, c, c) /\ next[j].from = j
    BY LinesAre
  <2> QED BY <2>1 DEF IsLine
<1>2. next[1] \in A /\ \A s \in A : s.to # RING_SIZE => next[s.to] \in A
  BY <1>1, WalkCloses
<1>3. 1 \in 1 .. RING_SIZE - 1
  BY Size
<1> HIDE DEF A
<1>4. \A s \in A : \E j \in 1 .. RING_SIZE - 1 : s = next[j]
  <2> DEFINE P == {next[j] : j \in 1 .. RING_SIZE - 1}
  <2>1. next[1] \in P BY <1>3
  <2>2. ASSUME NEW s \in P, s.to # RING_SIZE  PROVE next[s.to] \in P
    <3>1. s.to \in 1 .. RING_SIZE - 1 BY <2>2, <1>1, Size
    <3> QED BY <3>1
  <2>3. \A s \in A : s \in P
    <3> HIDE DEF P
    <3> QED BY <2>1, <2>2, WalkWithin DEF A
  <2> QED BY <2>3
<1>5. ASSUME NEW s \in A, s.to # RING_SIZE  PROVE next[s.to].from = s.to
  <2>1. s.to \in 1 .. RING_SIZE - 1 BY <1>1, <1>4, <1>5, Size
  <2> QED BY <1>1, <2>1
<1>6. \A s \in A : s.from # 1 => \E r \in A : r.to = s.from
  <2> DEFINE P == {s \in A : s.from # 1 => \E r \in A : r.to = s.from}
  <2>1. next[1] \in P BY <1>1, <1>2, <1>3
  <2>2. \A s \in P : s.to # RING_SIZE => next[s.to] \in P BY <1>2, <1>5
  <2>3. \A s \in A : s \in P
    <3> HIDE DEF P
    <3> QED BY <2>1, <2>2, WalkWithin DEF A
  <2> QED BY <2>3
<1>7. \A s, r \in A : s.from = r.from => s = r
  BY <1>1, <1>4
<1>8. \A s \in A : s \in Lines(at, c, c) /\ IsLine(s, at, c, c)
  BY <1>1, <1>4
<1>9. Hull(A, at, c)
  BY <1>1, <1>2, <1>3, <1>5, <1>6, <1>7, <1>8 DEF Hull
<1> QED BY <1>9 DEF A

\* A walk along the flattest segments is the lower hull of the curve:
\* none of its segments cuts the curve, earlier points included, although
\* search() looks at later points only.
LEMMA UpperSupports ==
    ASSUME NEW at, NEW u \in Curve, Rising(at), Grid(at, u, u), NEW next,
           \A j \in 1 .. RING_SIZE - 1 :
               /\ next[j] \in LinesFrom(at, u, u, j)
               /\ \A n \in j + 1 .. RING_SIZE : Val(next[j], at[n]) <= u[n]
    PROVE  \A s \in Walk(next) : Under(s, at, u)
<1> DEFINE P == {s \in {next[j] : j \in 1 .. RING_SIZE - 1} : Under(s, at, u)}
<1>1. ASSUME NEW j \in 1 .. RING_SIZE - 1
      PROVE  /\ IsLine(next[j], at, u, u) /\ next[j].from = j
             /\ \A k \in j..RING_SIZE : Val(next[j], at[k]) <= u[k]
  <2>1. IsLine(next[j], at, u, u) /\ next[j].from = j
    BY LinesAre
  <2>2. Val(next[j], at[j]) = u[j] /\ u[j] \in Int
    BY <2>1, Size DEF IsLine, Curve
  <2>3. \A k \in j..RING_SIZE : k = j \/ k \in j + 1 .. RING_SIZE
    BY Size
  <2> QED BY <2>1, <2>2, <2>3
<1>2. next[1] \in P
  <2>1. 1 \in 1 .. RING_SIZE - 1 BY Size
  <2> QED BY <1>1, <2>1 DEF Under
<1>3. ASSUME NEW s \in P, s.to # RING_SIZE  PROVE next[s.to] \in P
  <2>1. IsLine(s, at, u, u) /\ Under(s, at, u)
    BY <1>1
  <2>2. s.to \in 1 .. RING_SIZE - 1 /\ s.to \in 1..RING_SIZE
    BY <1>3, <2>1, Size DEF IsLine
  <2> DEFINE j == s.to
             r == next[j]
  <2> HIDE DEF j
  <2>3. j \in 1 .. RING_SIZE - 1 /\ j \in 1..RING_SIZE /\ j = s.to
    BY <2>2 DEF j
  <2>4. IsLine(r, at, u, u) /\ r.from = j /\ \A k \in j..RING_SIZE : Val(r, at[k]) <= u[k]
    BY <1>1, <2>3
  <2> HIDE DEF r
  <2>5. /\ s.slope \in Int /\ s.offset \in Int /\ r.slope \in Int /\ r.offset \in Int
        /\ Val(s, at[j]) = u[j] /\ Val(r, at[j]) = u[j]
        /\ r.to \in j + 1 .. RING_SIZE /\ Val(r, at[r.to]) = u[r.to]
    BY <2>1, <2>3, <2>4 DEF IsLine
  <2>6. r.to \in 1..RING_SIZE /\ j < r.to
    BY <2>3, <2>5
  <2>7. s.slope <= r.slope
    <3>1. at[j] \in Int /\ at[r.to] \in Int /\ at[j] < at[r.to]
      BY <2>3, <2>6 DEF Rising, Curve
    <3>2. Compare(r, s, at[j], at[r.to])
      BY <2>5, <3>1, Comparison
    <3>3. Val(s, at[r.to]) <= u[r.to]
      BY <2>1, <2>6 DEF Under
    <3> QED BY <2>5, <3>2, <3>3 DEF Compare
  <2>8. ASSUME NEW k \in 1..RING_SIZE, k < j  PROVE Val(r, at[k]) <= u[k]
    <3>1. at[j] \in Int /\ at[k] \in Int /\ at[k] < at[j]
      BY <2>3, <2>8 DEF Rising, Curve
    <3>2. Compare(r, s, at[k], at[j])
      BY <2>5, <3>1, Comparison
    <3>3. Val(s, at[k]) <= u[k] /\ u[k] \in Int
      BY <2>1 DEF Under, Curve
    <3> QED BY <2>5, <2>7, <3>2, <3>3 DEF Compare
  <2>9. \A k \in 1..RING_SIZE : Val(r, at[k]) <= u[k]
    <3>1. \A k \in 1..RING_SIZE : k < j \/ k \in j..RING_SIZE BY <2>3
    <3> QED BY <2>4, <2>8, <3>1
  <2> QED BY <2>3, <2>9 DEF Under, r, j
<1>4. \A s \in Walk(next) : s \in P
  <2> HIDE DEF P
  <2> QED BY <1>2, <1>3, WalkWithin
<1> QED BY <1>4

\* A walk along the steepest segments is the upper hull of the curve.
LEMMA LowerSupports ==
    ASSUME NEW at, NEW l \in Curve, Rising(at), Grid(at, l, l), NEW next,
           \A j \in 1 .. RING_SIZE - 1 :
               /\ next[j] \in LinesFrom(at, l, l, j)
               /\ \A n \in j + 1 .. RING_SIZE : Val(next[j], at[n]) >= l[n]
    PROVE  \A s \in Walk(next) : Over(s, at, l)
<1> DEFINE P == {s \in {next[j] : j \in 1 .. RING_SIZE - 1} : Over(s, at, l)}
<1>1. ASSUME NEW j \in 1 .. RING_SIZE - 1
      PROVE  /\ IsLine(next[j], at, l, l) /\ next[j].from = j
             /\ \A k \in j..RING_SIZE : Val(next[j], at[k]) >= l[k]
  <2>1. IsLine(next[j], at, l, l) /\ next[j].from = j
    BY LinesAre
  <2>2. Val(next[j], at[j]) = l[j] /\ l[j] \in Int
    BY <2>1, Size DEF IsLine, Curve
  <2>3. \A k \in j..RING_SIZE : k = j \/ k \in j + 1 .. RING_SIZE
    BY Size
  <2> QED BY <2>1, <2>2, <2>3
<1>2. next[1] \in P
  <2>1. 1 \in 1 .. RING_SIZE - 1 BY Size
  <2> QED BY <1>1, <2>1 DEF Over
<1>3. ASSUME NEW s \in P, s.to # RING_SIZE  PROVE next[s.to] \in P
  <2>1. IsLine(s, at, l, l) /\ Over(s, at, l)
    BY <1>1
  <2>2. s.to \in 1 .. RING_SIZE - 1 /\ s.to \in 1..RING_SIZE
    BY <1>3, <2>1, Size DEF IsLine
  <2> DEFINE j == s.to
             r == next[j]
  <2> HIDE DEF j
  <2>3. j \in 1 .. RING_SIZE - 1 /\ j \in 1..RING_SIZE /\ j = s.to
    BY <2>2 DEF j
  <2>4. IsLine(r, at, l, l) /\ r.from = j /\ \A k \in j..RING_SIZE : Val(r, at[k]) >= l[k]
    BY <1>1, <2>3
  <2> HIDE DEF r
  <2>5. /\ s.slope \in Int /\ s.offset \in Int /\ r.slope \in Int /\ r.offset \in Int
        /\ Val(s, at[j]) = l[j] /\ Val(r, at[j]) = l[j]
        /\ r.to \in j + 1 .. RING_SIZE /\ Val(r, at[r.to]) = l[r.to]
    BY <2>1, <2>3, <2>4 DEF IsLine
  <2>6. r.to \in 1..RING_SIZE /\ j < r.to
    BY <2>3, <2>5
  <2>7. s.slope >= r.slope
    <3>1. at[j] \in Int /\ at[r.to] \in Int /\ at[j] < at[r.to]
      BY <2>3, <2>6 DEF Rising, Curve
    <3>2. Compare(r, s, at[j], at[r.to])
      BY <2>5, <3>1, Comparison
    <3>3. Val(s, at[r.to]) >= l[r.to]
      BY <2>1, <2>6 DEF Over
    <3> QED BY <2>5, <3>2, <3>3 DEF Compare
  <2>8. ASSUME NEW k \in 1..RING_SIZE, k < j  PROVE Val(r, at[k]) >= l[k]
    <3>1. at[j] \in Int /\ at[k] \in Int /\ at[k] < at[j]
      BY <2>3, <2>8 DEF Rising, Curve
    <3>2. Compare(r, s, at[k], at[j])
      BY <2>5, <3>1, Comparison
    <3>3. Val(s, at[k]) >= l[k] /\ l[k] \in Int
      BY <2>1 DEF Over, Curve
    <3> QED BY <2>5, <2>7, <3>2, <3>3 DEF Compare
  <2>9. \A k \in 1..RING_SIZE : Val(r, at[k]) >= l[k]
    <3>1. \A k \in 1..RING_SIZE : k < j \/ k \in j..RING_SIZE BY <2>3
    <3> QED BY <2>4, <2>8, <3>1
  <2> QED BY <2>3, <2>9 DEF Over, r, j
<1>4. \A s \in Walk(next) : s \in P
  <2> HIDE DEF P
  <2> QED BY <1>2, <1>3, WalkWithin
<1> QED BY <1>4

-----------------------------------------------------------------------------
(***************************************************************************)
(* The crossings of both hulls.                                            *)
(***************************************************************************)

\* What the tests of line 238 leave of a crossing from the upper to the
\* lower hull: it stays strictly below all other upper ends, the earlier
\* ones included, and over the later lower ends.
LowCross(c, at, u, l) ==
    /\ c \in Lines(at, u, l) /\ IsLine(c, at, u, l)
    /\ \A k \in 1..RING_SIZE : k # c.from => Val(c, at[k]) < u[k]
    /\ \A n \in c.from + 1 .. RING_SIZE : Val(c, at[n]) >= l[n]

\* The mirror image, line 258.
HighCross(d, at, u, l) ==
    /\ d \in Lines(at, l, u) /\ IsLine(d, at, l, u)
    /\ \A k \in 1..RING_SIZE : k # d.from => Val(d, at[k]) > l[k]
    /\ \A n \in d.from + 1 .. RING_SIZE : Val(d, at[n]) <= u[n]

\* maxseg is the lower hull of the upper ends.
LEMMA UpperHull ==
    ASSUME NEW e, Shape(e.at, e.max, e.min)
    PROVE  Hull(maxseg(e), e.at, e.max) /\ \A s \in maxseg(e) : Under(s, e.at, e.max)
<1> DEFINE next == [j \in 1 .. RING_SIZE - 1 |-> Flattest(LinesFrom(e.at, e.max, e.max, j))]
<1>1. e.max \in Curve /\ Rising(e.at) /\ Grid(e.at, e.max, e.max)
  BY DEF Shape
<1>2. \A j \in 1 .. RING_SIZE - 1 :
          /\ next[j] \in LinesFrom(e.at, e.max, e.max, j)
          /\ \A n \in j + 1 .. RING_SIZE : Val(next[j], e.at[n]) <= e.max[n]
  BY <1>1, FlattestIs
<1>3. maxseg(e) = Walk(next)
  BY DEF maxseg
<1> HIDE DEF next
<1> QED BY <1>1, <1>2, <1>3, WalkHull, UpperSupports

\* minseg is the upper hull of the lower ends.
LEMMA LowerHull ==
    ASSUME NEW e, Shape(e.at, e.max, e.min)
    PROVE  Hull(minseg(e), e.at, e.min) /\ \A s \in minseg(e) : Over(s, e.at, e.min)
<1> DEFINE next == [j \in 1 .. RING_SIZE - 1 |-> Steepest(LinesFrom(e.at, e.min, e.min, j))]
<1>1. e.min \in Curve /\ Rising(e.at) /\ Grid(e.at, e.min, e.min)
  BY DEF Shape
<1>2. \A j \in 1 .. RING_SIZE - 1 :
          /\ next[j] \in LinesFrom(e.at, e.min, e.min, j)
          /\ \A n \in j + 1 .. RING_SIZE : Val(next[j], e.at[n]) >= e.min[n]
  BY <1>1, SteepestIs
<1>3. minseg(e) = Walk(next)
  BY DEF minseg
<1> HIDE DEF next
<1> QED BY <1>1, <1>2, <1>3, WalkHull, LowerSupports

\* A crossing that passes the two comparisons of line 238 with the
\* segments next to it stays clear of the whole hull.
LEMMA LowCrosses ==
    ASSUME NEW e, Shape(e.at, e.max, e.min), NEW c \in MinCrossings(e, maxseg(e))
    PROVE  /\ LowCross(c, e.at, e.max, e.min)
           /\ \E s \in maxseg(e) : s.from = c.from /\ s.slope > c.slope
           /\ \A s \in maxseg(e) : s.to = c.from => s.slope < c.slope
<1> DEFINE at == e.at
           u == e.max
           l == e.min
           A == maxseg(e)
<1>1. /\ u \in Curve /\ l \in Curve /\ Rising(at) /\ Grid(at, u, l)
      /\ Hull(A, at, u) /\ \A s \in A : Under(s, at, u)
  BY UpperHull DEF Shape
<1>2. PICK s \in A : c = Steepest(LinesFrom(at, u, l, s.from))
  BY DEF MinCrossings
<1>3. \A r \in A : (r.from = c.from => c.slope < r.slope) /\ (r.to = c.from => c.slope > r.slope)
  BY DEF MinCrossings
<1> HIDE DEF at, u, l, A
<1>4. IsLine(s, at, u, u) /\ s.from \in 1 .. RING_SIZE - 1
  BY <1>1, <1>2 DEF Hull, IsLine
<1>5. /\ c \in Lines(at, u, l) /\ IsLine(c, at, u, l) /\ c.from = s.from
      /\ \A n \in c.from + 1 .. RING_SIZE : Val(c, at[n]) >= l[n]
  <2>1. c \in LinesFrom(at, u, l, s.from)
    BY <1>1, <1>2, <1>4, SteepestIs
  <2>2. c \in Lines(at, u, l) /\ IsLine(c, at, u, l) /\ c.from = s.from
    BY <1>1, <1>4, <2>1, LinesAre
  <2>3. \A n \in s.from + 1 .. RING_SIZE : Val(c, at[n]) >= l[n]
    BY <1>1, <1>2, <1>4, SteepestIs
  <2> QED BY <2>2, <2>3
<1> DEFINE j == c.from
<1>6. /\ c.slope \in Int /\ c.offset \in Int /\ s.slope \in Int /\ s.offset \in Int
      /\ Val(c, at[j]) = u[j] /\ Val(s, at[j]) = u[j] /\ j \in 1 .. RING_SIZE - 1 /\ j \in 1..RING_SIZE
  BY <1>4, <1>5, Size DEF IsLine
<1> HIDE DEF j
<1>7. c.slope < s.slope
  BY <1>2, <1>3, <1>5
<1>8. ASSUME NEW k \in 1..RING_SIZE, k > j  PROVE Val(c, at[k]) < u[k]
  <2>1. at[j] \in Int /\ at[k] \in Int /\ at[j] < at[k]
    BY <1>1, <1>6, <1>8 DEF Rising, Curve, j
  <2>2. Compare(c, s, at[j], at[k])
    BY <1>6, <2>1, Comparison
  <2>3. Val(s, at[k]) <= u[k] /\ u[k] \in Int
    BY <1>1, <1>2 DEF Under, Curve
  <2> QED BY <1>6, <1>7, <2>2, <2>3 DEF Compare
<1>9. ASSUME NEW k \in 1..RING_SIZE, k < j  PROVE Val(c, at[k]) < u[k]
  <2>1. j # 1
    BY <1>6, <1>9
  <2>2. PICK r \in A : r.to = j
    BY <1>1, <1>2, <1>5, <2>1 DEF Hull, j
  <2>3. IsLine(r, at, u, u) /\ r.slope < c.slope
    BY <1>1, <1>3, <2>2 DEF Hull, j
  <2>4. r.slope \in Int /\ r.offset \in Int /\ Val(r, at[j]) = u[j]
    BY <2>2, <2>3 DEF IsLine
  <2>5. at[j] \in Int /\ at[k] \in Int /\ at[k] < at[j]
    BY <1>1, <1>6, <1>9 DEF Rising, Curve, j
  <2>6. Compare(c, r, at[k], at[j])
    BY <1>6, <2>4, <2>5, Comparison
  <2>7. Val(r, at[k]) <= u[k] /\ u[k] \in Int
    BY <1>1, <2>2 DEF Under, Curve
  <2> QED BY <1>6, <2>3, <2>4, <2>6, <2>7 DEF Compare
<1>10. \A k \in 1..RING_SIZE : k # j => Val(c, at[k]) < u[k]
  <2>1. \A k \in 1..RING_SIZE : k # j => k < j \/ k > j BY <1>6
  <2> QED BY <1>8, <1>9, <2>1
<1>11. LowCross(c, at, u, l)
  BY <1>5, <1>10 DEF LowCross, j
<1> QED BY <1>2, <1>3, <1>5, <1>7, <1>11 DEF at, u, l, A

\* A crossing that passes those of line 258 does, too.
LEMMA HighCrosses ==
    ASSUME NEW e, Shape(e.at, e.max, e.min), NEW c \in MaxCrossings(e, minseg(e))
    PROVE  /\ HighCross(c, e.at, e.max, e.min)
           /\ \E s \in minseg(e) : s.from = c.from /\ s.slope < c.slope
           /\ \A s \in minseg(e) : s.to = c.from => s.slope > c.slope
<1> DEFINE at == e.at
           u == e.max
           l == e.min
           A == minseg(e)
<1>1. /\ u \in Curve /\ l \in Curve /\ Rising(at) /\ Grid(at, l, u)
      /\ Hull(A, at, l) /\ \A s \in A : Over(s, at, l)
  BY LowerHull DEF Shape
<1>2. PICK s \in A : c = Flattest(LinesFrom(at, l, u, s.from))
  BY DEF MaxCrossings
<1>3. \A r \in A : (r.from = c.from => c.slope > r.slope) /\ (r.to = c.from => c.slope < r.slope)
  BY DEF MaxCrossings
<1> HIDE DEF at, u, l, A
<1>4. IsLine(s, at, l, l) /\ s.from \in 1 .. RING_SIZE - 1
  BY <1>1, <1>2 DEF Hull, IsLine
<1>5. /\ c \in Lines(at, l, u) /\ IsLine(c, at, l, u) /\ c.from = s.from
      /\ \A n \in c.from + 1 .. RING_SIZE : Val(c, at[n]) <= u[n]
  <2>1. c \in LinesFrom(at, l, u, s.from)
    BY <1>1, <1>2, <1>4, FlattestIs
  <2>2. c \in Lines(at, l, u) /\ IsLine(c, at, l, u) /\ c.from = s.from
    BY <1>1, <1>4, <2>1, LinesAre
  <2>3. \A n \in s.from + 1 .. RING_SIZE : Val(c, at[n]) <= u[n]
    BY <1>1, <1>2, <1>4, FlattestIs
  <2> QED BY <2>2, <2>3
<1> DEFINE j == c.from
<1>6. /\ c.slope \in Int /\ c.offset \in Int /\ s.slope \in Int /\ s.offset \in Int
      /\ Val(c, at[j]) = l[j] /\ Val(s, at[j]) = l[j] /\ j \in 1 .. RING_SIZE - 1 /\ j \in 1..RING_SIZE
  BY <1>4, <1>5, Size DEF IsLine
<1> HIDE DEF j
<1>7. c.slope > s.slope
  BY <1>2, <1>3, <1>5
<1>8. ASSUME NEW k \in 1..RING_SIZE, k > j  PROVE Val(c, at[k]) > l[k]
  <2>1. at[j] \in Int /\ at[k] \in Int /\ at[j] < at[k]
    BY <1>1, <1>6, <1>8 DEF Rising, Curve, j
  <2>2. Compare(c, s, at[j], at[k])
    BY <1>6, <2>1, Comparison
  <2>3. Val(s, at[k]) >= l[k] /\ l[k] \in Int
    BY <1>1, <1>2 DEF Over, Curve
  <2> QED BY <1>6, <1>7, <2>2, <2>3 DEF Compare
<1>9. ASSUME NEW k \in 1..RING_SIZE, k < j  PROVE Val(c, at[k]) > l[k]
  <2>1. j # 1
    BY <1>6, <1>9
  <2>2. PICK r \in A : r.to = j
    BY <1>1, <1>2, <1>5, <2>1 DEF Hull, j
  <2>3. IsLine(r, at, l, l) /\ r.slope > c.slope
    BY <1>1, <1>3, <2>2 DEF Hull, j
  <2>4. r.slope \in Int /\ r.offset \in Int /\ Val(r, at[j]) = l[j]
    BY <2>2, <2>3 DEF IsLine
  <2>5. at[j] \in Int /\ at[k] \in Int /\ at[k] < at[j]
    BY <1>1, <1>6, <1>9 DEF Rising, Curve, j
  <2>6. Compare(c, r, at[k], at[j])
    BY <1>6, <2>4, <2>5, Comparison
  <2>7. Val(r, at[k]) >= l[k] /\ l[k] \in Int
    BY <1>1, <2>2 DEF Over, Curve
  <2> QED BY <1>6, <2>3, <2>4, <2>6, <2>7 DEF Compare
<1>10. \A k \in 1..RING_SIZE : k # j => Val(c, at[k]) > l[k]
  <2>1. \A k \in 1..RING_SIZE : k # j => k < j \/ k > j BY <1>6
  <2> QED BY <1>8, <1>9, <2>1
<1>11. HighCross(c, at, u, l)
  BY <1>5, <1>10 DEF HighCross, j
<1> QED BY <1>2, <1>3, <1>5, <1>7, <1>11 DEF at, u, l, A

-----------------------------------------------------------------------------
(***************************************************************************)
(* The crossings kept are the flattest and the steepest consistent lines   *)
(* (BoxExact, where a box is printed).                                     *)
(***************************************************************************)

\* The times are in order.
LEMMA Later ==
    ASSUME NEW at, Rising(at), NEW j \in 1..RING_SIZE, NEW k \in 1..RING_SIZE, j < k
    PROVE  at[j] \in Int /\ at[k] \in Int /\ at[j] < at[k]
BY DEF Rising, Curve

\* Crossings of both kinds exist together only if lines are consistent;
\* then no consistent line is flatter than the one or steeper than the
\* other, although neither pass looks at the points before the crossing
\* on the other hull.
LEMMA Exact ==
    ASSUME NEW at, NEW u, NEW l, Shape(at, u, l), \A k \in 1..RING_SIZE : l[k] <= u[k],
           NEW c, LowCross(c, at, u, l), NEW d, HighCross(d, at, u, l)
    PROVE  /\ c.slope < d.slope
           /\ \A s \in Lines(at, u, l) : s.slope <= c.slope
           /\ \A s \in Lines(at, l, u) : s.slope >= d.slope
<1> DEFINE j == c.from
           k == d.from
<1>1. /\ u \in Curve /\ l \in Curve /\ Rising(at) /\ Grid(at, u, l) /\ Grid(at, l, u)
      /\ \A m \in 1..RING_SIZE : u[m] \in Int /\ l[m] \in Int /\ l[m] <= u[m]
  BY DEF Shape, Curve
<1>2. /\ c.slope \in Int /\ c.offset \in Int /\ d.slope \in Int /\ d.offset \in Int
      /\ j \in 1..RING_SIZE /\ c.to \in 1..RING_SIZE /\ j < c.to
      /\ k \in 1..RING_SIZE /\ d.to \in 1..RING_SIZE /\ k < d.to
      /\ Val(c, at[j]) = u[j] /\ Val(c, at[c.to]) = l[c.to]
      /\ Val(d, at[k]) = l[k] /\ Val(d, at[d.to]) = u[d.to]
  BY Size DEF LowCross, HighCross, IsLine
<1>3. /\ \A m \in 1..RING_SIZE : m # j => Val(c, at[m]) < u[m]
      /\ \A m \in 1..RING_SIZE : m > j => Val(c, at[m]) >= l[m]
      /\ \A m \in 1..RING_SIZE : m # k => Val(d, at[m]) > l[m]
      /\ \A m \in 1..RING_SIZE : m > k => Val(d, at[m]) <= u[m]
  BY <1>2 DEF LowCross, HighCross
<1> HIDE DEF j, k
<1>4. /\ \A m \in 1..RING_SIZE : Val(c, at[m]) <= u[m] /\ Val(c, at[m]) \in Int
      /\ \A m \in 1..RING_SIZE : Val(d, at[m]) >= l[m] /\ Val(d, at[m]) \in Int
  <2>1. \A m \in 1..RING_SIZE : Val(c, at[m]) \in Int /\ Val(d, at[m]) \in Int
    <3> SUFFICES ASSUME NEW m \in 1..RING_SIZE
                 PROVE  Val(c, at[m]) \in Int /\ Val(d, at[m]) \in Int
      OBVIOUS
    <3>1. at[m] \in Int BY <1>1 DEF Rising, Curve
    <3> QED BY <1>2, <3>1 DEF Val
  <2> QED BY <1>1, <1>2, <1>3, <2>1
<1>5. ASSUME NEW s, IsLine(s, at, u, l) \/ IsLine(s, at, l, u)
      PROVE  /\ s.slope \in Int /\ s.offset \in Int
             /\ s.from \in 1..RING_SIZE /\ s.to \in 1..RING_SIZE /\ s.from < s.to
  BY <1>5, Size DEF IsLine
<1>6. CASE j <= k
  <2>1. Val(d, at[k]) <= Val(c, at[k])
    <3>1. CASE j = k BY <1>1, <1>2, <3>1
    <3>2. CASE j < k BY <1>2, <1>3, <3>2
    <3> QED BY <1>2, <1>6, <3>1, <3>2
  <2>2. Val(c, at[d.to]) < Val(d, at[d.to])
    BY <1>2, <1>3, <1>6
  <2>3. c.slope < d.slope
    <3>1. Compare(c, d, at[k], at[d.to])
      BY <1>1, <1>2, Later, Comparison
    <3> QED BY <1>2, <2>1, <2>2, <3>1 DEF Compare
  <2>4. ASSUME NEW m \in 1..RING_SIZE  PROVE Val(d, at[m]) <= u[m]
    <3>1. CASE m > k BY <1>3, <3>1
    <3>2. CASE m = k BY <1>1, <1>2, <3>2
    <3>3. CASE m < k
      <4>1. Compare(c, d, at[m], at[k])
        BY <1>1, <1>2, <3>3, Later, Comparison
      <4>2. Val(d, at[m]) <= Val(c, at[m])
        BY <1>2, <2>1, <2>3, <4>1 DEF Compare
      <4> QED BY <1>1, <1>4, <4>2
    <3> QED BY <1>2, <3>1, <3>2, <3>3
  <2>5. ASSUME NEW s, IsLine(s, at, l, u)  PROVE s.slope >= d.slope
    <3> DEFINE a == s.from
               b == s.to
    <3>1. s.slope \in Int /\ s.offset \in Int /\ a \in 1..RING_SIZE /\ b \in 1..RING_SIZE /\ a < b
      BY <1>5, <2>5
    <3>2. Val(s, at[a]) = l[a] /\ Val(s, at[b]) = u[b]
      BY <2>5 DEF IsLine
    <3> HIDE DEF a, b
    <3>3. Compare(d, s, at[a], at[b])
      BY <1>1, <1>2, <3>1, Later, Comparison
    <3>4. Val(d, at[a]) >= l[a] /\ Val(d, at[b]) <= u[b]
      BY <1>4, <2>4, <3>1
    <3> QED BY <1>2, <3>1, <3>2, <3>3, <3>4 DEF Compare
  <2>6. ASSUME NEW s, IsLine(s, at, u, l), s.slope > c.slope  PROVE FALSE
    <3> DEFINE a == s.from
               b == s.to
    <3>1. s.slope \in Int /\ s.offset \in Int /\ a \in 1..RING_SIZE /\ b \in 1..RING_SIZE /\ a < b
      BY <1>5, <2>6
    <3>2. Val(s, at[a]) = u[a] /\ Val(s, at[b]) = l[b]
      BY <2>6 DEF IsLine
    <3> HIDE DEF a, b
    <3>3. Compare(c, s, at[a], at[b])
      BY <1>1, <1>2, <3>1, Later, Comparison
    <3>4. Val(c, at[b]) < l[b]
      BY <1>2, <1>4, <2>6, <3>1, <3>2, <3>3 DEF Compare
    <3>5. b <= j
      BY <1>1, <1>2, <1>3, <1>4, <3>1, <3>4
    <3>6. b # j
      BY <1>1, <1>2, <1>4, <3>1, <3>4
    <3>7. b < j
      BY <1>2, <3>1, <3>5, <3>6
    <3> DEFINE q == Line(at, l, u, b, j)
    <3>8. IsLine(q, at, l, u) /\ q.from = b /\ q.to = j
      BY <1>1, <1>2, <3>1, <3>7, LinesAre
    <3> HIDE DEF q
    <3>9. q.slope \in Int /\ q.offset \in Int /\ Val(q, at[b]) = l[b] /\ Val(q, at[j]) = u[j]
      BY <3>8 DEF IsLine
    <3>10. Compare(c, q, at[b], at[j])
      BY <1>1, <1>2, <3>1, <3>7, <3>9, Later, Comparison
    <3>11. q.slope < c.slope
      BY <1>2, <1>4, <3>1, <3>4, <3>9, <3>10 DEF Compare
    <3>12. q.slope >= d.slope
      BY <2>5, <3>8
    <3> QED BY <1>2, <2>3, <3>9, <3>11, <3>12
  <2>7. \A s \in Lines(at, u, l) : s.slope <= c.slope
    <3>1. \A s \in Lines(at, u, l) : IsLine(s, at, u, l) /\ s.slope \in Int
      BY <1>1, <1>5, LinesAre
    <3> QED BY <1>2, <2>6, <3>1
  <2>8. \A s \in Lines(at, l, u) : s.slope >= d.slope
    BY <1>1, <2>5, LinesAre
  <2> QED BY <2>3, <2>7, <2>8
<1>7. CASE k <= j
  <2>1. Val(d, at[j]) <= Val(c, at[j])
    <3>1. CASE j = k BY <1>1, <1>2, <3>1
    <3>2. CASE k < j BY <1>2, <1>3, <3>2
    <3> QED BY <1>2, <1>7, <3>1, <3>2
  <2>2. Val(c, at[c.to]) < Val(d, at[c.to])
    BY <1>2, <1>3, <1>7
  <2>3. c.slope < d.slope
    <3>1. Compare(c, d, at[j], at[c.to])
      BY <1>1, <1>2, Later, Comparison
    <3> QED BY <1>2, <2>1, <2>2, <3>1 DEF Compare
  <2>4. ASSUME NEW m \in 1..RING_SIZE  PROVE Val(c, at[m]) >= l[m]
    <3>1. CASE m > j BY <1>3, <3>1
    <3>2. CASE m = j BY <1>1, <1>2, <3>2
    <3>3. CASE m < j
      <4>1. Compare(c, d, at[m], at[j])
        BY <1>1, <1>2, <3>3, Later, Comparison
      <4>2. Val(d, at[m]) <= Val(c, at[m])
        BY <1>2, <2>1, <2>3, <4>1 DEF Compare
      <4> QED BY <1>1, <1>4, <4>2
    <3> QED BY <1>2, <3>1, <3>2, <3>3
  <2>5. ASSUME NEW s, IsLine(s, at, u, l)  PROVE s.slope <= c.slope
    <3> DEFINE a == s.from
               b == s.to
    <3>1. s.slope \in Int /\ s.offset \in Int /\ a \in 1..RING_SIZE /\ b \in 1..RING_SIZE /\ a < b
      BY <1>5, <2>5
    <3>2. Val(s, at[a]) = u[a] /\ Val(s, at[b]) = l[b]
      BY <2>5 DEF IsLine
    <3> HIDE DEF a, b
    <3>3. Compare(c, s, at[a], at[b])
      BY <1>1, <1>2, <3>1, Later, Comparison
    <3>4. Val(c, at[a]) <= u[a] /\ Val(c, at[b]) >= l[b]
      BY <1>4, <2>4, <3>1
    <3> QED BY <1>2, <3>1, <3>2, <3>3, <3>4 DEF Compare
  <2>6. ASSUME NEW s, IsLine(s, at, l, u), s.slope < d.slope  PROVE FALSE
    <3> DEFINE a == s.from
               b == s.to
    <3>1. s.slope \in Int /\ s.offset \in Int /\ a \in 1..RING_SIZE /\ b \in 1..RING_SIZE /\ a < b
      BY <1>5, <2>6
    <3>2. Val(s, at[a]) = l[a] /\ Val(s, at[b]) = u[b]
      BY <2>6 DEF IsLine
    <3> HIDE DEF a, b
    <3>3. Compare(d, s, at[a], at[b])
      BY <1>1, <1>2, <3>1, Later, Comparison
    <3>4. Val(d, at[b]) > u[b]
      BY <1>2, <1>4, <2>6, <3>1, <3>2, <3>3 DEF Compare
    <3>5. b <= k
      BY <1>1, <1>2, <1>3, <1>4, <3>1, <3>4
    <3>6. b # k
      BY <1>1, <1>2, <1>4, <3>1, <3>4
    <3>7. b < k
      BY <1>2, <3>1, <3>5, <3>6
    <3> DEFINE q == Line(at, u, l, b, k)
    <3>8. IsLine(q, at, u, l) /\ q.from = b /\ q.to = k
      BY <1>1, <1>2, <3>1, <3>7, LinesAre
    <3> HIDE DEF q
    <3>9. q.slope \in Int /\ q.offset \in Int /\ Val(q, at[b]) = u[b] /\ Val(q, at[k]) = l[k]
      BY <3>8 DEF IsLine
    <3>10. Compare(d, q, at[b], at[k])
      BY <1>1, <1>2, <3>1, <3>7, <3>9, Later, Comparison
    <3>11. q.slope > d.slope
      BY <1>2, <1>4, <3>1, <3>4, <3>9, <3>10 DEF Compare
    <3>12. q.slope <= c.slope
      BY <2>5, <3>8
    <3> QED BY <1>2, <2>3, <3>9, <3>11, <3>12
  <2>7. \A s \in Lines(at, l, u) : s.slope >= d.slope
    <3>1. \A s \in Lines(at, l, u) : IsLine(s, at, l, u) /\ s.slope \in Int
      BY <1>1, <1>5, LinesAre
    <3> QED BY <1>2, <2>6, <3>1
  <2>8. \A s \in Lines(at, u, l) : s.slope <= c.slope
    BY <1>1, <2>5, LinesAre
  <2> QED BY <2>3, <2>7, <2>8
<1> QED BY <1>2, <1>6, <1>7

\* A slope between the limits belongs to a line that meets every bar.
LEMMA Consistent ==
    ASSUME NEW at, NEW u, NEW l, Shape(at, u, l), \A k \in 1..RING_SIZE : l[k] <= u[k], NEW r, r.slope \in Int, r.offset \in Int,
           \A s \in Lines(at, u, l) : s.slope <= r.slope,
           \A s \in Lines(at, l, u) : s.slope >= r.slope,
           NEW a \in 1..RING_SIZE, NEW b \in 1..RING_SIZE
    PROVE  l[a] - Val(r, at[a]) <= u[b] - Val(r, at[b])
<1>1. /\ u \in Curve /\ l \in Curve /\ Rising(at) /\ Grid(at, u, l) /\ Grid(at, l, u)
      /\ u[a] \in Int /\ u[b] \in Int /\ l[a] \in Int /\ l[b] \in Int /\ l[a] <= u[a]
      /\ at[a] \in Int /\ at[b] \in Int
  BY DEF Shape, Curve, Rising
<1>2. CASE a = b
  <2>1. Val(r, at[a]) \in Int BY <1>1 DEF Val
  <2> QED BY <1>1, <1>2, <2>1
<1>3. CASE a < b
  <2> DEFINE s == Line(at, l, u, a, b)
  <2>1. s \in Lines(at, l, u) /\ IsLine(s, at, l, u) /\ s.from = a /\ s.to = b
    BY <1>1, <1>3, LinesAre
  <2> HIDE DEF s
  <2>2. s.slope \in Int /\ s.offset \in Int /\ Val(s, at[a]) = l[a] /\ Val(s, at[b]) = u[b]
    BY <2>1 DEF IsLine
  <2>3. s.slope >= r.slope BY <2>1
  <2> DEFINE m == [slope |-> r.slope, offset |-> r.offset + (l[a] - Val(r, at[a]))]
  <2>4. /\ m.slope = r.slope /\ m.offset \in Int
        /\ Val(m, at[a]) = l[a] /\ Val(m, at[b]) = Val(r, at[b]) + l[a] - Val(r, at[a])
        /\ Val(r, at[a]) \in Int /\ Val(r, at[b]) \in Int
    BY <1>1 DEF Val
  <2> HIDE DEF m
  <2>5. Compare(m, s, at[a], at[b])
    BY <1>1, <1>3, <2>2, <2>4, Later, Comparison
  <2> QED BY <1>1, <2>2, <2>3, <2>4, <2>5 DEF Compare
<1>4. CASE b < a
  <2> DEFINE s == Line(at, u, l, b, a)
  <2>1. s \in Lines(at, u, l) /\ IsLine(s, at, u, l) /\ s.from = b /\ s.to = a
    BY <1>1, <1>4, LinesAre
  <2> HIDE DEF s
  <2>2. s.slope \in Int /\ s.offset \in Int /\ Val(s, at[b]) = u[b] /\ Val(s, at[a]) = l[a]
    BY <2>1 DEF IsLine
  <2>3. s.slope <= r.slope BY <2>1
  <2> DEFINE m == [slope |-> r.slope, offset |-> r.offset + (u[b] - Val(r, at[b]))]
  <2>4. /\ m.slope = r.slope /\ m.offset \in Int
        /\ Val(m, at[b]) = u[b] /\ Val(m, at[a]) = Val(r, at[a]) + u[b] - Val(r, at[b])
        /\ Val(r, at[a]) \in Int /\ Val(r, at[b]) \in Int
    BY <1>1 DEF Val
  <2> HIDE DEF m
  <2>5. Compare(m, s, at[b], at[a])
    BY <1>1, <1>4, <2>2, <2>4, Later, Comparison
  <2> QED BY <1>1, <2>2, <2>3, <2>4, <2>5 DEF Compare
<1> QED BY <1>2, <1>3, <1>4

\* There are finitely many lines through the ends.
LEMMA FiniteLines ==
    ASSUME NEW at, NEW from, NEW to
    PROVE  IsFiniteSet(Lines(at, from, to)) /\ IsFiniteSet({s.slope : s \in Lines(at, from, to)})
<1>1. ASSUME NEW j \in 1 .. RING_SIZE - 1  PROVE IsFiniteSet(LinesFrom(at, from, to, j))
  <2> DEFINE S == j + 1 .. RING_SIZE
             f == [n \in S |-> Line(at, from, to, j, n)]
  <2>1. LinesFrom(at, from, to, j) = {f[n] : n \in S}
    BY DEF LinesFrom
  <2>2. IsFiniteSet(S) BY FS_Interval, Size
  <2> HIDE DEF f, S
  <2> QED BY <2>1, <2>2, FiniteImage
<1> DEFINE g == [j \in 1 .. RING_SIZE - 1 |-> LinesFrom(at, from, to, j)]
           G == {g[j] : j \in 1 .. RING_SIZE - 1}
<1>2. Lines(at, from, to) = UNION G
  BY DEF Lines
<1>3. \A T \in G : IsFiniteSet(T)
  BY <1>1
<1>4. IsFiniteSet(G)
  <2>1. IsFiniteSet(1 .. RING_SIZE - 1) BY FS_Interval, Size
  <2> HIDE DEF g
  <2> QED BY <2>1, FiniteImage
<1>5. IsFiniteSet(Lines(at, from, to))
  <2> HIDE DEF G
  <2> QED BY <1>2, <1>3, <1>4, FS_UNION
<1>6. IsFiniteSet({s.slope : s \in Lines(at, from, to)})
  <2> DEFINE f == [s \in Lines(at, from, to) |-> s.slope]
             T == {s.slope : s \in Lines(at, from, to)}
  <2>1. T = {f[s] : s \in Lines(at, from, to)} OBVIOUS
  <2> HIDE DEF f, T
  <2>2. IsFiniteSet(T) BY <1>5, <2>1, FiniteImage
  <2> QED BY <2>2 DEF T
<1> QED BY <1>5, <1>6

\* Lowest and Highest are the slopes of two of them and bound the slopes
\* of all.
LEMMA Extremes ==
    ASSUME NEW e, Shape(e.at, e.max, e.min)
    PROVE  /\ Lowest(e) \in Int /\ Highest(e) \in Int
           /\ \A s \in Lines(e.at, e.max, e.min) : s.slope \in Int /\ s.slope <= Lowest(e)
           /\ \A s \in Lines(e.at, e.min, e.max) : s.slope \in Int /\ s.slope >= Highest(e)
           /\ \E s \in Lines(e.at, e.max, e.min) : s.slope = Lowest(e)
           /\ \E s \in Lines(e.at, e.min, e.max) : s.slope = Highest(e)
<1>1. /\ e.max \in Curve /\ e.min \in Curve /\ Rising(e.at)
      /\ Grid(e.at, e.max, e.min) /\ Grid(e.at, e.min, e.max)
  BY DEF Shape
<1>2. 1 \in 1..RING_SIZE /\ RING_SIZE \in 1..RING_SIZE /\ 1 < RING_SIZE
  BY Size
<1>3. /\ Lowest(e) \in Int /\ \E s \in Lines(e.at, e.max, e.min) : s.slope = Lowest(e)
      /\ \A s \in Lines(e.at, e.max, e.min) : s.slope \in Int /\ s.slope <= Lowest(e)
  <2> DEFINE L == Lines(e.at, e.max, e.min)
             T == {s.slope : s \in L}
  <2>1. \A s \in L : s.slope \in Int BY <1>1, LinesAre DEF IsLine
  <2>2. L # {} BY <1>1, <1>2, LinesAre
  <2>3. IsFiniteSet(T) BY FiniteLines
  <2> HIDE DEF L
  <2>4. T \subseteq Int /\ T # {} BY <2>1, <2>2
  <2>5. Max(T) \in T /\ \A x \in T : Max(T) >= x
    <3> HIDE DEF T
    <3> QED BY <2>3, <2>4, FiniteMax
  <2>6. Lowest(e) = Max(T) BY DEF Lowest, L
  <2>7. /\ Lowest(e) \in Int /\ \E s \in L : s.slope = Lowest(e)
        /\ \A s \in L : s.slope \in Int /\ s.slope <= Lowest(e)
    BY <2>1, <2>4, <2>5, <2>6
  <2> QED BY <2>7 DEF L
<1>4. /\ Highest(e) \in Int /\ \E s \in Lines(e.at, e.min, e.max) : s.slope = Highest(e)
      /\ \A s \in Lines(e.at, e.min, e.max) : s.slope \in Int /\ s.slope >= Highest(e)
  <2> DEFINE L == Lines(e.at, e.min, e.max)
             T == {s.slope : s \in L}
  <2>1. \A s \in L : s.slope \in Int BY <1>1, LinesAre DEF IsLine
  <2>2. L # {} BY <1>1, <1>2, LinesAre
  <2>3. IsFiniteSet(T) BY FiniteLines
  <2> HIDE DEF L
  <2>4. T \subseteq Int /\ T # {} BY <2>1, <2>2
  <2>5. Min(T) \in T /\ \A x \in T : Min(T) <= x
    <3> HIDE DEF T
    <3> QED BY <2>3, <2>4, FiniteMin
  <2>6. Highest(e) = Min(T) BY DEF Highest, L
  <2>7. /\ Highest(e) \in Int /\ \E s \in L : s.slope = Highest(e)
        /\ \A s \in L : s.slope \in Int /\ s.slope >= Highest(e)
    BY <2>1, <2>4, <2>5, <2>6
  <2> QED BY <2>7 DEF L
<1> QED BY <1>3, <1>4

\* The box is from Lowest to Highest.
LEMMA BoxIs ==
    ASSUME NEW e, Shape(e.at, e.max, e.min), Proper(e),
           NEW c, LowCross(c, e.at, e.max, e.min), NEW d, HighCross(d, e.at, e.max, e.min)
    PROVE  c.slope = Lowest(e) /\ d.slope = Highest(e) /\ Lowest(e) < Highest(e)
<1>1. /\ c.slope < d.slope
      /\ \A s \in Lines(e.at, e.max, e.min) : s.slope <= c.slope
      /\ \A s \in Lines(e.at, e.min, e.max) : s.slope >= d.slope
  BY Exact DEF Proper
<1>2. c \in Lines(e.at, e.max, e.min) /\ d \in Lines(e.at, e.min, e.max)
  BY DEF LowCross, HighCross
<1>3. c.slope \in Int /\ c.slope <= Lowest(e) /\ Lowest(e) \in Int /\ Lowest(e) <= c.slope
  BY <1>1, <1>2, Extremes
<1>4. d.slope \in Int /\ d.slope >= Highest(e) /\ Highest(e) \in Int /\ Highest(e) >= d.slope
  BY <1>1, <1>2, Extremes
<1> QED BY <1>1, <1>3, <1>4

\* A line with a slope between the limits that meets one bar from one
\* side meets all bars from that side.
LEMMA Touching ==
    ASSUME NEW at, NEW u, NEW l, Shape(at, u, l), \A k \in 1..RING_SIZE : l[k] <= u[k], NEW r, r.slope \in Int, r.offset \in Int,
           \A s \in Lines(at, u, l) : s.slope <= r.slope,
           \A s \in Lines(at, l, u) : s.slope >= r.slope
    PROVE  /\ (\E a \in 1..RING_SIZE : Val(r, at[a]) <= l[a]) => Under(r, at, u)
           /\ (\E b \in 1..RING_SIZE : Val(r, at[b]) >= u[b]) => Over(r, at, l)
<1>1. \A a, b \in 1..RING_SIZE : l[a] - Val(r, at[a]) <= u[b] - Val(r, at[b])
  BY Consistent
<1>2. ASSUME NEW a \in 1..RING_SIZE
      PROVE  l[a] \in Int /\ u[a] \in Int /\ Val(r, at[a]) \in Int
  <2>1. l[a] \in Int /\ u[a] \in Int /\ at[a] \in Int BY DEF Shape, Curve, Rising
  <2> QED BY <2>1 DEF Val
<1>3. ASSUME NEW a \in 1..RING_SIZE, Val(r, at[a]) <= l[a], NEW b \in 1..RING_SIZE
      PROVE  Val(r, at[b]) <= u[b]
  <2>1. l[a] - Val(r, at[a]) <= u[b] - Val(r, at[b]) BY <1>1
  <2> QED BY <1>2, <1>3, <2>1
<1>4. ASSUME NEW b \in 1..RING_SIZE, Val(r, at[b]) >= u[b], NEW a \in 1..RING_SIZE
      PROVE  Val(r, at[a]) >= l[a]
  <2>1. l[a] - Val(r, at[a]) <= u[b] - Val(r, at[b]) BY <1>1
  <2> QED BY <1>2, <1>4, <2>1
<1> QED BY <1>3, <1>4 DEF Under, Over

-----------------------------------------------------------------------------
(***************************************************************************)
(* Where there are consistent lines, and no ties, both passes find a       *)
(* crossing (BoxExact, where none is printed).                             *)
(***************************************************************************)

\* Without ties, and within twice MAX_CORRECT, pass 2 finds a crossing
\* whenever there are consistent lines: the steepest line from an upper
\* to a lower end starts on the hull and passes line 238.
LEMMA FoundLow ==
    ASSUME NEW e, Shape(e.at, e.max, e.min), NoTies(e), WithinLimits(e), Lowest(e) < Highest(e)
    PROVE  MinCrossings(e, maxseg(e)) # {}
<1> DEFINE at == e.at
           u == e.max
           l == e.min
           A == maxseg(e)
<1>1. /\ u \in Curve /\ l \in Curve /\ Rising(at)
      /\ Grid(at, u, l) /\ Grid(at, l, u) /\ Grid(at, u, u)
      /\ \A m \in 1..RING_SIZE : u[m] \in Int /\ l[m] \in Int /\ l[m] < u[m]
  BY DEF Shape, Curve, NoTies
<1>2. Hull(A, at, u) /\ \A s \in A : Under(s, at, u)
  BY UpperHull
<1>3. PICK q \in Lines(at, u, l) : q.slope = Lowest(e)
  BY Extremes
<1>4. /\ \A s \in Lines(at, u, l) : s.slope \in Int /\ s.slope <= q.slope
      /\ \A s \in Lines(at, l, u) : s.slope \in Int /\ s.slope >= q.slope
  BY <1>3, Extremes
<1>5. /\ \A s \in Lines(at, u, u), t \in Lines(at, u, u) : s.to = t.from => s.slope # t.slope
      /\ \A s \in Lines(at, u, u), t \in Lines(at, u, l) : s.to = t.from => s.slope # t.slope
      /\ \A s \in Lines(at, u, l), t \in Lines(at, l, u) : s.to = t.from => s.slope # t.slope
  BY DEF NoTies
<1>6. Shape(at, u, l)
  OBVIOUS
<1>c. MinCrossings(e, A) =
        {check \in {Steepest(LinesFrom(at, u, l, s.from)) : s \in A} :
            /\ \A s \in A : /\ s.from = check.from => check.slope < s.slope
                            /\ s.to = check.from => check.slope > s.slope
            /\ check.from = 1 => check.slope > -2 * MAX_CORRECT * Unit}
  BY DEF MinCrossings
<1>w. q.slope > -2 * MAX_CORRECT * Unit
  <2>1. -2 * MAX_CORRECT * Unit \in Int BY PhaseAssumption DEF Unit
  <2>2. -2 * MAX_CORRECT * Unit < q.slope BY <1>3 DEF WithinLimits
  <2> QED BY <1>3, <1>4, <2>1, <2>2
<1> HIDE DEF at, u, l, A
<1> DEFINE a == q.from
           b == q.to
<1>7. /\ q.slope \in Int /\ q.offset \in Int
      /\ a \in 1 .. RING_SIZE - 1 /\ a \in 1..RING_SIZE /\ b \in 1..RING_SIZE /\ a < b
      /\ Val(q, at[a]) = u[a] /\ Val(q, at[b]) = l[b]
  <2>1. IsLine(q, at, u, l) BY <1>1, LinesAre
  <2> QED BY <2>1, Size DEF IsLine
<1>8. Under(q, at, u)
  <2>1. Val(q, at[b]) <= l[b] BY <1>1, <1>7
  <2>2. \A m \in 1..RING_SIZE : l[m] <= u[m] BY <1>1
  <2> QED BY <1>4, <1>6, <1>7, <2>1, <2>2, Touching
<1>9. ASSUME NEW s, IsLine(s, at, u, u) \/ IsLine(s, at, u, l) \/ IsLine(s, at, l, u)
      PROVE  /\ s.slope \in Int /\ s.offset \in Int
             /\ s.from \in 1..RING_SIZE /\ s.to \in 1..RING_SIZE /\ s.from < s.to
  BY <1>9, Size DEF IsLine
<1> HIDE DEF a, b
<1>10. \A s \in A : /\ s \in Lines(at, u, u) /\ IsLine(s, at, u, u)
                    /\ Val(s, at[s.from]) = u[s.from] /\ Val(s, at[s.to]) = u[s.to]
                    /\ s.slope \in Int /\ s.offset \in Int
                    /\ s.from \in 1..RING_SIZE /\ s.to \in 1..RING_SIZE /\ s.from < s.to
  BY <1>2, <1>9 DEF Hull, IsLine
(* Point a, which the line touches, is on the walk: a segment passing over *)
(* it would go through it too, and three upper ends would be in line.      *)
<1>11. \E s \in A : s.from = a
  <2>1. PICK s \in A : s.from <= a /\ \A r \in A : r.from <= a => r.from <= s.from
    <3> DEFINE T == {a - r.from : r \in {r \in A : r.from <= a}}
    <3>1. T \subseteq Nat BY <1>7, <1>10
    <3>2. PICK o \in A : o.from = 1 BY <1>2 DEF Hull
    <3>3. T # {}
      <4>1. o.from <= a BY <1>7, <3>2
      <4>2. a - o.from \in T BY <4>1
      <4> QED BY <4>2
    <3>4. PICK m \in T : \A n \in T : m <= n
      <4> HIDE DEF T
      <4> QED BY <3>1, <3>3, LeastNumber
    <3>5. PICK s \in A : s.from <= a /\ m = a - s.from BY <3>4
    <3>6. ASSUME NEW r \in A, r.from <= a  PROVE r.from <= s.from
      <4>1. a - r.from \in T BY <3>6
      <4>2. a - s.from <= a - r.from BY <3>4, <3>5, <4>1
      <4> QED BY <1>7, <1>10, <4>2
    <3> QED BY <3>5, <3>6
  <2>2. SUFFICES ASSUME s.from # a  PROVE FALSE
    BY <2>1
  <2> DEFINE v == s.from
             w == s.to
  <2>3. /\ v \in 1..RING_SIZE /\ w \in 1..RING_SIZE /\ v < a
        /\ s.slope \in Int /\ s.offset \in Int
        /\ Val(s, at[v]) = u[v] /\ Val(s, at[w]) = u[w]
    BY <1>7, <1>10, <2>1, <2>2
  <2>4. a < w
    <3>1. SUFFICES ASSUME w <= a PROVE FALSE
      BY <1>7, <2>3
    <3>2. w # RING_SIZE BY <1>7, <2>3, <3>1, Size
    <3>3. PICK r \in A : r.from = w BY <1>2, <3>2 DEF Hull
    <3>4. w <= v BY <2>1, <3>1, <3>3
    <3> QED BY <1>10, <2>3, <3>4
  <2> HIDE DEF v, w
  <2>5. Compare(q, s, at[v], at[a]) /\ Compare(q, s, at[a], at[w])
    BY <1>1, <1>7, <2>3, <2>4, Later, Comparison
  <2>6. Val(q, at[v]) <= u[v] /\ Val(q, at[w]) <= u[w]
    BY <1>8, <2>3 DEF Under
  <2>7. Val(s, at[a]) <= u[a]
    BY <1>2, <1>7 DEF Under
  <2>8. Val(s, at[a]) = u[a]
    BY <1>1, <1>7, <2>3, <2>5, <2>6, <2>7 DEF Compare
  <2> DEFINE r == Line(at, u, u, v, a)
             t == Line(at, u, u, a, w)
  <2>9. /\ r \in Lines(at, u, u) /\ IsLine(r, at, u, u) /\ r.from = v /\ r.to = a
        /\ t \in Lines(at, u, u) /\ IsLine(t, at, u, u) /\ t.from = a /\ t.to = w
    BY <1>1, <1>7, <2>3, <2>4, LinesAre
  <2> HIDE DEF r, t
  <2>10. /\ r.slope \in Int /\ r.offset \in Int /\ Val(r, at[v]) = u[v] /\ Val(r, at[a]) = u[a]
         /\ t.slope \in Int /\ t.offset \in Int /\ Val(t, at[a]) = u[a] /\ Val(t, at[w]) = u[w]
    BY <2>9 DEF IsLine
  <2>11. Compare(r, s, at[v], at[a]) /\ Compare(t, s, at[a], at[w])
    BY <1>1, <1>7, <2>3, <2>4, <2>10, Later, Comparison
  <2>12. r.slope = s.slope
    BY <1>1, <1>7, <2>3, <2>8, <2>10, <2>11 DEF Compare
  <2>13. t.slope = s.slope
    BY <1>1, <1>7, <2>3, <2>8, <2>10, <2>11 DEF Compare
  <2> QED BY <1>5, <2>9, <2>12, <2>13
<1>12. PICK s \in A : s.from = a
  BY <1>11
<1> DEFINE c == Steepest(LinesFrom(at, u, l, a))
<1>13. /\ c \in Lines(at, u, l) /\ IsLine(c, at, u, l) /\ c.from = a
       /\ \A n \in a + 1 .. RING_SIZE : Val(c, at[n]) >= l[n]
  <2>1. c \in LinesFrom(at, u, l, a) /\ \A n \in a + 1 .. RING_SIZE : Val(c, at[n]) >= l[n]
    BY <1>1, <1>7, SteepestIs
  <2> QED BY <1>1, <1>7, <2>1, LinesAre
<1> HIDE DEF c
<1>14. c.slope = q.slope
  <2>1. c.slope \in Int /\ c.offset \in Int /\ Val(c, at[a]) = u[a]
    BY <1>13 DEF IsLine
  <2>2. Val(c, at[b]) >= l[b]
    BY <1>7, <1>13
  <2>3. Compare(q, c, at[a], at[b])
    BY <1>1, <1>7, <2>1, Later, Comparison
  <2>4. c.slope >= q.slope
    BY <1>1, <1>7, <2>1, <2>2, <2>3 DEF Compare
  <2> QED BY <1>4, <1>7, <1>13, <2>1, <2>4
<1>15. q.slope < s.slope
  <2> DEFINE w == s.to
  <2>1. /\ w \in 1..RING_SIZE /\ a < w /\ s.slope \in Int /\ s.offset \in Int
        /\ Val(s, at[a]) = u[a] /\ Val(s, at[w]) = u[w] /\ s \in Lines(at, u, u)
    BY <1>10, <1>12
  <2> HIDE DEF w
  <2>2. Compare(q, s, at[a], at[w])
    BY <1>1, <1>7, <2>1, Later, Comparison
  <2>3. Val(q, at[w]) <= u[w]
    BY <1>8, <2>1 DEF Under
  <2>4. q.slope <= s.slope
    BY <1>1, <1>7, <2>1, <2>2, <2>3 DEF Compare
  <2>5. SUFFICES ASSUME q.slope = s.slope PROVE FALSE
    BY <1>7, <2>1, <2>4
  <2>6. Val(q, at[w]) = u[w]
    BY <1>1, <1>7, <2>1, <2>2, <2>5 DEF Compare
  <2>7. CASE w < b
    <3> DEFINE t == Line(at, u, l, w, b)
    <3>1. t \in Lines(at, u, l) /\ IsLine(t, at, u, l) /\ t.from = w /\ t.to = b
      BY <1>1, <1>7, <2>1, <2>7, LinesAre
    <3> HIDE DEF t
    <3>2. t.slope \in Int /\ t.offset \in Int /\ Val(t, at[w]) = u[w] /\ Val(t, at[b]) = l[b]
      BY <3>1 DEF IsLine
    <3>3. Compare(t, q, at[w], at[b])
      BY <1>1, <1>7, <2>1, <2>7, <3>2, Later, Comparison
    <3>4. t.slope = q.slope
      BY <1>1, <1>7, <2>1, <2>6, <3>2, <3>3 DEF Compare
    <3> QED BY <1>5, <2>1, <2>5, <3>1, <3>4 DEF w
  <2>8. CASE w > b
    <3> DEFINE t == Line(at, l, u, b, w)
    <3>1. t \in Lines(at, l, u) /\ IsLine(t, at, l, u) /\ t.from = b /\ t.to = w
      BY <1>1, <1>7, <2>1, <2>8, LinesAre
    <3> HIDE DEF t
    <3>2. t.slope \in Int /\ t.offset \in Int /\ Val(t, at[b]) = l[b] /\ Val(t, at[w]) = u[w]
      BY <3>1 DEF IsLine
    <3>3. Compare(t, q, at[b], at[w])
      BY <1>1, <1>7, <2>1, <2>8, <3>2, Later, Comparison
    <3>4. t.slope = q.slope
      BY <1>1, <1>7, <2>1, <2>6, <3>2, <3>3 DEF Compare
    <3> QED BY <1>5, <3>1, <3>4 DEF b
  <2>9. CASE w = b
    BY <1>1, <1>7, <2>6, <2>9
  <2> QED BY <1>7, <2>1, <2>7, <2>8, <2>9
<1>16. ASSUME NEW r \in A, r.to = a  PROVE r.slope < q.slope
  <2> DEFINE v == r.from
  <2>1. /\ v \in 1..RING_SIZE /\ v < a /\ r.slope \in Int /\ r.offset \in Int
        /\ Val(r, at[v]) = u[v] /\ Val(r, at[a]) = u[a] /\ r \in Lines(at, u, u)
    BY <1>10, <1>16
  <2> HIDE DEF v
  <2>2. Compare(q, r, at[v], at[a])
    BY <1>1, <1>7, <2>1, Later, Comparison
  <2>3. Val(q, at[v]) <= u[v]
    BY <1>8, <2>1 DEF Under
  <2>4. r.slope <= q.slope
    BY <1>1, <1>7, <2>1, <2>2, <2>3 DEF Compare
  <2>5. r.slope # q.slope
    BY <1>5, <1>16, <2>1 DEF a
  <2> QED BY <1>7, <2>1, <2>4, <2>5
<1>17. c \in MinCrossings(e, A)
  <2>1. c \in {Steepest(LinesFrom(at, u, l, r.from)) : r \in A}
    BY <1>12 DEF c
  <2>2. \A r \in A : r.from = c.from => c.slope < r.slope
    BY <1>2, <1>12, <1>13, <1>14, <1>15 DEF Hull
  <2>3. \A r \in A : r.to = c.from => c.slope > r.slope
    BY <1>7, <1>10, <1>13, <1>14, <1>16
  <2> QED BY <1>c, <1>w, <1>14, <2>1, <2>2, <2>3
<1> QED BY <1>17 DEF A

\* So does pass 3.
LEMMA FoundHigh ==
    ASSUME NEW e, Shape(e.at, e.max, e.min), NoTies(e), WithinLimits(e), Lowest(e) < Highest(e)
    PROVE  MaxCrossings(e, minseg(e)) # {}
<1> DEFINE at == e.at
           u == e.max
           l == e.min
           A == minseg(e)
<1>1. /\ u \in Curve /\ l \in Curve /\ Rising(at)
      /\ Grid(at, l, u) /\ Grid(at, u, l) /\ Grid(at, l, l)
      /\ \A m \in 1..RING_SIZE : u[m] \in Int /\ l[m] \in Int /\ l[m] < u[m]
  BY DEF Shape, Curve, NoTies
<1>2. Hull(A, at, l) /\ \A s \in A : Over(s, at, l)
  BY LowerHull
<1>3. PICK q \in Lines(at, l, u) : q.slope = Highest(e)
  BY Extremes
<1>4. /\ \A s \in Lines(at, l, u) : s.slope \in Int /\ s.slope >= q.slope
      /\ \A s \in Lines(at, u, l) : s.slope \in Int /\ s.slope <= q.slope
  BY <1>3, Extremes
<1>5. /\ \A s \in Lines(at, l, l), t \in Lines(at, l, l) : s.to = t.from => s.slope # t.slope
      /\ \A s \in Lines(at, l, l), t \in Lines(at, l, u) : s.to = t.from => s.slope # t.slope
      /\ \A s \in Lines(at, l, u), t \in Lines(at, u, l) : s.to = t.from => s.slope # t.slope
  BY DEF NoTies
<1>6. Shape(at, u, l)
  OBVIOUS
<1>c. MaxCrossings(e, A) =
        {check \in {Flattest(LinesFrom(at, l, u, s.from)) : s \in A} :
            /\ \A s \in A : /\ s.from = check.from => check.slope > s.slope
                            /\ s.to = check.from => check.slope < s.slope
            /\ check.from = 1 => check.slope < 2 * MAX_CORRECT * Unit}
  BY DEF MaxCrossings
<1>w. q.slope < 2 * MAX_CORRECT * Unit
  <2>1. 2 * MAX_CORRECT * Unit \in Int BY PhaseAssumption DEF Unit
  <2>2. q.slope < 2 * MAX_CORRECT * Unit BY <1>3 DEF WithinLimits
  <2> QED BY <1>3, <1>4, <2>1, <2>2
<1> HIDE DEF at, u, l, A
<1> DEFINE a == q.from
           b == q.to
<1>7. /\ q.slope \in Int /\ q.offset \in Int
      /\ a \in 1 .. RING_SIZE - 1 /\ a \in 1..RING_SIZE /\ b \in 1..RING_SIZE /\ a < b
      /\ Val(q, at[a]) = l[a] /\ Val(q, at[b]) = u[b]
  <2>1. IsLine(q, at, l, u) BY <1>1, LinesAre
  <2> QED BY <2>1, Size DEF IsLine
<1>8. Over(q, at, l)
  <2>1. Val(q, at[b]) >= u[b] BY <1>1, <1>7
  <2>2. \A m \in 1..RING_SIZE : l[m] <= u[m] BY <1>1
  <2> QED BY <1>4, <1>6, <1>7, <2>1, <2>2, Touching
<1>9. ASSUME NEW s, IsLine(s, at, l, l) \/ IsLine(s, at, l, u) \/ IsLine(s, at, u, l)
      PROVE  /\ s.slope \in Int /\ s.offset \in Int
             /\ s.from \in 1..RING_SIZE /\ s.to \in 1..RING_SIZE /\ s.from < s.to
  BY <1>9, Size DEF IsLine
<1> HIDE DEF a, b
<1>10. \A s \in A : /\ s \in Lines(at, l, l) /\ IsLine(s, at, l, l)
                    /\ Val(s, at[s.from]) = l[s.from] /\ Val(s, at[s.to]) = l[s.to]
                    /\ s.slope \in Int /\ s.offset \in Int
                    /\ s.from \in 1..RING_SIZE /\ s.to \in 1..RING_SIZE /\ s.from < s.to
  BY <1>2, <1>9 DEF Hull, IsLine
(* Point a, which the line touches, is on the walk: a segment passing over *)
(* it would go through it too, and three lower ends would be in line.      *)
<1>11. \E s \in A : s.from = a
  <2>1. PICK s \in A : s.from <= a /\ \A r \in A : r.from <= a => r.from <= s.from
    <3> DEFINE T == {a - r.from : r \in {r \in A : r.from <= a}}
    <3>1. T \subseteq Nat BY <1>7, <1>10
    <3>2. PICK o \in A : o.from = 1 BY <1>2 DEF Hull
    <3>3. T # {}
      <4>1. o.from <= a BY <1>7, <3>2
      <4>2. a - o.from \in T BY <4>1
      <4> QED BY <4>2
    <3>4. PICK m \in T : \A n \in T : m <= n
      <4> HIDE DEF T
      <4> QED BY <3>1, <3>3, LeastNumber
    <3>5. PICK s \in A : s.from <= a /\ m = a - s.from BY <3>4
    <3>6. ASSUME NEW r \in A, r.from <= a  PROVE r.from <= s.from
      <4>1. a - r.from \in T BY <3>6
      <4>2. a - s.from <= a - r.from BY <3>4, <3>5, <4>1
      <4> QED BY <1>7, <1>10, <4>2
    <3> QED BY <3>5, <3>6
  <2>2. SUFFICES ASSUME s.from # a  PROVE FALSE
    BY <2>1
  <2> DEFINE v == s.from
             w == s.to
  <2>3. /\ v \in 1..RING_SIZE /\ w \in 1..RING_SIZE /\ v < a
        /\ s.slope \in Int /\ s.offset \in Int
        /\ Val(s, at[v]) = l[v] /\ Val(s, at[w]) = l[w]
    BY <1>7, <1>10, <2>1, <2>2
  <2>4. a < w
    <3>1. SUFFICES ASSUME w <= a PROVE FALSE
      BY <1>7, <2>3
    <3>2. w # RING_SIZE BY <1>7, <2>3, <3>1, Size
    <3>3. PICK r \in A : r.from = w BY <1>2, <3>2 DEF Hull
    <3>4. w <= v BY <2>1, <3>1, <3>3
    <3> QED BY <1>10, <2>3, <3>4
  <2> HIDE DEF v, w
  <2>5. Compare(q, s, at[v], at[a]) /\ Compare(q, s, at[a], at[w])
    BY <1>1, <1>7, <2>3, <2>4, Later, Comparison
  <2>6. Val(q, at[v]) >= l[v] /\ Val(q, at[w]) >= l[w]
    BY <1>8, <2>3 DEF Over
  <2>7. Val(s, at[a]) >= l[a]
    BY <1>2, <1>7 DEF Over
  <2>8. Val(s, at[a]) = l[a]
    BY <1>1, <1>7, <2>3, <2>5, <2>6, <2>7 DEF Compare
  <2> DEFINE r == Line(at, l, l, v, a)
             t == Line(at, l, l, a, w)
  <2>9. /\ r \in Lines(at, l, l) /\ IsLine(r, at, l, l) /\ r.from = v /\ r.to = a
        /\ t \in Lines(at, l, l) /\ IsLine(t, at, l, l) /\ t.from = a /\ t.to = w
    BY <1>1, <1>7, <2>3, <2>4, LinesAre
  <2> HIDE DEF r, t
  <2>10. /\ r.slope \in Int /\ r.offset \in Int /\ Val(r, at[v]) = l[v] /\ Val(r, at[a]) = l[a]
         /\ t.slope \in Int /\ t.offset \in Int /\ Val(t, at[a]) = l[a] /\ Val(t, at[w]) = l[w]
    BY <2>9 DEF IsLine
  <2>11. Compare(r, s, at[v], at[a]) /\ Compare(t, s, at[a], at[w])
    BY <1>1, <1>7, <2>3, <2>4, <2>10, Later, Comparison
  <2>12. r.slope = s.slope
    BY <1>1, <1>7, <2>3, <2>8, <2>10, <2>11 DEF Compare
  <2>13. t.slope = s.slope
    BY <1>1, <1>7, <2>3, <2>8, <2>10, <2>11 DEF Compare
  <2> QED BY <1>5, <2>9, <2>12, <2>13
<1>12. PICK s \in A : s.from = a
  BY <1>11
<1> DEFINE c == Flattest(LinesFrom(at, l, u, a))
<1>13. /\ c \in Lines(at, l, u) /\ IsLine(c, at, l, u) /\ c.from = a
       /\ \A n \in a + 1 .. RING_SIZE : Val(c, at[n]) <= u[n]
  <2>1. c \in LinesFrom(at, l, u, a) /\ \A n \in a + 1 .. RING_SIZE : Val(c, at[n]) <= u[n]
    BY <1>1, <1>7, FlattestIs
  <2> QED BY <1>1, <1>7, <2>1, LinesAre
<1> HIDE DEF c
<1>14. c.slope = q.slope
  <2>1. c.slope \in Int /\ c.offset \in Int /\ Val(c, at[a]) = l[a]
    BY <1>13 DEF IsLine
  <2>2. Val(c, at[b]) <= u[b]
    BY <1>7, <1>13
  <2>3. Compare(q, c, at[a], at[b])
    BY <1>1, <1>7, <2>1, Later, Comparison
  <2>4. c.slope <= q.slope
    BY <1>1, <1>7, <2>1, <2>2, <2>3 DEF Compare
  <2> QED BY <1>4, <1>7, <1>13, <2>1, <2>4
<1>15. q.slope > s.slope
  <2> DEFINE w == s.to
  <2>1. /\ w \in 1..RING_SIZE /\ a < w /\ s.slope \in Int /\ s.offset \in Int
        /\ Val(s, at[a]) = l[a] /\ Val(s, at[w]) = l[w] /\ s \in Lines(at, l, l)
    BY <1>10, <1>12
  <2> HIDE DEF w
  <2>2. Compare(q, s, at[a], at[w])
    BY <1>1, <1>7, <2>1, Later, Comparison
  <2>3. Val(q, at[w]) >= l[w]
    BY <1>8, <2>1 DEF Over
  <2>4. q.slope >= s.slope
    BY <1>1, <1>7, <2>1, <2>2, <2>3 DEF Compare
  <2>5. SUFFICES ASSUME q.slope = s.slope PROVE FALSE
    BY <1>7, <2>1, <2>4
  <2>6. Val(q, at[w]) = l[w]
    BY <1>1, <1>7, <2>1, <2>2, <2>5 DEF Compare
  <2>7. CASE w < b
    <3> DEFINE t == Line(at, l, u, w, b)
    <3>1. t \in Lines(at, l, u) /\ IsLine(t, at, l, u) /\ t.from = w /\ t.to = b
      BY <1>1, <1>7, <2>1, <2>7, LinesAre
    <3> HIDE DEF t
    <3>2. t.slope \in Int /\ t.offset \in Int /\ Val(t, at[w]) = l[w] /\ Val(t, at[b]) = u[b]
      BY <3>1 DEF IsLine
    <3>3. Compare(t, q, at[w], at[b])
      BY <1>1, <1>7, <2>1, <2>7, <3>2, Later, Comparison
    <3>4. t.slope = q.slope
      BY <1>1, <1>7, <2>1, <2>6, <3>2, <3>3 DEF Compare
    <3> QED BY <1>5, <2>1, <2>5, <3>1, <3>4 DEF w
  <2>8. CASE w > b
    <3> DEFINE t == Line(at, u, l, b, w)
    <3>1. t \in Lines(at, u, l) /\ IsLine(t, at, u, l) /\ t.from = b /\ t.to = w
      BY <1>1, <1>7, <2>1, <2>8, LinesAre
    <3> HIDE DEF t
    <3>2. t.slope \in Int /\ t.offset \in Int /\ Val(t, at[b]) = u[b] /\ Val(t, at[w]) = l[w]
      BY <3>1 DEF IsLine
    <3>3. Compare(t, q, at[b], at[w])
      BY <1>1, <1>7, <2>1, <2>8, <3>2, Later, Comparison
    <3>4. t.slope = q.slope
      BY <1>1, <1>7, <2>1, <2>6, <3>2, <3>3 DEF Compare
    <3> QED BY <1>5, <3>1, <3>4 DEF b
  <2>9. CASE w = b
    BY <1>1, <1>7, <2>6, <2>9
  <2> QED BY <1>7, <2>1, <2>7, <2>8, <2>9
<1>16. ASSUME NEW r \in A, r.to = a  PROVE r.slope > q.slope
  <2> DEFINE v == r.from
  <2>1. /\ v \in 1..RING_SIZE /\ v < a /\ r.slope \in Int /\ r.offset \in Int
        /\ Val(r, at[v]) = l[v] /\ Val(r, at[a]) = l[a] /\ r \in Lines(at, l, l)
    BY <1>10, <1>16
  <2> HIDE DEF v
  <2>2. Compare(q, r, at[v], at[a])
    BY <1>1, <1>7, <2>1, Later, Comparison
  <2>3. Val(q, at[v]) >= l[v]
    BY <1>8, <2>1 DEF Over
  <2>4. r.slope >= q.slope
    BY <1>1, <1>7, <2>1, <2>2, <2>3 DEF Compare
  <2>5. r.slope # q.slope
    BY <1>5, <1>16, <2>1 DEF a
  <2> QED BY <1>7, <2>1, <2>4, <2>5
<1>17. c \in MaxCrossings(e, A)
  <2>1. c \in {Flattest(LinesFrom(at, l, u, r.from)) : r \in A}
    BY <1>12 DEF c
  <2>2. \A r \in A : r.from = c.from => c.slope > r.slope
    BY <1>2, <1>12, <1>13, <1>14, <1>15 DEF Hull
  <2>3. \A r \in A : r.to = c.from => c.slope < r.slope
    BY <1>7, <1>10, <1>13, <1>14, <1>16
  <2> QED BY <1>c, <1>w, <1>14, <2>1, <2>2, <2>3
<1> QED BY <1>17 DEF A

-----------------------------------------------------------------------------
(***************************************************************************)
(* contemplate_data() from pass 2 on, in two cases.                        *)
(***************************************************************************)

\* The crossing that is kept is one of those found.
LEMMA KeptIs ==
    ASSUME NEW S, IsFiniteSet(S), S # {}, \A s \in S : s.slope \in Int /\ s.from \in Nat
    PROVE  Kept(S) \in S
<1> DEFINE slopes == {s.slope : s \in S}
           m == Min(slopes)
<1>1. m \in slopes /\ \A x \in slopes : m <= x
  <2> DEFINE f == [s \in S |-> s.slope]
  <2>1. slopes = {f[s] : s \in S} OBVIOUS
  <2>2. IsFiniteSet(slopes)
    <3> HIDE DEF slopes, f
    <3> QED BY <2>1, FiniteImage
  <2>3. slopes \subseteq Int /\ slopes # {} OBVIOUS
  <2> HIDE DEF slopes
  <2> QED BY <2>2, <2>3, FiniteMin
<1> HIDE DEF m
<1> DEFINE froms == {s.from : s \in {s \in S : s.slope = m}}
<1>2. PICK k \in froms : \A n \in froms : k <= n
  <2>1. froms \subseteq Nat OBVIOUS
  <2>2. PICK s \in S : s.slope = m BY <1>1
  <2>3. s.from \in froms BY <2>2
  <2> HIDE DEF froms
  <2> QED BY <2>1, <2>3, LeastNumber
<1>3. PICK s \in S : s.slope = m /\ s.from = k
  BY <1>2
<1>4. ASSUME NEW t \in S
      PROVE  s.slope < t.slope \/ (s.slope = t.slope /\ s.from <= t.from)
  <2>1. m <= t.slope /\ m \in Int BY <1>1
  <2>2. t.slope = m => k <= t.from
    <3>1. t.slope = m => t.from \in froms OBVIOUS
    <3> QED BY <1>2, <3>1
  <2> QED BY <1>3, <2>1, <2>2
<1> QED BY <1>3, <1>4 DEF Kept

\* contemplate_data() prints "inconsistent" and changes nothing, in which
\* case one of the passes found no crossing; or it splices the corners of
\* two crossings and sets the frequency. When both crossings are found
\* the splice never fails.
LEMMA Verdict ==
    ASSUME NEW e, Shape(e.at, e.max, e.min), Contemplate(e)
    PROVE  \/ /\ printed' = "inconsistent" /\ UNCHANGED <<df, box, freq>>
              /\ MinCrossings(e, maxseg(e)) = {} \/ MaxCrossings(e, minseg(e)) = {}
           \/ \E c \in MinCrossings(e, maxseg(e)), d \in MaxCrossings(e, minseg(e)) :
                 /\ printed' = "box" /\ box' = <<c, d>>
                 /\ df' = polygon(Corners(maxseg(e), minseg(e), c, d))
                 /\ freq' \in computed_freq(c, d, find_df(df'))
<1> DEFINE A == maxseg(e)
           B == minseg(e)
           mins == MinCrossings(e, A)
           maxs == MaxCrossings(e, B)
           c == Kept(mins)
           d == Kept(maxs)
<1>1. CASE mins = {} \/ maxs = {}
  BY <1>1 DEF Contemplate, Inconsistent
<1>2. CASE mins # {} /\ maxs # {}
  <2>1. c \in mins
    <3>1. mins \subseteq Lines(e.at, e.max, e.min)
      BY LowCrosses DEF LowCross
    <3>2. IsFiniteSet(mins)
      <4> HIDE DEF mins
      <4> QED BY <3>1, FiniteLines, FS_Subset
    <3>3. \A s \in mins : s.slope \in Int /\ s.from \in Nat
      BY LowCrosses DEF LowCross, IsLine
    <3> HIDE DEF mins
    <3> QED BY <1>2, <3>2, <3>3, KeptIs
  <2>2. d \in maxs
    <3>1. maxs \subseteq Lines(e.at, e.min, e.max)
      BY HighCrosses DEF HighCross
    <3>2. IsFiniteSet(maxs)
      <4> HIDE DEF maxs
      <4> QED BY <3>1, FiniteLines, FS_Subset
    <3>3. \A s \in maxs : s.slope \in Int /\ s.from \in Nat
      BY HighCrosses DEF HighCross, IsLine
    <3> HIDE DEF maxs
    <3> QED BY <1>2, <3>2, <3>3, KeptIs
  <2>3. Spliced(A, B, c, d)
    <3>1. \E s \in A : s.slope > c.slope
      <4> HIDE DEF c
      <4> QED BY <2>1, LowCrosses
    <3>2. \E s \in B : s.slope < d.slope
      <4> HIDE DEF d
      <4> QED BY <2>2, HighCrosses
    <3> QED BY <3>1, <3>2 DEF Spliced
  <2>4. /\ printed' = "box" /\ box' = <<c, d>>
        /\ df' = polygon(Corners(A, B, c, d))
        /\ freq' \in computed_freq(c, d, find_df(df'))
    BY <1>2, <2>3 DEF Contemplate
  <2> HIDE DEF c, d
  <2> QED BY <2>1, <2>2, <2>4
<1> QED BY <1>1, <1>2

\* find_shift() by cases.
LEMMA FindShift ==
    ASSUME NEW a \in Int, NEW b \in Int
    PROVE  LET x == 10 * a - 10 * b
               y == 10 * a + 3 * Unit - b
               m == IF x <= y THEN x ELSE y
           IN  find_shift(a, b) = IF m <= 0 THEN 0 ELSE m
<1> DEFINE x == 10 * a - 10 * b
           y == 10 * a + 3 * Unit - b
           m == IF x <= y THEN x ELSE y
<1>1. x \in Int /\ y \in Int
  BY PhaseAssumption DEF Unit
<1>2. find_shift(a, b) = Max({0, Min({x, y})})
  BY DEF find_shift
<1> HIDE DEF x, y
<1>3. Min({x, y}) = m
  BY <1>1 DEF Min
<1>4. m \in Int
  BY <1>1
<1> HIDE DEF m
<1>5. Max({0, m}) = IF m <= 0 THEN 0 ELSE m
  BY <1>4 DEF Max
<1> QED BY <1>2, <1>3, <1>5 DEF x, y, m

\* The smallest of a set and a cap.
LEMMA MinWith ==
    ASSUME NEW X, X \subseteq Int, NEW L \in X, \A x \in X : L <= x, NEW most \in Int
    PROVE  Min({most} \cup X) = IF most <= L THEN most ELSE L
<1> DEFINE Y == {most} \cup X
           v == IF most <= L THEN most ELSE L
<1>1. v \in Y /\ \A y \in Y : v <= y
  OBVIOUS
<1>2. Y \subseteq Int
  OBVIOUS
<1> HIDE DEF Y, v
<1>3. Min(Y) = v
  <2>1. Min(Y) \in Y /\ \A y \in Y : Min(Y) <= y
    BY <1>1 DEF Min
  <2>2. Min(Y) <= v /\ v <= Min(Y) BY <1>1, <2>1
  <2>3. Min(Y) \in Int /\ v \in Int BY <1>1, <1>2, <2>1
  <2> HIDE DEF v
  <2> QED BY <2>2, <2>3
<1> QED BY <1>3 DEF Y, v

-----------------------------------------------------------------------------
(***************************************************************************)
(* The corners of the region of consistent lines, and the smallest shift   *)
(* (LeastShift).                                                           *)
(***************************************************************************)

\* The two crossings kept are consistent lines, the flattest and the
\* steepest, and the flattest is the lower one now.
LEMMA BoxLines ==
    ASSUME NEW e, Shape(e.at, e.max, e.min), Proper(e), e.at[RING_SIZE] = 0,
           NEW c \in MinCrossings(e, maxseg(e)), NEW d \in MaxCrossings(e, minseg(e))
    PROVE  /\ c.slope \in Int /\ c.offset \in Int /\ d.slope \in Int /\ d.offset \in Int
           /\ c.slope = Lowest(e) /\ d.slope = Highest(e) /\ c.slope < d.slope
           /\ c.from \in 1..RING_SIZE /\ Val(c, e.at[c.from]) = e.max[c.from]
           /\ c.to \in 1..RING_SIZE /\ Val(c, e.at[c.to]) = e.min[c.to]
           /\ d.from \in 1..RING_SIZE /\ Val(d, e.at[d.from]) = e.min[d.from]
           /\ d.to \in 1..RING_SIZE /\ Val(d, e.at[d.to]) = e.max[d.to]
           /\ Under(c, e.at, e.max) /\ Over(c, e.at, e.min)
           /\ Under(d, e.at, e.max) /\ Over(d, e.at, e.min)
           /\ c.offset <= d.offset
<1> DEFINE at == e.at
           u == e.max
           l == e.min
<1>1. LowCross(c, at, u, l) /\ HighCross(d, at, u, l)
  BY LowCrosses, HighCrosses
<1>2. c.slope = Lowest(e) /\ d.slope = Highest(e) /\ c.slope < d.slope
  BY <1>1, BoxIs
<1>3. /\ c.slope \in Int /\ c.offset \in Int /\ d.slope \in Int /\ d.offset \in Int
      /\ c.from \in 1..RING_SIZE /\ c.to \in 1..RING_SIZE
      /\ d.from \in 1..RING_SIZE /\ d.to \in 1..RING_SIZE
      /\ Val(c, at[c.from]) = u[c.from] /\ Val(c, at[c.to]) = l[c.to]
      /\ Val(d, at[d.from]) = l[d.from] /\ Val(d, at[d.to]) = u[d.to]
  BY <1>1, Size DEF LowCross, HighCross, IsLine
<1>4. /\ \A s \in Lines(at, u, l) : s.slope <= c.slope /\ s.slope <= d.slope
      /\ \A s \in Lines(at, l, u) : s.slope >= c.slope /\ s.slope >= d.slope
  BY <1>2, <1>3, Extremes
<1>5. Shape(at, u, l) /\ at[RING_SIZE] = 0
  OBVIOUS
<1>b. \A m \in 1..RING_SIZE : l[m] <= u[m]
  BY DEF Proper
<1> HIDE DEF at, u, l
<1>6. /\ \A m \in 1..RING_SIZE : u[m] \in Int /\ l[m] \in Int /\ at[m] \in Int
      /\ Rising(at)
  BY <1>5 DEF Shape, Curve, Rising
<1>7. Under(c, at, u) /\ Over(c, at, l)
  <2>1. Val(c, at[c.from]) >= u[c.from] /\ Val(c, at[c.to]) <= l[c.to]
    BY <1>3, <1>6
  <2> QED BY <1>3, <1>4, <1>5, <1>b, <2>1, Touching
<1>8. Under(d, at, u) /\ Over(d, at, l)
  <2>1. Val(d, at[d.to]) >= u[d.to] /\ Val(d, at[d.from]) <= l[d.from]
    BY <1>3, <1>6
  <2> QED BY <1>3, <1>4, <1>5, <1>b, <2>1, Touching
<1>9. c.offset <= d.offset
  <2> DEFINE n == d.to
  <2>1. n \in 1..RING_SIZE /\ Val(d, at[n]) = u[n] /\ Val(c, at[n]) <= u[n]
    BY <1>3, <1>7 DEF Under
  <2> HIDE DEF n
  <2>2. RING_SIZE \in 1..RING_SIZE BY Size
  <2>3. Val(c, at[RING_SIZE]) = c.offset /\ Val(d, at[RING_SIZE]) = d.offset
    BY <1>3, <1>5 DEF Val
  <2>4. CASE n = RING_SIZE
    BY <1>3, <2>1, <2>3, <2>4
  <2>5. CASE n # RING_SIZE
    <3>1. n < RING_SIZE BY <2>1, <2>5, Size
    <3>2. Compare(c, d, at[n], at[RING_SIZE])
      BY <1>3, <1>6, <2>1, <2>2, <3>1, Later, Comparison
    <3> QED BY <1>2, <1>3, <1>6, <2>1, <2>3, <3>2 DEF Compare
  <2> QED BY <2>4, <2>5
<1> QED BY <1>2, <1>3, <1>7, <1>8, <1>9 DEF at, u, l

\* Every corner is a consistent line between them.
LEMMA CornersAre ==
    ASSUME NEW e, Shape(e.at, e.max, e.min), Proper(e), e.at[RING_SIZE] = 0,
           NEW c \in MinCrossings(e, maxseg(e)), NEW d \in MaxCrossings(e, minseg(e)),
           NEW k \in Corners(maxseg(e), minseg(e), c, d)
    PROVE  /\ k.slope \in c.slope..d.slope /\ k.offset \in Int
           /\ Under(k, e.at, e.max) /\ Over(k, e.at, e.min)
<1> DEFINE at == e.at
           u == e.max
           l == e.min
           A == maxseg(e)
           B == minseg(e)
<1>1. /\ c.slope \in Int /\ c.offset \in Int /\ d.slope \in Int /\ d.offset \in Int
      /\ c.slope = Lowest(e) /\ d.slope = Highest(e) /\ c.slope < d.slope
      /\ Under(c, at, u) /\ Over(c, at, l) /\ Under(d, at, u) /\ Over(d, at, l)
  BY BoxLines
<1>2. /\ Hull(A, at, u) /\ \A s \in A : Under(s, at, u)
      /\ Hull(B, at, l) /\ \A s \in B : Over(s, at, l)
  BY UpperHull, LowerHull
<1>3. \/ k = c
      \/ k = d
      \/ k \in A /\ c.slope < k.slope /\ k.slope <= d.slope
      \/ k \in B /\ c.slope <= k.slope /\ k.slope < d.slope
  BY DEF Corners
<1>4. Shape(at, u, l)
  OBVIOUS
<1>5. /\ \A s \in Lines(at, u, l) : s.slope \in Int /\ s.slope <= c.slope
      /\ \A s \in Lines(at, l, u) : s.slope \in Int /\ s.slope >= d.slope
  BY <1>1, Extremes
<1>b. \A m \in 1..RING_SIZE : l[m] <= u[m]
  BY DEF Proper
<1> HIDE DEF at, u, l, A, B
<1>6. \A m \in 1..RING_SIZE : u[m] \in Int /\ l[m] \in Int
  BY <1>4 DEF Shape, Curve
<1>7. ASSUME k \in A, c.slope < k.slope, k.slope <= d.slope
      PROVE  k.slope \in Int /\ k.offset \in Int /\ Under(k, at, u) /\ Over(k, at, l)
  <2>1. /\ k.slope \in Int /\ k.offset \in Int
        /\ k.from \in 1..RING_SIZE /\ Val(k, at[k.from]) = u[k.from]
    BY <1>2, <1>7, Size DEF Hull, IsLine
  <2>2. /\ \A s \in Lines(at, u, l) : s.slope <= k.slope
        /\ \A s \in Lines(at, l, u) : s.slope >= k.slope
    BY <1>1, <1>5, <1>7, <2>1
  <2>3. Val(k, at[k.from]) >= u[k.from] BY <1>6, <2>1
  <2> QED BY <1>2, <1>4, <1>7, <1>b, <2>1, <2>2, <2>3, Touching
<1>8. ASSUME k \in B, c.slope <= k.slope, k.slope < d.slope
      PROVE  k.slope \in Int /\ k.offset \in Int /\ Under(k, at, u) /\ Over(k, at, l)
  <2>1. /\ k.slope \in Int /\ k.offset \in Int
        /\ k.from \in 1..RING_SIZE /\ Val(k, at[k.from]) = l[k.from]
    BY <1>2, <1>8, Size DEF Hull, IsLine
  <2>2. /\ \A s \in Lines(at, u, l) : s.slope <= k.slope
        /\ \A s \in Lines(at, l, u) : s.slope >= k.slope
    BY <1>1, <1>5, <1>8, <2>1
  <2>3. Val(k, at[k.from]) <= l[k.from] BY <1>6, <2>1
  <2> QED BY <1>2, <1>4, <1>8, <1>b, <2>1, <2>2, <2>3, Touching
<1>9. k.slope \in c.slope..d.slope /\ k.offset \in Int /\ Under(k, at, u) /\ Over(k, at, l)
  BY <1>1, <1>3, <1>7, <1>8
<1> QED BY <1>9 DEF at, u, l

\* A shift capped as polygon_reset() caps it.
Capped(x) == IF 10 * MIN_INIT * Unit <= x THEN 10 * MIN_INIT * Unit ELSE x

\* The smallest of a set and that cap.
LEMMA MinCapped ==
    ASSUME NEW X, X \subseteq Int, NEW L \in X, \A x \in X : L <= x
    PROVE  Min({10 * MIN_INIT * Unit} \cup X) = Capped(L)
<1> DEFINE most == 10 * MIN_INIT * Unit
<1>1. most \in Int
  BY PhaseAssumption DEF Unit, MIN_INIT
<1> HIDE DEF most
<1>2. Min({most} \cup X) = IF most <= L THEN most ELSE L
  BY <1>1, MinWith
<1> QED BY <1>2 DEF Capped, most

\* find_shift() grows with both its terms.
LEMMA SmallerShift ==
    ASSUME NEW a \in Int, NEW b \in Int, NEW a2 \in Int, NEW b2 \in Int,
           10 * a - 10 * b <= 10 * a2 - 10 * b2, 10 * a - b <= 10 * a2 - b2
    PROVE  find_shift(a, b) \in Nat /\ find_shift(a, b) <= find_shift(a2, b2)
<1>1. Unit \in Int
  BY PhaseAssumption DEF Unit
<1>2. LET x == 10 * a - 10 * b
          y == 10 * a + 3 * Unit - b
          m == IF x <= y THEN x ELSE y
      IN  find_shift(a, b) = IF m <= 0 THEN 0 ELSE m
  BY FindShift
<1>3. LET x == 10 * a2 - 10 * b2
          y == 10 * a2 + 3 * Unit - b2
          m == IF x <= y THEN x ELSE y
      IN  find_shift(a2, b2) = IF m <= 0 THEN 0 ELSE m
  BY FindShift
<1> QED BY <1>1, <1>2, <1>3

(* Along a target line, the later the steeper line through a point of the  *)
(* ring: the last corner has the smallest shift from the left, the first   *)
(* from the right.                                                         *)
\* A line that was above another and is steeper needs the smaller shift
\* from the left.
LEMMA ShiftLeft ==
    ASSUME NEW k, k.slope \in Int, k.offset \in Int, NEW d, d.slope \in Int, d.offset \in Int,
           NEW t \in Int, t <= 0, k.slope <= d.slope, Val(k, t) <= Val(d, t)
    PROVE  /\ find_shift(-d.slope, d.offset) \in Nat
           /\ find_shift(-d.slope, d.offset) <= find_shift(-k.slope, k.offset)
<1>1. k.offset - d.offset <= (d.slope - k.slope) * t
  BY DEF Val
<1>2. (d.slope - k.slope) * t <= 0
  OBVIOUS
<1>3. k.offset <= d.offset
  <2>1. (d.slope - k.slope) * t \in Int OBVIOUS
  <2> QED BY <1>1, <1>2, <2>1
<1>4. /\ 10 * (-d.slope) - 10 * d.offset <= 10 * (-k.slope) - 10 * k.offset
      /\ 10 * (-d.slope) - d.offset <= 10 * (-k.slope) - k.offset
      /\ -d.slope \in Int /\ -k.slope \in Int
  BY <1>3
<1> QED BY <1>4, SmallerShift

\* A line that was below another and is flatter needs the smaller shift
\* from the right.
LEMMA ShiftRight ==
    ASSUME NEW k, k.slope \in Int, k.offset \in Int, NEW c, c.slope \in Int, c.offset \in Int,
           NEW t \in Int, t <= 0, c.slope <= k.slope, Val(c, t) <= Val(k, t)
    PROVE  /\ find_shift(c.slope, -c.offset) \in Nat
           /\ find_shift(c.slope, -c.offset) <= find_shift(k.slope, -k.offset)
<1>1. c.offset - k.offset <= (k.slope - c.slope) * t
  BY DEF Val
<1>2. (k.slope - c.slope) * t <= 0
  OBVIOUS
<1>3. c.offset <= k.offset
  <2>1. (k.slope - c.slope) * t \in Int OBVIOUS
  <2> QED BY <1>1, <1>2, <2>1
<1>4. /\ 10 * c.slope - 10 * (-c.offset) <= 10 * k.slope - 10 * (-k.offset)
      /\ 10 * c.slope - (-c.offset) <= 10 * k.slope - (-k.offset)
      /\ -c.offset \in Int /\ -k.offset \in Int
  BY <1>3
<1> QED BY <1>4, SmallerShift

\* The cap of a shift is 0 only for 0, and never above it.
LEMMA CappedIs ==
    ASSUME NEW x \in Nat
    PROVE  Capped(x) \in Nat /\ Capped(x) <= x /\ (Capped(x) = 0 <=> x = 0)
<1>1. 10 * MIN_INIT * Unit \in Nat /\ 10 * MIN_INIT * Unit > 0
  <2>1. Unit \in Nat \ {0} BY PhaseAssumption DEF Unit
  <2> QED BY <2>1 DEF MIN_INIT
<1> QED BY <1>1 DEF Capped

\* The two crossings alone decide both shifts, whatever corners lie
\* between, as both target lines fall.
THEOREM ExtremesDecide ==
    ASSUME NEW e, Shape(e.at, e.max, e.min), Proper(e), e.at[RING_SIZE] = 0,
           NEW c \in MinCrossings(e, maxseg(e)), NEW d \in MaxCrossings(e, minseg(e))
    PROVE  /\ polygon(Corners(maxseg(e), minseg(e), c, d)) =
                  [l_min |-> Capped(find_shift(-d.slope, d.offset)),
                   r_min |-> Capped(find_shift(c.slope, -c.offset))]
           /\ find_shift(-d.slope, d.offset) \in Nat
           /\ find_shift(-d.slope, d.offset) <= find_shift(-c.slope, c.offset)
           /\ find_shift(c.slope, -c.offset) \in Nat
           /\ find_shift(c.slope, -c.offset) <= find_shift(d.slope, -d.offset)
<1> DEFINE at == e.at
           u == e.max
           l == e.min
           K == Corners(maxseg(e), minseg(e), c, d)
<1>1. /\ c.slope \in Int /\ c.offset \in Int /\ d.slope \in Int /\ d.offset \in Int
      /\ c.slope < d.slope
      /\ c.to \in 1..RING_SIZE /\ Val(c, at[c.to]) = l[c.to]
      /\ d.to \in 1..RING_SIZE /\ Val(d, at[d.to]) = u[d.to]
  BY BoxLines
<1>2. \A k \in K : /\ k.slope \in c.slope..d.slope /\ k.offset \in Int
                   /\ Under(k, at, u) /\ Over(k, at, l)
  BY CornersAre
<1>3. c \in K /\ d \in K
  BY DEF Corners
<1>4. ASSUME NEW m \in 1..RING_SIZE  PROVE at[m] \in Int /\ at[m] <= 0
  <2>1. RING_SIZE \in 1..RING_SIZE /\ (m = RING_SIZE \/ m < RING_SIZE) BY Size
  <2> QED BY <2>1 DEF Shape, Rising, Curve
<1> HIDE DEF at, u, l, K
<1>5. ASSUME NEW k \in K
      PROVE  /\ find_shift(-d.slope, d.offset) \in Nat
             /\ find_shift(-d.slope, d.offset) <= find_shift(-k.slope, k.offset)
             /\ find_shift(c.slope, -c.offset) \in Nat
             /\ find_shift(c.slope, -c.offset) <= find_shift(k.slope, -k.offset)
             /\ find_shift(-k.slope, k.offset) \in Int
             /\ find_shift(k.slope, -k.offset) \in Int
  <2>1. k.slope \in Int /\ k.offset \in Int /\ c.slope <= k.slope /\ k.slope <= d.slope
    BY <1>1, <1>2
  <2>2. Val(k, at[d.to]) <= Val(d, at[d.to]) /\ Val(c, at[c.to]) <= Val(k, at[c.to])
    <3>1. Val(k, at[c.to]) >= l[c.to] /\ Val(k, at[d.to]) <= u[d.to]
      BY <1>1, <1>2 DEF Under, Over
    <3>2. at[c.to] \in Int BY <1>1, <1>4
    <3>3. Val(k, at[c.to]) \in Int /\ Val(c, at[c.to]) \in Int BY <1>1, <2>1, <3>2 DEF Val
    <3> QED BY <1>1, <3>1, <3>3
  <2>3. at[d.to] \in Int /\ at[d.to] <= 0 /\ at[c.to] \in Int /\ at[c.to] <= 0
    BY <1>1, <1>4
  <2>4. /\ find_shift(-d.slope, d.offset) \in Nat
        /\ find_shift(-d.slope, d.offset) <= find_shift(-k.slope, k.offset)
    BY <1>1, <2>1, <2>2, <2>3, ShiftLeft
  <2>5. /\ find_shift(c.slope, -c.offset) \in Nat
        /\ find_shift(c.slope, -c.offset) <= find_shift(k.slope, -k.offset)
    BY <1>1, <2>1, <2>2, <2>3, ShiftRight
  <2>6. find_shift(-k.slope, k.offset) \in Nat /\ find_shift(k.slope, -k.offset) \in Nat
    <3>1. -k.slope \in Int /\ -k.offset \in Int BY <2>1
    <3>2. \A a, b \in Int : find_shift(a, b) \in Nat
      <4> SUFFICES ASSUME NEW a \in Int, NEW b \in Int PROVE find_shift(a, b) \in Nat
        OBVIOUS
      <4>1. 10 * a - 10 * b <= 10 * a - 10 * b /\ 10 * a - b <= 10 * a - b
        OBVIOUS
      <4> QED BY <4>1, SmallerShift
    <3> QED BY <2>1, <3>1, <3>2
  <2> QED BY <2>4, <2>5, <2>6
<1> DEFINE Ls == {find_shift(-s.slope, s.offset) : s \in K}
           Rs == {find_shift(s.slope, -s.offset) : s \in K}
<1>7. Min({10 * MIN_INIT * Unit} \cup Ls) = Capped(find_shift(-d.slope, d.offset))
  <2>1. Ls \subseteq Int /\ find_shift(-d.slope, d.offset) \in Ls
    BY <1>3, <1>5
  <2>2. \A x \in Ls : find_shift(-d.slope, d.offset) <= x
    BY <1>5
  <2> DEFINE m == find_shift(-d.slope, d.offset)
  <2> HIDE DEF Ls, m
  <2>9. Min({10 * MIN_INIT * Unit} \cup Ls) = Capped(m) BY <2>1, <2>2, MinCapped DEF m
  <2> QED BY <2>9 DEF m
<1>8. Min({10 * MIN_INIT * Unit} \cup Rs) = Capped(find_shift(c.slope, -c.offset))
  <2>1. Rs \subseteq Int /\ find_shift(c.slope, -c.offset) \in Rs
    BY <1>3, <1>5
  <2>2. \A x \in Rs : find_shift(c.slope, -c.offset) <= x
    BY <1>5
  <2> DEFINE m == find_shift(c.slope, -c.offset)
  <2> HIDE DEF Rs, m
  <2>9. Min({10 * MIN_INIT * Unit} \cup Rs) = Capped(m) BY <2>1, <2>2, MinCapped DEF m
  <2> QED BY <2>9 DEF m
<1>9. polygon(K) = [l_min |-> Capped(find_shift(-d.slope, d.offset)),
                    r_min |-> Capped(find_shift(c.slope, -c.offset))]
  BY <1>7, <1>8 DEF polygon
<1> QED BY <1>3, <1>5, <1>9 DEF K

\* df holds the least shifts of all consistent lines of a box from c to
\* d.
Least(e, c, d, p) ==
    LET low(s) == Max({e.min[j] - s * e.at[j] : j \in 1..RING_SIZE})
        high(s) == Min({e.max[j] - s * e.at[j] : j \in 1..RING_SIZE})
        slopes == c.slope .. d.slope
        most == 10 * MIN_INIT * Unit
    IN  /\ \A s \in slopes : low(s) <= high(s)
        /\ p.l_min = Min({most} \cup {find_shift(-s, high(s)) : s \in slopes})
        /\ p.r_min = Min({most} \cup {find_shift(s, -low(s)) : s \in slopes})

\* polygon_point(), from the corners alone, finds the least shifts of all
\* consistent lines.
LEMMA LeastShiftIs ==
    ASSUME NEW e, Shape(e.at, e.max, e.min), Proper(e), e.at[RING_SIZE] = 0,
           NEW c \in MinCrossings(e, maxseg(e)), NEW d \in MaxCrossings(e, minseg(e)),
           NEW p, p = polygon(Corners(maxseg(e), minseg(e), c, d))
    PROVE  Least(e, c, d, p)
<1> DEFINE at == e.at
           u == e.max
           l == e.min
           Lows(s) == {l[j] - s * at[j] : j \in 1..RING_SIZE}
           Highs(s) == {u[j] - s * at[j] : j \in 1..RING_SIZE}
           low(s) == Max(Lows(s))
           high(s) == Min(Highs(s))
           slopes == c.slope .. d.slope
<1>1. /\ c.slope \in Int /\ c.offset \in Int /\ d.slope \in Int /\ d.offset \in Int
      /\ c.slope < d.slope
      /\ c.to \in 1..RING_SIZE /\ Val(c, at[c.to]) = l[c.to]
      /\ d.to \in 1..RING_SIZE /\ Val(d, at[d.to]) = u[d.to]
      /\ Over(c, at, l) /\ Under(d, at, u)
      /\ c.slope = Lowest(e) /\ d.slope = Highest(e)
  BY BoxLines
<1>2. ASSUME NEW m \in 1..RING_SIZE
      PROVE  at[m] \in Int /\ at[m] <= 0 /\ u[m] \in Int /\ l[m] \in Int
  <2>1. RING_SIZE \in 1..RING_SIZE /\ (m = RING_SIZE \/ m < RING_SIZE) BY Size
  <2> QED BY <2>1 DEF Shape, Rising, Curve
<1>3. /\ \A s \in Lines(at, u, l) : s.slope \in Int /\ s.slope <= c.slope
      /\ \A s \in Lines(at, l, u) : s.slope \in Int /\ s.slope >= d.slope
  BY <1>1, Extremes
<1>4. Shape(at, u, l)
  OBVIOUS
<1>b. \A m \in 1..RING_SIZE : l[m] <= u[m]
  BY DEF Proper
<1> HIDE DEF at, u, l
<1>5. ASSUME NEW s \in Int
      PROVE  /\ low(s) \in Int /\ high(s) \in Int
             /\ \E j \in 1..RING_SIZE : low(s) = l[j] - s * at[j]
             /\ \A j \in 1..RING_SIZE : low(s) >= l[j] - s * at[j]
             /\ \E j \in 1..RING_SIZE : high(s) = u[j] - s * at[j]
             /\ \A j \in 1..RING_SIZE : high(s) <= u[j] - s * at[j]
  <2>0. RING_SIZE \in Int /\ 1 \in 1..RING_SIZE BY Size
  <2>1. IsFiniteSet(1..RING_SIZE) /\ 1 \in 1..RING_SIZE
    <3>1. \A a, b \in Int : IsFiniteSet(a..b) BY FS_Interval
    <3> HIDE DEF Lows, Highs
    <3> QED BY <2>0, <3>1
  <2>2. \A j \in 1..RING_SIZE : s * at[j] \in Int BY <1>2
  <2>3. Lows(s) \subseteq Int /\ Lows(s) # {} /\ Highs(s) \subseteq Int /\ Highs(s) # {}
    BY <1>2, <2>1, <2>2
  <2>4. IsFiniteSet(Lows(s)) /\ IsFiniteSet(Highs(s))
    <3> DEFINE J == 1..RING_SIZE
               f == [j \in J |-> l[j] - s * at[j]]
               g == [j \in J |-> u[j] - s * at[j]]
    <3>1. Lows(s) = {f[j] : j \in J} /\ Highs(s) = {g[j] : j \in J} OBVIOUS
    <3>2. IsFiniteSet(J) BY <2>1
    <3> HIDE DEF J, f, g, Lows, Highs
    <3> QED BY <3>1, <3>2, FiniteImage
  <2>5. /\ low(s) \in Lows(s) /\ \A x \in Lows(s) : low(s) >= x
        /\ high(s) \in Highs(s) /\ \A x \in Highs(s) : high(s) <= x
    <3> HIDE DEF Lows, Highs
    <3> QED BY <2>3, <2>4, FiniteMin, FiniteMax
  <2> HIDE DEF low, high
  <2> QED BY <2>3, <2>5
<1> HIDE DEF low, high
<1>6. ASSUME NEW s \in slopes  PROVE low(s) <= high(s)
  <2>1. s \in Int /\ c.slope <= s /\ s <= d.slope BY <1>1
  <2>2. PICK j \in 1..RING_SIZE : low(s) = l[j] - s * at[j] BY <1>5, <2>1
  <2>3. PICK k \in 1..RING_SIZE : high(s) = u[k] - s * at[k] BY <1>5, <2>1
  <2> DEFINE r == [slope |-> s, offset |-> 0]
  <2>4. r.slope = s /\ r.offset = 0 /\ Val(r, at[j]) = s * at[j] /\ Val(r, at[k]) = s * at[k]
    <3>1. s * at[j] \in Int /\ s * at[k] \in Int BY <1>2, <2>1
    <3> QED BY <3>1 DEF Val
  <2> HIDE DEF r
  <2>5. /\ \A q \in Lines(at, u, l) : q.slope <= r.slope
        /\ \A q \in Lines(at, l, u) : q.slope >= r.slope
    BY <1>1, <1>3, <2>1, <2>4
  <2>6. l[j] - Val(r, at[j]) <= u[k] - Val(r, at[k])
    <3>1. r.slope \in Int /\ r.offset \in Int BY <2>1, <2>4
    <3> QED BY <1>4, <1>b, <2>5, <3>1, Consistent
  <2> QED BY <2>2, <2>3, <2>4, <2>6
<1>7. high(d.slope) = d.offset
  <2>1. PICK j \in 1..RING_SIZE : high(d.slope) = u[j] - d.slope * at[j] BY <1>1, <1>5
  <2>2. high(d.slope) <= u[d.to] - d.slope * at[d.to] BY <1>1, <1>5
  <2>3. /\ d.slope * at[j] \in Int /\ d.slope * at[d.to] \in Int
        /\ u[j] \in Int /\ u[d.to] \in Int
    BY <1>1, <1>2
  <2>4. Val(d, at[j]) <= u[j] BY <1>1 DEF Under
  <2>5. Val(d, at[j]) = d.offset + d.slope * at[j] /\ u[d.to] = d.offset + d.slope * at[d.to]
    BY <1>1 DEF Val
  <2> QED BY <1>1, <2>1, <2>2, <2>3, <2>4, <2>5
<1>8. low(c.slope) = c.offset
  <2>1. PICK j \in 1..RING_SIZE : low(c.slope) = l[j] - c.slope * at[j] BY <1>1, <1>5
  <2>2. low(c.slope) >= l[c.to] - c.slope * at[c.to] BY <1>1, <1>5
  <2>3. /\ c.slope * at[j] \in Int /\ c.slope * at[c.to] \in Int
        /\ l[j] \in Int /\ l[c.to] \in Int
    BY <1>1, <1>2
  <2>4. Val(c, at[j]) >= l[j] BY <1>1 DEF Over
  <2>5. Val(c, at[j]) = c.offset + c.slope * at[j] /\ l[c.to] = c.offset + c.slope * at[c.to]
    BY <1>1 DEF Val
  <2> QED BY <1>1, <2>1, <2>2, <2>3, <2>4, <2>5
<1>9. ASSUME NEW s \in slopes
      PROVE  /\ find_shift(-d.slope, d.offset) <= find_shift(-s, high(s))
             /\ find_shift(c.slope, -c.offset) <= find_shift(s, -low(s))
             /\ find_shift(-s, high(s)) \in Int /\ find_shift(s, -low(s)) \in Int
  <2>1. s \in Int /\ c.slope <= s /\ s <= d.slope /\ low(s) \in Int /\ high(s) \in Int
    BY <1>1, <1>5
  <2>2. high(s) <= u[d.to] - s * at[d.to] /\ low(s) >= l[c.to] - s * at[c.to]
    BY <1>1, <1>5, <2>1
  <2> DEFINE h == [slope |-> s, offset |-> high(s)]
             k == [slope |-> s, offset |-> low(s)]
  <2>3. h.slope = s /\ h.offset = high(s) /\ k.slope = s /\ k.offset = low(s)
    OBVIOUS
  <2> HIDE DEF h, k
  <2>4. /\ at[d.to] \in Int /\ at[d.to] <= 0 /\ at[c.to] \in Int /\ at[c.to] <= 0
        /\ s * at[d.to] \in Int /\ s * at[c.to] \in Int
        /\ u[d.to] \in Int /\ l[c.to] \in Int
    BY <1>1, <1>2, <2>1
  <2>5. Val(h, at[d.to]) <= Val(d, at[d.to]) /\ Val(c, at[c.to]) <= Val(k, at[c.to])
    <3>1. Val(h, at[d.to]) = high(s) + s * at[d.to] /\ Val(k, at[c.to]) = low(s) + s * at[c.to]
      BY <2>3 DEF Val
    <3> QED BY <1>1, <2>1, <2>2, <2>4, <3>1
  <2>6. find_shift(-d.slope, d.offset) <= find_shift(-h.slope, h.offset)
    BY <1>1, <2>1, <2>3, <2>4, <2>5, ShiftLeft
  <2>7. find_shift(c.slope, -c.offset) <= find_shift(k.slope, -k.offset)
    BY <1>1, <2>1, <2>3, <2>4, <2>5, ShiftRight
  <2>8. \A a, b \in Int : find_shift(a, b) \in Nat
    <3> SUFFICES ASSUME NEW a \in Int, NEW b \in Int PROVE find_shift(a, b) \in Nat
      OBVIOUS
    <3>1. 10 * a - 10 * b <= 10 * a - 10 * b /\ 10 * a - b <= 10 * a - b
      OBVIOUS
    <3> QED BY <3>1, SmallerShift
  <2>9. find_shift(-s, high(s)) \in Nat /\ find_shift(s, -low(s)) \in Nat
    <3>1. -s \in Int /\ -low(s) \in Int BY <2>1
    <3> QED BY <2>1, <2>8, <3>1
  <2> QED BY <2>3, <2>6, <2>7, <2>9
<1>10. /\ p.l_min = Capped(find_shift(-d.slope, d.offset))
       /\ p.r_min = Capped(find_shift(c.slope, -c.offset))
  BY ExtremesDecide
<1> DEFINE Ls == {find_shift(-s, high(s)) : s \in slopes}
           Rs == {find_shift(s, -low(s)) : s \in slopes}
<1>11. p.l_min = Min({10 * MIN_INIT * Unit} \cup Ls)
  <2>1. d.slope \in slopes BY <1>1
  <2>2. Ls \subseteq Int /\ find_shift(-d.slope, d.offset) \in Ls
    BY <1>7, <1>9, <2>1
  <2>3. \A x \in Ls : find_shift(-d.slope, d.offset) <= x
    BY <1>9
  <2> DEFINE m == find_shift(-d.slope, d.offset)
  <2> HIDE DEF Ls, m
  <2>9. Min({10 * MIN_INIT * Unit} \cup Ls) = Capped(m) BY <2>2, <2>3, MinCapped DEF m
  <2> QED BY <1>10, <2>9 DEF m
<1>12. p.r_min = Min({10 * MIN_INIT * Unit} \cup Rs)
  <2>1. c.slope \in slopes BY <1>1
  <2>2. Rs \subseteq Int /\ find_shift(c.slope, -c.offset) \in Rs
    BY <1>8, <1>9, <2>1
  <2>3. \A x \in Rs : find_shift(c.slope, -c.offset) <= x
    BY <1>9
  <2> DEFINE m == find_shift(c.slope, -c.offset)
  <2> HIDE DEF Rs, m
  <2>9. Min({10 * MIN_INIT * Unit} \cup Rs) = Capped(m) BY <2>2, <2>3, MinCapped DEF m
  <2> QED BY <1>10, <2>9 DEF m
<1> QED BY <1>6, <1>11, <1>12 DEF Least, at, u, l, low, high

-----------------------------------------------------------------------------
(***************************************************************************)
(* The new frequency (SteersRight).                                        *)
(***************************************************************************)

\* Truncation does not change the sign.
LEMMA TruncatedIs ==
    ASSUME NEW a \in Int, NEW b \in Int, b > 0
    PROVE  /\ Truncated(a, b) \in Int
           /\ a < b => Truncated(a, b) <= 0
           /\ a >= 0 => Truncated(a, b) >= 0
BY DEF Truncated

\* A product with a positive number keeps the sign.
LEMMA ProductSign ==
    ASSUME NEW a \in Int, NEW b \in Int, b > 0
    PROVE  /\ a * b \in Int /\ b * a \in Int
           /\ a <= 0 => a * b <= 0 /\ b * a <= 0
           /\ a >= 0 => a * b >= 0 /\ b * a >= 0
           /\ a > 0 => a * b > 0 /\ b * a > 0
OBVIOUS

\* Clamping keeps frequencies in order.
LEMMA ClampedIs ==
    ASSUME NEW f \in Int
    PROVE  /\ Clamped(f) \in -MAX_C..MAX_C
           /\ \A g \in Int : /\ f >= g => Clamped(f) >= Clamped(g)
                             /\ f <= g => Clamped(f) <= Clamped(g)
<1>1. MAX_C \in Nat
  BY PhaseAssumption DEF MAX_C
<1>2. ASSUME NEW g \in Int
      PROVE  Clamped(g) = IF g <= -MAX_C THEN -MAX_C ELSE IF g <= MAX_C THEN g ELSE MAX_C
  <2> DEFINE m == IF g <= MAX_C THEN g ELSE MAX_C
  <2>1. Min({MAX_C, g}) = m
    BY <1>1 DEF Min
  <2>2. m \in Int /\ m <= MAX_C
    BY <1>1
  <2> HIDE DEF m
  <2>3. Max({-MAX_C, m}) = IF m <= -MAX_C THEN -MAX_C ELSE m
    BY <1>1, <2>2 DEF Max
  <2>4. Clamped(g) = IF m <= -MAX_C THEN -MAX_C ELSE m
    BY <2>1, <2>3 DEF Clamped
  <2> QED BY <1>1, <2>4 DEF m
<1> QED BY <1>1, <1>2

\* The way to the centre is an integer.
LEMMA DeltaIs ==
    ASSUME NEW c, c.slope \in Int, c.offset \in Int,
           NEW d, d.slope \in Int, d.offset \in Int, NEW gross \in Int
    PROVE  Delta(c, d, gross) \in Int
<1> Unit \in Nat
  BY PhaseAssumption DEF Unit
<1> QED BY DEF Delta

\* While all lines are beyond the target on the right, the way to the
\* centre of the shifted region does not lead back.
LEMMA DeltaFalls ==
    ASSUME NEW c, c.slope \in Int, c.offset \in Int,
           NEW d, d.slope \in Int, d.offset \in Int, NEW r \in Int,
           10 * c.slope + 10 * c.offset >= r, 10 * d.slope + 10 * d.offset >= r
    PROVE  Delta(c, d, -r) <= 0
<1> Unit \in Nat
  BY PhaseAssumption DEF Unit
<1> QED BY DEF Delta

\* Nor from the left.
LEMMA DeltaRises ==
    ASSUME NEW c, c.slope \in Int, c.offset \in Int,
           NEW d, d.slope \in Int, d.offset \in Int, NEW r \in Int,
           -10 * c.slope - 10 * c.offset >= r, -10 * d.slope - 10 * d.offset >= r
    PROVE  Delta(c, d, r) >= 0
<1> Unit \in Nat
  BY PhaseAssumption DEF Unit
<1> QED BY DEF Delta

\* The denominator, positive for two crossings in order.
LEMMA DenIs ==
    ASSUME NEW c, c.slope \in Int, c.offset \in Int,
           NEW d, d.slope \in Int, d.offset \in Int
    PROVE  /\ Den(c, d) \in Int
           /\ c.slope < d.slope /\ c.offset <= d.offset => Den(c, d) > 0
<1> Unit \in Nat \ {0}
  BY PhaseAssumption DEF Unit
<1> QED BY DEF Den

\* The step of the frequency is an integer unless the denominator is 0.
LEMMA StepIs ==
    ASSUME NEW c, c.slope \in Int, c.offset \in Int,
           NEW d, d.slope \in Int, d.offset \in Int, NEW gross \in Int, Den(c, d) # 0
    PROVE  delta_freq(c, d, gross) \in Int
<1> DEFINE den == Den(c, d)
           delta == Delta(c, d, gross)
           num == 6 * gross * den + 5 * Unit * delta
           sign == IF den > 0 THEN 1 ELSE -1
           a == sign * (2 * num + 60 * Scale * den)
           b == sign * 120 * Scale * den
<1>1. den \in Int /\ delta \in Int /\ den # 0
  BY DenIs, DeltaIs
<1>2. delta_freq(c, d, gross) = Truncated(a, b)
  BY DEF delta_freq
<1> HIDE DEF den, delta
<1>3. Unit \in Int /\ Scale \in Int /\ Scale > 0
  BY PhaseAssumption DEF Unit
<1>4. num \in Int
  BY <1>1, <1>3
<1> HIDE DEF num
<1>5. a \in Int
  BY <1>1, <1>3, <1>4
<1>6. b \in Int /\ b > 0
  <2>1. sign * den \in Int /\ sign * den > 0
    BY <1>1
  <2>2. Scale * (sign * den) \in Int /\ Scale * (sign * den) > 0
    BY <1>3, <2>1, ProductSign
  <2>3. b = 120 * (Scale * (sign * den))
    BY <1>1, <1>3
  <2> HIDE DEF b, sign
  <2> QED BY <2>2, <2>3
<1> HIDE DEF a, b
<1> QED BY <1>2, <1>5, <1>6, TruncatedIs

\* The step of the frequency has the sign of both its terms, rounding
\* included.
LEMMA DeltaFreq ==
    ASSUME NEW c, c.slope \in Int, c.offset \in Int,
           NEW d, d.slope \in Int, d.offset \in Int, NEW gross \in Int,
           c.slope < d.slope, c.offset <= d.offset
    PROVE  /\ delta_freq(c, d, gross) \in Int
           /\ gross <= 0 /\ Delta(c, d, gross) <= 0 => delta_freq(c, d, gross) <= 0
           /\ gross >= 0 /\ Delta(c, d, gross) >= 0 => delta_freq(c, d, gross) >= 0
<1> DEFINE crit == 5 * Unit
           den == Den(c, d)
           delta == Delta(c, d, gross)
           num == 6 * gross * den + crit * delta
           sign == IF den > 0 THEN 1 ELSE -1
           a == sign * (2 * num + 60 * Scale * den)
           b == sign * 120 * Scale * den
<1>0. delta_freq(c, d, gross) = Truncated(a, b)
  BY DEF delta_freq
<1>1. crit \in Int /\ crit > 0
  <2>1. Unit \in Nat \ {0} BY PhaseAssumption DEF Unit
  <2> QED BY <2>1
<1> HIDE DEF crit
<1>2. den \in Int /\ den > 0 /\ sign = 1
  BY DenIs
<1> HIDE DEF den, sign
<1>3. delta \in Int
  BY DeltaIs
<1> HIDE DEF delta
<1>4. /\ num \in Int
      /\ gross <= 0 /\ delta <= 0 => num <= 0
      /\ gross >= 0 /\ delta >= 0 => num >= 0
  <2>1. /\ gross * den \in Int /\ crit * delta \in Int
        /\ gross <= 0 => gross * den <= 0
        /\ gross >= 0 => gross * den >= 0
        /\ delta <= 0 => crit * delta <= 0
        /\ delta >= 0 => crit * delta >= 0
    BY <1>1, <1>2, <1>3, ProductSign
  <2>2. num = 6 * (gross * den) + crit * delta
    BY <1>1, <1>2, <1>3
  <2> HIDE DEF num
  <2> QED BY <2>1, <2>2
<1> HIDE DEF num
<1>5. /\ Scale * den \in Int /\ Scale * den > 0
      /\ a = 2 * num + 60 * (Scale * den) /\ b = 120 * (Scale * den)
  <2>1. Scale \in Int /\ Scale > 0 BY PhaseAssumption
  <2>2. Scale * den \in Int /\ Scale * den > 0 BY <1>2, <2>1, ProductSign
  <2> QED BY <1>2, <1>4, <2>1, <2>2
<1> HIDE DEF a, b
<1>6. /\ a \in Int /\ b \in Int /\ b > 0
      /\ num <= 0 => a < b
      /\ num >= 0 => a >= 0
  BY <1>4, <1>5
<1> QED BY <1>0, <1>4, <1>6, TruncatedIs DEF delta

-----------------------------------------------------------------------------
(***************************************************************************)
(* The ring.                                                               *)
(***************************************************************************)

\* A line shifted by r or more is at least r beyond the target.
LEMMA ShiftNeeds ==
    ASSUME NEW a \in Int, NEW b \in Int, NEW r \in Int, r > 0, find_shift(a, b) >= r
    PROVE  10 * a - 10 * b >= r
<1>1. Unit \in Int
  BY PhaseAssumption DEF Unit
<1>2. LET x == 10 * a - 10 * b
          y == 10 * a + 3 * Unit - b
          m == IF x <= y THEN x ELSE y
      IN  find_shift(a, b) = IF m <= 0 THEN 0 ELSE m
  BY FindShift
<1> QED BY <1>1, <1>2

\* Never is there a shift from both sides; and the step of the frequency,
\* whatever find_df_center() adds, does not go the other way than the
\* shift.
LEMMA Steering ==
    ASSUME NEW e, Shape(e.at, e.max, e.min), Proper(e), e.at[RING_SIZE] = 0,
           NEW c \in MinCrossings(e, maxseg(e)), NEW d \in MaxCrossings(e, minseg(e)),
           NEW p, p = polygon(Corners(maxseg(e), minseg(e), c, d))
    PROVE  /\ p \in [l_min : Nat, r_min : Nat]
           /\ p.l_min = 0 \/ p.r_min = 0
           /\ delta_freq(c, d, find_df(p)) \in Int
           /\ p.r_min > 0 => delta_freq(c, d, find_df(p)) <= 0
           /\ p.l_min > 0 => delta_freq(c, d, find_df(p)) >= 0
<1>1. /\ c.slope \in Int /\ c.offset \in Int /\ d.slope \in Int /\ d.offset \in Int
      /\ c.slope < d.slope /\ c.offset <= d.offset
  BY BoxLines
<1> DEFINE L == find_shift(-d.slope, d.offset)
           R == find_shift(c.slope, -c.offset)
<1>2. /\ p = [l_min |-> Capped(L), r_min |-> Capped(R)]
      /\ L \in Nat /\ L <= find_shift(-c.slope, c.offset)
      /\ R \in Nat /\ R <= find_shift(d.slope, -d.offset)
  BY ExtremesDecide
<1>3. L > 0 => -10 * c.slope - 10 * c.offset >= L /\ -10 * d.slope - 10 * d.offset >= L
  <2> SUFFICES ASSUME L > 0
               PROVE  -10 * c.slope - 10 * c.offset >= L /\ -10 * d.slope - 10 * d.offset >= L
    OBVIOUS
  <2>1. -c.slope \in Int /\ -d.slope \in Int BY <1>1
  <2>2. find_shift(-d.slope, d.offset) >= L /\ find_shift(-c.slope, c.offset) >= L
    BY <1>2
  <2> HIDE DEF L
  <2>3. 10 * (-c.slope) - 10 * c.offset >= L /\ 10 * (-d.slope) - 10 * d.offset >= L
    BY <1>1, <1>2, <2>1, <2>2, ShiftNeeds
  <2> QED BY <1>1, <2>3
<1>4. R > 0 => 10 * c.slope + 10 * c.offset >= R /\ 10 * d.slope + 10 * d.offset >= R
  <2> SUFFICES ASSUME R > 0
               PROVE  10 * c.slope + 10 * c.offset >= R /\ 10 * d.slope + 10 * d.offset >= R
    OBVIOUS
  <2>1. -c.offset \in Int /\ -d.offset \in Int BY <1>1
  <2>2. find_shift(c.slope, -c.offset) >= R /\ find_shift(d.slope, -d.offset) >= R
    BY <1>2
  <2> HIDE DEF R
  <2>3. 10 * c.slope - 10 * (-c.offset) >= R /\ 10 * d.slope - 10 * (-d.offset) >= R
    BY <1>1, <1>2, <2>1, <2>2, ShiftNeeds
  <2> QED BY <1>1, <2>3
<1> HIDE DEF L, R
<1>5. /\ Capped(L) \in Nat /\ Capped(L) <= L /\ (Capped(L) = 0 <=> L = 0)
      /\ Capped(R) \in Nat /\ Capped(R) <= R /\ (Capped(R) = 0 <=> R = 0)
  BY <1>2, CappedIs
<1>6. L = 0 \/ R = 0
  BY <1>1, <1>2, <1>3, <1>4
<1>7. p \in [l_min : Nat, r_min : Nat] /\ p.l_min = Capped(L) /\ p.r_min = Capped(R)
  BY <1>2, <1>5
<1>8. find_df(p) = IF p.l_min = 0 THEN -p.r_min ELSE p.l_min
  BY <1>5, <1>6, <1>7 DEF find_df
<1>9. delta_freq(c, d, find_df(p)) \in Int
  <2>1. find_df(p) \in Int BY <1>5, <1>7, <1>8
  <2> QED BY <1>1, <2>1, DeltaFreq
<1>10. ASSUME p.r_min > 0  PROVE delta_freq(c, d, find_df(p)) <= 0
  <2> DEFINE r == p.r_min
  <2>1. find_df(p) = -r BY <1>5, <1>6, <1>7, <1>8, <1>10
  <2>2. r \in Nat /\ 10 * c.slope + 10 * c.offset >= r /\ 10 * d.slope + 10 * d.offset >= r
    BY <1>1, <1>2, <1>4, <1>5, <1>7, <1>10
  <2> HIDE DEF r
  <2>3. Delta(c, d, -r) <= 0 BY <1>1, <2>2, DeltaFalls
  <2>4. -r \in Int /\ -r <= 0 BY <2>2
  <2>5. delta_freq(c, d, -r) <= 0 BY <1>1, <2>3, <2>4, DeltaFreq
  <2> QED BY <2>1, <2>5
<1>11. ASSUME p.l_min > 0  PROVE delta_freq(c, d, find_df(p)) >= 0
  <2> DEFINE r == p.l_min
  <2>1. find_df(p) = r BY <1>5, <1>7, <1>8, <1>11
  <2>2. r \in Nat /\ -10 * c.slope - 10 * c.offset >= r /\ -10 * d.slope - 10 * d.offset >= r
    BY <1>1, <1>2, <1>3, <1>5, <1>7, <1>11
  <2> HIDE DEF r
  <2>3. Delta(c, d, r) >= 0 BY <1>1, <2>2, DeltaRises
  <2>5. delta_freq(c, d, r) >= 0 BY <1>1, <2>2, <2>3, DeltaFreq
  <2> QED BY <2>1, <2>5
<1> QED BY <1>5, <1>6, <1>7, <1>9, <1>10, <1>11

\* The ring: the newest entry is at time 0, and any two entries are 1 to
\* MaxGap apart for every step between them.
Ring(w) ==
    /\ w \in Seq(Data) /\ Len(w) <= RING_SIZE
    /\ Len(w) > 0 => w[Len(w)].absolute = 0
    /\ \A i, j \in 1..Len(w) : i < j => Apart(w, i, j) \in 1 .. (j - i) * MaxGap

\* A new measurement is appended, the oldest dropped when the ring is
\* full, and all the others are aged.
LEMMA StoredIs ==
    ASSUME NEW ring \in Seq(Data), Len(ring) <= RING_SIZE, NEW d \in Data
    PROVE  LET s == Stored(ring, d)
               k == IF Len(ring) = RING_SIZE THEN 1 ELSE 0
           IN  /\ s \in Seq(Data)
               /\ Len(s) = Len(ring) + 1 - k /\ Len(s) <= RING_SIZE
               /\ s[Len(s)] = [d EXCEPT !.absolute = 0]
               /\ \A i \in 1 .. Len(s) - 1 : /\ i + k \in 1..Len(ring)
                     /\ s[i] = [ring[i + k] EXCEPT !.absolute = @ - d.absolute]
<1> DEFINE aged == [i \in 1..Len(ring) |-> [ring[i] EXCEPT !.absolute = @ - d.absolute]]
           last == [d EXCEPT !.absolute = 0]
           old == IF Len(ring) = RING_SIZE THEN Tail(aged) ELSE aged
<1>1. last \in Data
  BY DEF Data
<1>2. aged \in Seq(Data) /\ Len(aged) = Len(ring)
  <2>1. \A i \in 1..Len(ring) : [ring[i] EXCEPT !.absolute = @ - d.absolute] \in Data
    <3> SUFFICES ASSUME NEW i \in 1..Len(ring)
                 PROVE  [ring[i] EXCEPT !.absolute = @ - d.absolute] \in Data
      OBVIOUS
    <3>1. ring[i] \in Data OBVIOUS
    <3>2. ring[i].absolute - d.absolute \in Int BY <3>1 DEF Data
    <3> QED BY <3>1, <3>2 DEF Data
  <2> QED BY <2>1
<1>3. Stored(ring, d) = Append(old, last)
  BY DEF Stored
<1>4. \A i \in 1..Len(ring) : aged[i] = [ring[i] EXCEPT !.absolute = @ - d.absolute]
  OBVIOUS
<1> HIDE DEF aged, last
<1>5. CASE Len(ring) = RING_SIZE
  <2>1. old = Tail(aged) BY <1>5
  <2>2. old \in Seq(Data) /\ Len(old) = RING_SIZE - 1 /\ \A i \in 1 .. RING_SIZE - 1 : old[i] = aged[i + 1]
    BY <1>2, <1>5, <2>1, Size
  <2> HIDE DEF old
  <2>3. /\ Append(old, last) \in Seq(Data) /\ Len(Append(old, last)) = RING_SIZE
        /\ Append(old, last)[RING_SIZE] = last
        /\ \A i \in 1 .. RING_SIZE - 1 : Append(old, last)[i] = old[i]
    BY <1>1, <2>2, Size
  <2> DEFINE s == Stored(ring, d)
  <2>4. /\ s \in Seq(Data) /\ Len(s) = RING_SIZE /\ s[RING_SIZE] = last
        /\ \A i \in 1 .. RING_SIZE - 1 : s[i] = aged[i + 1]
    BY <1>3, <2>2, <2>3
  <2> HIDE DEF s
  <2>5. \A i \in 1 .. RING_SIZE - 1 : i + 1 \in 1..Len(ring) BY <1>5, Size
  <2>6. \A i \in 1 .. RING_SIZE - 1 : /\ i + 1 \in 1..Len(ring)
            /\ s[i] = [ring[i + 1] EXCEPT !.absolute = @ - d.absolute]
    BY <1>4, <2>4, <2>5
  <2>7. RING_SIZE + 1 - 1 = RING_SIZE BY Size
  <2> QED BY <1>5, <2>4, <2>6, <2>7, Size DEF last, s
<1>6. CASE Len(ring) # RING_SIZE
  <2>1. old = aged BY <1>6
  <2>2. Len(ring) \in Nat OBVIOUS
  <2>3. /\ Append(aged, last) \in Seq(Data) /\ Len(Append(aged, last)) = Len(ring) + 1
        /\ Append(aged, last)[Len(ring) + 1] = last
        /\ \A i \in 1..Len(ring) : Append(aged, last)[i] = aged[i]
    BY <1>1, <1>2
  <2> HIDE DEF old
  <2> DEFINE s == Stored(ring, d)
  <2>4. /\ s \in Seq(Data) /\ Len(s) = Len(ring) + 1 /\ s[Len(ring) + 1] = last
        /\ \A i \in 1..Len(ring) : s[i] = aged[i]
    BY <1>3, <2>1, <2>3
  <2>5. Len(ring) + 1 <= RING_SIZE BY <1>6, <2>2, Size
  <2> HIDE DEF s
  <2>6. \A i \in 1 .. Len(s) - 1 : i \in 1..Len(ring) /\ i + 0 = i BY <2>2, <2>4
  <2>7. \A i \in 1 .. Len(s) - 1 : /\ i + 0 \in 1..Len(ring)
                                  /\ s[i] = [ring[i + 0] EXCEPT !.absolute = @ - d.absolute]
    BY <1>4, <2>4, <2>6
  <2> QED BY <1>6, <2>2, <2>4, <2>5, <2>7 DEF last, s
<1> QED BY <1>5, <1>6

\* The entries keep all but their times, and their distances.
LEMMA Moved ==
    ASSUME NEW ring, Ring(ring), NEW d \in Data,
           NEW s, s = Stored(ring, d),
           NEW k, k = IF Len(ring) = RING_SIZE THEN 1 ELSE 0
    PROVE  /\ s \in Seq(Data) /\ Len(s) \in 1..RING_SIZE /\ Len(ring) \in Nat
           /\ k \in {0, 1} /\ Len(s) = Len(ring) + 1 - k
           /\ s[Len(s)] \in Data /\ s[Len(s)].absolute = 0 /\ s[Len(s)].skew = d.skew
           /\ s[Len(s)].errorbar = d.errorbar /\ s[Len(s)].freq = d.freq
           /\ \A i \in 1 .. Len(s) - 1 :
                 /\ i + k \in 1..Len(ring) /\ ring[i + k] \in Data /\ s[i] \in Data
                 /\ s[i].absolute = ring[i + k].absolute - d.absolute
                 /\ s[i].skew = ring[i + k].skew /\ s[i].errorbar = ring[i + k].errorbar
                 /\ s[i].freq = ring[i + k].freq
                 /\ Apart(s, i, Len(s)) = d.absolute + Apart(ring, i + k, Len(ring))
                 /\ \A j \in 1 .. Len(s) - 1 : Apart(s, i, j) = Apart(ring, i + k, j + k)
<1>1. ring \in Seq(Data) /\ Len(ring) <= RING_SIZE BY DEF Ring
<1>2. Len(ring) \in Nat BY <1>1
<1>3. /\ s \in Seq(Data)
      /\ Len(s) = Len(ring) + 1 - k /\ Len(s) <= RING_SIZE
      /\ s[Len(s)] = [d EXCEPT !.absolute = 0]
      /\ \A i \in 1 .. Len(s) - 1 : /\ i + k \in 1..Len(ring)
            /\ s[i] = [ring[i + k] EXCEPT !.absolute = @ - d.absolute]
  <2>1. LET z == Stored(ring, d)
            y == IF Len(ring) = RING_SIZE THEN 1 ELSE 0
        IN  /\ z \in Seq(Data)
            /\ Len(z) = Len(ring) + 1 - y /\ Len(z) <= RING_SIZE
            /\ z[Len(z)] = [d EXCEPT !.absolute = 0]
            /\ \A i \in 1 .. Len(z) - 1 : /\ i + y \in 1..Len(ring)
                  /\ z[i] = [ring[i + y] EXCEPT !.absolute = @ - d.absolute]
    BY <1>1, StoredIs
  <2> QED BY <2>1
<1>4. k \in {0, 1} /\ (k = 1 => Len(ring) >= 2) BY Size
<1>5. Len(s) \in 1..RING_SIZE BY <1>2, <1>3, <1>4, Size
<1>6. /\ s[Len(s)] \in Data /\ s[Len(s)].absolute = 0 /\ s[Len(s)].skew = d.skew
      /\ s[Len(s)].errorbar = d.errorbar /\ s[Len(s)].freq = d.freq
  BY <1>3 DEF Data
<1>7. d.absolute \in Int BY DEF Data
<1>8. \A i \in 1 .. Len(s) - 1 :
         /\ i + k \in 1..Len(ring) /\ ring[i + k] \in Data /\ s[i] \in Data
         /\ s[i].absolute = ring[i + k].absolute - d.absolute
         /\ s[i].skew = ring[i + k].skew /\ s[i].errorbar = ring[i + k].errorbar
         /\ s[i].freq = ring[i + k].freq
  <2> SUFFICES ASSUME NEW i \in 1 .. Len(s) - 1
               PROVE  /\ i + k \in 1..Len(ring) /\ ring[i + k] \in Data /\ s[i] \in Data
                      /\ s[i].absolute = ring[i + k].absolute - d.absolute
                      /\ s[i].skew = ring[i + k].skew
                      /\ s[i].errorbar = ring[i + k].errorbar
                      /\ s[i].freq = ring[i + k].freq
    OBVIOUS
  <2>1. i + k \in 1..Len(ring) BY <1>3
  <2>2. ring[i + k] \in Data BY <1>1, <2>1
  <2>3. s[i] = [ring[i + k] EXCEPT !.absolute = @ - d.absolute] BY <1>3
  <2>4. ring[i + k].absolute - d.absolute \in Int BY <1>7, <2>2 DEF Data
  <2> QED BY <2>1, <2>2, <2>3, <2>4 DEF Data
<1>9. Len(s) > 1 => Len(ring) >= 1 /\ ring[Len(ring)].absolute = 0
  <2>1. Len(s) > 1 => Len(ring) > 0 BY <1>2, <1>3, <1>4
  <2> QED BY <1>2, <2>1 DEF Ring
<1>10. ASSUME NEW i \in 1 .. Len(s) - 1
       PROVE  /\ Apart(s, i, Len(s)) = d.absolute + Apart(ring, i + k, Len(ring))
              /\ \A j \in 1 .. Len(s) - 1 : Apart(s, i, j) = Apart(ring, i + k, j + k)
  <2>1. s[i].absolute = ring[i + k].absolute - d.absolute /\ ring[i + k].absolute \in Int
    BY <1>8 DEF Data
  <2>2. ring[Len(ring)].absolute = 0 BY <1>5, <1>9
  <2>3. Apart(s, i, Len(s)) = d.absolute + Apart(ring, i + k, Len(ring))
    BY <1>6, <1>7, <2>1, <2>2 DEF Apart
  <2>4. ASSUME NEW j \in 1 .. Len(s) - 1
        PROVE  Apart(s, i, j) = Apart(ring, i + k, j + k)
    <3>1. s[j].absolute = ring[j + k].absolute - d.absolute /\ ring[j + k].absolute \in Int
      BY <1>8 DEF Data
    <3> QED BY <1>7, <2>1, <3>1 DEF Apart
  <2> QED BY <2>3, <2>4
<1> QED BY <1>2, <1>3, <1>4, <1>5, <1>6, <1>8, <1>10

\* Multiples of MaxGap.
LEMMA Times ==
    ASSUME NEW a \in Int
    PROVE  /\ a * MaxGap \in Int /\ (a + 1) * MaxGap = a * MaxGap + MaxGap
           /\ 1 * MaxGap = MaxGap /\ MaxGap \in Nat /\ MaxGap > 0
           /\ \A b \in Int : a <= b => a * MaxGap <= b * MaxGap
<1>1. MaxGap \in Nat /\ MaxGap > 0 BY PhaseAssumption
<1>2. a * MaxGap \in Int /\ (a + 1) * MaxGap = a * MaxGap + MaxGap BY <1>1
<1>3. ASSUME NEW b \in Int, a <= b  PROVE a * MaxGap <= b * MaxGap BY <1>1, <1>3
<1> QED BY <1>1, <1>2, <1>3

\* A measurement keeps the ring in order.
LEMMA RingStep ==
    ASSUME NEW ring, Ring(ring), NEW d \in Data,
           d.absolute \in 1..MaxGap
    PROVE  Ring(Stored(ring, d))
<1> DEFINE s == Stored(ring, d)
           k == IF Len(ring) = RING_SIZE THEN 1 ELSE 0
<1>1. /\ s \in Seq(Data) /\ Len(s) \in 1..RING_SIZE /\ Len(ring) \in Nat
      /\ k \in {0, 1} /\ Len(s) = Len(ring) + 1 - k
      /\ s[Len(s)].absolute = 0
      /\ \A i \in 1 .. Len(s) - 1 :
            /\ i + k \in 1..Len(ring)
            /\ Apart(s, i, Len(s)) = d.absolute + Apart(ring, i + k, Len(ring))
            /\ \A j \in 1 .. Len(s) - 1 : Apart(s, i, j) = Apart(ring, i + k, j + k)
  BY Moved
<1>2. /\ \A i, j \in 1..Len(ring) : i < j => Apart(ring, i, j) \in 1 .. (j - i) * MaxGap
      /\ Len(ring) > 0 => ring[Len(ring)].absolute = 0
  BY DEF Ring
<1> HIDE DEF s, k
<1>4. ASSUME NEW i \in 1..Len(s), NEW j \in 1..Len(s), i < j
      PROVE  Apart(s, i, j) \in 1 .. (j - i) * MaxGap
  <2>1. i \in 1 .. Len(s) - 1 /\ i + k \in 1..Len(ring) /\ j - i \in Int BY <1>1, <1>4
  <2>2. CASE j = Len(s)
    <3>1. Apart(s, i, j) = d.absolute + Apart(ring, i + k, Len(ring)) BY <1>1, <2>1, <2>2
    <3>2. d.absolute \in Nat /\ d.absolute >= 1 /\ d.absolute <= MaxGap /\ MaxGap \in Nat
      BY PhaseAssumption
    <3>3. CASE i + k = Len(ring)
      <4>1. Apart(ring, i + k, Len(ring)) = 0
        <5>1. ring[Len(ring)].absolute = 0 BY <1>1, <1>2, <2>1
        <5> QED BY <3>3, <5>1 DEF Apart
      <4>2. j - i = 1 BY <1>1, <2>1, <2>2, <3>3
      <4> QED BY <3>1, <3>2, <4>1, <4>2, Times
    <3>4. CASE i + k # Len(ring)
      <4> DEFINE a == Len(ring) - (i + k)
      <4>1. a \in Int /\ i + k < Len(ring) /\ Len(ring) \in 1..Len(ring) /\ j - i = a + 1
        BY <1>1, <2>1, <2>2, <3>4
      <4>2. Apart(ring, i + k, Len(ring)) \in 1 .. a * MaxGap BY <1>2, <2>1, <4>1
      <4> HIDE DEF a
      <4>3. a * MaxGap \in Int /\ (a + 1) * MaxGap = a * MaxGap + MaxGap BY <4>1, Times
      <4>4. (j - i) * MaxGap = a * MaxGap + MaxGap BY <4>1, <4>3
      <4> QED BY <3>1, <3>2, <4>2, <4>3, <4>4
    <3> QED BY <3>3, <3>4
  <2>3. CASE j \in 1 .. Len(s) - 1
    <3>1. Apart(s, i, j) = Apart(ring, i + k, j + k) /\ j + k \in 1..Len(ring)
      BY <1>1, <2>1, <2>3
    <3>2. i + k < j + k /\ (j + k) - (i + k) = j - i BY <1>1, <1>4
    <3>3. Apart(ring, i + k, j + k) \in 1 .. ((j + k) - (i + k)) * MaxGap
      BY <1>2, <2>1, <3>1, <3>2
    <3> QED BY <3>1, <3>2, <3>3
  <2> QED BY <1>1, <2>2, <2>3
<1>5. Ring(s)
  <2>1. Len(s) <= RING_SIZE /\ (Len(s) > 0 => s[Len(s)].absolute = 0) BY <1>1, Size
  <2> QED BY <1>1, <1>4, <2>1 DEF Ring
<1> QED BY <1>5 DEF s

\* A full ring, entry by entry.
LEMMA Whole ==
    ASSUME NEW w, Ring(w), Len(w) = RING_SIZE
    PROVE  /\ w \in Seq(Data) /\ w[RING_SIZE].absolute = 0
           /\ \A j \in 1..RING_SIZE : w[j] \in Data /\ w[j].errorbar \in Int
           /\ \A j \in 1..RING_SIZE : w[j].absolute \in Int /\ w[j].freq \in Int
           /\ \A j \in 1..RING_SIZE : w[j].skew \in Int
           /\ \A i, j \in 1..RING_SIZE : i < j => Apart(w, i, j) \in 1 .. (j - i) * MaxGap
<1>1. /\ w \in Seq(Data) /\ w[RING_SIZE].absolute = 0
      /\ \A i, j \in 1..RING_SIZE : i < j => Apart(w, i, j) \in 1 .. (j - i) * MaxGap
  BY Size DEF Ring
<1>2. \A j \in 1..RING_SIZE : w[j] \in Data BY <1>1
<1> QED BY <1>1, <1>2 DEF Data

\* All distances dividing Scale, the lines are exact.
LEMMA GridOf ==
    ASSUME NEW at \in Curve, NEW p \in Curve, NEW q \in Curve,
           NEW from, from = [j \in 1..RING_SIZE |-> Scale * p[j]],
           NEW to, to = [j \in 1..RING_SIZE |-> Scale * q[j]],
           \A i, j \in 1..RING_SIZE : i < j => at[j] - at[i] \in 1 .. (RING_SIZE - 1) * MaxGap
    PROVE  Grid(at, from, to)
<1> SUFFICES ASSUME NEW j \in 1..RING_SIZE, NEW n \in 1..RING_SIZE, j < n
             PROVE  \E m \in Int : to[n] - from[j] = (at[n] - at[j]) * m
  BY DEF Grid
<1> DEFINE d == at[n] - at[j]
           c == Scale \div d
           x == q[n]
           y == p[j]
<1>1. d \in 1 .. (RING_SIZE - 1) * MaxGap OBVIOUS
<1>2. d * c = Scale BY <1>1, PhaseAssumption
<1>3. to[n] = Scale * x /\ from[j] = Scale * y OBVIOUS
<1>4. x \in Int /\ y \in Int BY DEF Curve
<1>5. c \in Int
  <2>1. d \in Nat \ {0} BY <1>1
  <2>2. Scale \in Nat BY PhaseAssumption
  <2> HIDE DEF d
  <2> QED BY <2>1, <2>2
<1>6. d \in Int BY DEF Curve
<1> HIDE DEF d, c, x, y
<1>7. to[n] - from[j] = d * (c * (x - y)) /\ c * (x - y) \in Int
  <2>1. to[n] - from[j] = (d * c) * x - (d * c) * y BY <1>2, <1>3
  <2>2. (d * c) * x - (d * c) * y = d * (c * (x - y)) BY <1>4, <1>5, <1>6
  <2> QED BY <1>4, <1>5, <2>1, <2>2
<1> QED BY <1>7 DEF d

\* The intervals of a full ring have the shape the passes rely on.
LEMMA EnvelopeShape ==
    ASSUME NEW w, Ring(w), Len(w) = RING_SIZE
    PROVE  LET e == Envelope(w)
           IN  /\ Shape(e.at, e.max, e.min) /\ e.at[RING_SIZE] = 0
               /\ \A j \in 1..RING_SIZE : /\ Cum(w)[j] \in Int
                     /\ e.at[j] = w[j].absolute
                     /\ e.max[j] = Scale * (w[j].skew - Cum(w)[j] + w[j].errorbar)
                     /\ e.min[j] = Scale * (w[j].skew - Cum(w)[j] - w[j].errorbar)
               /\ (\A j \in 1..RING_SIZE : w[j].errorbar >= 0) => Proper(e)
<1>1. /\ w \in Seq(Data) /\ w[RING_SIZE].absolute = 0
      /\ \A j \in 1..RING_SIZE : w[j] \in Data /\ w[j].errorbar \in Int
      /\ \A j \in 1..RING_SIZE : w[j].absolute \in Int /\ w[j].freq \in Int
      /\ \A j \in 1..RING_SIZE : w[j].skew \in Int
      /\ \A i, j \in 1..RING_SIZE : i < j => Apart(w, i, j) \in 1 .. (j - i) * MaxGap
  BY Whole
<1> DEFINE cum == Cum(w)
           e == Envelope(w)
           hi == [j \in 1..RING_SIZE |-> w[j].skew - cum[j] + w[j].errorbar]
           lo == [j \in 1..RING_SIZE |-> w[j].skew - cum[j] - w[j].errorbar]
<1>2. cum \in [1..RING_SIZE -> Int] BY <1>1, CumDef
<1>3. /\ e.at = [j \in 1..RING_SIZE |-> w[j].absolute]
      /\ e.max = [j \in 1..RING_SIZE |-> Scale * (w[j].skew - cum[j] + w[j].errorbar)]
      /\ e.min = [j \in 1..RING_SIZE |-> Scale * (w[j].skew - cum[j] - w[j].errorbar)]
  BY DEF Envelope
<1> HIDE DEF cum, e
<1>4. hi \in Curve /\ lo \in Curve BY <1>1, <1>2 DEF Curve
<1>5. /\ e.max = [j \in 1..RING_SIZE |-> Scale * hi[j]]
      /\ e.min = [j \in 1..RING_SIZE |-> Scale * lo[j]]
  <2>1. \A j \in 1..RING_SIZE : /\ hi[j] = w[j].skew - cum[j] + w[j].errorbar
                               /\ lo[j] = w[j].skew - cum[j] - w[j].errorbar
    OBVIOUS
  <2> HIDE DEF hi, lo
  <2> QED BY <1>3, <2>1
<1>6. \A j \in 1..RING_SIZE : w[j].errorbar >= 0 => lo[j] <= hi[j]
  <2> SUFFICES ASSUME NEW j \in 1..RING_SIZE, w[j].errorbar >= 0  PROVE lo[j] <= hi[j]
    OBVIOUS
  <2>1. hi[j] = w[j].skew - cum[j] + w[j].errorbar /\ lo[j] = w[j].skew - cum[j] - w[j].errorbar
    OBVIOUS
  <2>2. w[j].skew \in Int /\ cum[j] \in Int /\ w[j].errorbar \in Int BY <1>1, <1>2
  <2> HIDE DEF hi, lo
  <2> QED BY <2>1, <2>2
<1> HIDE DEF hi, lo
<1>7. e.at \in Curve BY <1>1, <1>3 DEF Curve
<1>8. \A i, j \in 1..RING_SIZE : i < j => e.at[j] - e.at[i] \in 1 .. (RING_SIZE - 1) * MaxGap
  <2> SUFFICES ASSUME NEW i \in 1..RING_SIZE, NEW j \in 1..RING_SIZE, i < j
               PROVE  e.at[j] - e.at[i] \in 1 .. (RING_SIZE - 1) * MaxGap
    OBVIOUS
  <2>1. e.at[j] - e.at[i] = Apart(w, i, j) BY <1>3 DEF Apart
  <2>2. Apart(w, i, j) \in 1 .. (j - i) * MaxGap BY <1>1
  <2>3. j - i \in Int /\ RING_SIZE - 1 \in Int /\ j - i <= RING_SIZE - 1 BY Size
  <2>4. (j - i) * MaxGap <= (RING_SIZE - 1) * MaxGap BY <2>3, Times
  <2>5. (j - i) * MaxGap \in Int /\ (RING_SIZE - 1) * MaxGap \in Int BY <2>3, Times
  <2> QED BY <2>1, <2>2, <2>4, <2>5
<1>9. Rising(e.at)
  <2> SUFFICES ASSUME NEW i \in 1..RING_SIZE, NEW j \in 1..RING_SIZE, i < j
               PROVE  e.at[i] < e.at[j]
    BY <1>7 DEF Rising
  <2>1. e.at[i] \in Int /\ e.at[j] \in Int BY <1>7 DEF Curve
  <2>2. e.at[j] - e.at[i] >= 1 BY <1>8
  <2> QED BY <2>1, <2>2
<1>10. Scale \in Nat BY PhaseAssumption
<1>11. e.max \in Curve /\ e.min \in Curve BY <1>4, <1>5, <1>10 DEF Curve
<1>12. \A j \in 1..RING_SIZE : w[j].errorbar >= 0 => e.min[j] <= e.max[j]
  <2> SUFFICES ASSUME NEW j \in 1..RING_SIZE, w[j].errorbar >= 0  PROVE e.min[j] <= e.max[j]
    OBVIOUS
  <2>1. e.max[j] = Scale * hi[j] /\ e.min[j] = Scale * lo[j] BY <1>5
  <2>2. hi[j] \in Int /\ lo[j] \in Int /\ lo[j] <= hi[j] BY <1>4, <1>6 DEF Curve
  <2> QED BY <1>10, <2>1, <2>2
<1>13. \A from, to \in {e.max, e.min} : Grid(e.at, from, to)
  <2>1. Grid(e.at, e.max, e.max) BY <1>4, <1>5, <1>7, <1>8, GridOf
  <2>2. Grid(e.at, e.max, e.min) BY <1>4, <1>5, <1>7, <1>8, GridOf
  <2>3. Grid(e.at, e.min, e.max) BY <1>4, <1>5, <1>7, <1>8, GridOf
  <2>4. Grid(e.at, e.min, e.min) BY <1>4, <1>5, <1>7, <1>8, GridOf
  <2> QED BY <2>1, <2>2, <2>3, <2>4
<1>14. Shape(e.at, e.max, e.min) BY <1>9, <1>11, <1>13 DEF Shape
<1>15. e.at[RING_SIZE] = 0 BY <1>1, <1>3, Size
<1>16. \A j \in 1..RING_SIZE : cum[j] \in Int BY <1>2
<1>17. \A j \in 1..RING_SIZE : /\ e.at[j] = w[j].absolute
                     /\ e.max[j] = Scale * (w[j].skew - cum[j] + w[j].errorbar)
                     /\ e.min[j] = Scale * (w[j].skew - cum[j] - w[j].errorbar)
  BY <1>3
<1>18. (\A j \in 1..RING_SIZE : w[j].errorbar >= 0) => Proper(e)
  BY <1>12 DEF Proper
<1> QED BY <1>14, <1>15, <1>16, <1>17, <1>18 DEF e, cum

-----------------------------------------------------------------------------
(***************************************************************************)
(* Measurements within their bars (TruthInBox).                            *)
(***************************************************************************)

\* The latest h measurements held the true skew x of their time, and the
\* skew went from one to the next at the rate of the host, corrected by
\* the frequency of the interval between them; now it is now.
Held(ring, h, now, rate) ==
    /\ h \in 0..Len(ring)
    /\ \E x \in [1..Len(ring) -> Int] :
          /\ h > 0 => x[Len(ring)] = now
          /\ \A i \in Len(ring) - h + 1 .. Len(ring) :
                -ring[i].errorbar < ring[i].skew - x[i] /\ ring[i].skew - x[i] < ring[i].errorbar
          /\ \A i \in Len(ring) - h + 1 .. Len(ring) - 1 :
                x[i] = x[i + 1] + Apart(ring, i, i + 1) * (rate + ring[i + 1].freq)

\* A measurement within its bar continues such a stretch.
LEMMA HeldStep ==
    ASSUME NEW ring, Ring(ring), NEW rate \in Int, NEW now \in Int,
           NEW h, Held(ring, h, now, rate),
           NEW d \in Data,
           NEW then, then = now - d.absolute * (rate + d.freq), then \in Int,
           -d.errorbar < d.skew - then, d.skew - then < d.errorbar
    PROVE  Held(Stored(ring, d), IF RING_SIZE <= h + 1 THEN RING_SIZE ELSE h + 1, then, rate)
<1> DEFINE s == Stored(ring, d)
           k == IF Len(ring) = RING_SIZE THEN 1 ELSE 0
           m == Len(s)
           g == IF RING_SIZE <= h + 1 THEN RING_SIZE ELSE h + 1
<1>1. /\ s \in Seq(Data) /\ m \in 1..RING_SIZE /\ Len(ring) \in Nat
      /\ k \in {0, 1} /\ m = Len(ring) + 1 - k
      /\ s[m].skew = d.skew /\ s[m].errorbar = d.errorbar /\ s[m].freq = d.freq
      /\ \A i \in 1 .. m - 1 :
            /\ i + k \in 1..Len(ring)
            /\ s[i].skew = ring[i + k].skew /\ s[i].errorbar = ring[i + k].errorbar
            /\ s[i].freq = ring[i + k].freq
            /\ Apart(s, i, m) = d.absolute + Apart(ring, i + k, Len(ring))
            /\ \A j \in 1 .. m - 1 : Apart(s, i, j) = Apart(ring, i + k, j + k)
  <2> HIDE DEF s, k
  <2>1. s = Stored(ring, d) BY DEF s
  <2>2. k = IF Len(ring) = RING_SIZE THEN 1 ELSE 0 BY DEF k
  <2>3. /\ s \in Seq(Data) /\ Len(s) \in 1..RING_SIZE /\ Len(ring) \in Nat
        /\ k \in {0, 1} /\ Len(s) = Len(ring) + 1 - k
        /\ s[Len(s)].skew = d.skew /\ s[Len(s)].errorbar = d.errorbar
        /\ s[Len(s)].freq = d.freq
        /\ \A i \in 1 .. Len(s) - 1 :
              /\ i + k \in 1..Len(ring)
              /\ s[i].skew = ring[i + k].skew /\ s[i].errorbar = ring[i + k].errorbar
              /\ s[i].freq = ring[i + k].freq
              /\ Apart(s, i, Len(s)) = d.absolute + Apart(ring, i + k, Len(ring))
              /\ \A j \in 1 .. Len(s) - 1 : Apart(s, i, j) = Apart(ring, i + k, j + k)
    BY <2>1, <2>2, Moved
  <2> QED BY <2>3
<1>2. h \in Nat /\ h <= Len(ring) /\ Len(ring) <= RING_SIZE BY DEF Held, Ring
<1>3. g \in 1..m /\ g <= h + 1 BY <1>1, <1>2, Size
<1>4. Len(ring) > 0 => ring[Len(ring)].absolute = 0
  BY DEF Ring
<1>5. PICK x \in [1..Len(ring) -> Int] :
          /\ h > 0 => x[Len(ring)] = now
          /\ \A i \in Len(ring) - h + 1 .. Len(ring) :
                -ring[i].errorbar < ring[i].skew - x[i] /\ ring[i].skew - x[i] < ring[i].errorbar
          /\ \A i \in Len(ring) - h + 1 .. Len(ring) - 1 :
                x[i] = x[i + 1] + Apart(ring, i, i + 1) * (rate + ring[i + 1].freq)
  BY DEF Held
<1> DEFINE z == [i \in 1..m |-> IF i = m THEN then ELSE x[i + k]]
<1>6. d.absolute \in Int /\ d.freq \in Int BY DEF Data
<1> HIDE DEF s, k, m, g
<1>7. z \in [1..m -> Int] BY <1>1
<1>8. z[m] = then /\ \A i \in 1 .. m - 1 : z[i] = x[i + k] BY <1>1
<1> HIDE DEF z
<1>9. \A i \in m - g + 1 .. m - 1 :
         i \in 1 .. m - 1 /\ i + k \in Len(ring) - h + 1 .. Len(ring) /\ h > 0
  <2> SUFFICES ASSUME NEW i \in m - g + 1 .. m - 1
               PROVE  i \in 1 .. m - 1 /\ i + k \in Len(ring) - h + 1 .. Len(ring) /\ h > 0
    OBVIOUS
  <2>1. g \in Int /\ m \in Int /\ k \in Int /\ h \in Int /\ Len(ring) \in Int
    BY <1>1, <1>2, <1>3
  <2>2. i \in 1 .. m - 1 BY <1>3, <2>1
  <2> QED BY <1>1, <1>2, <1>3, <2>1, <2>2
<1>10. ASSUME NEW i \in m - g + 1 .. m
       PROVE  -s[i].errorbar < s[i].skew - z[i] /\ s[i].skew - z[i] < s[i].errorbar
  <2>1. CASE i = m BY <1>1, <1>8, <2>1
  <2>2. CASE i \in m - g + 1 .. m - 1 BY <1>1, <1>5, <1>8, <1>9, <2>2
  <2> QED BY <1>1, <1>3, <2>1, <2>2
<1>11. ASSUME NEW i \in m - g + 1 .. m - 1
       PROVE  z[i] = z[i + 1] + Apart(s, i, i + 1) * (rate + s[i + 1].freq)
  <2>1. i \in 1 .. m - 1 /\ i + k \in Len(ring) - h + 1 .. Len(ring) /\ h > 0
        /\ i + k \in 1..Len(ring) /\ z[i] = x[i + k]
    BY <1>1, <1>8, <1>9
  <2>2. CASE i + 1 = m
    <3>1. i + k = Len(ring) BY <1>1, <2>1, <2>2
    <3>2. z[i] = now BY <1>5, <2>1, <3>1
    <3>3. z[i + 1] = then /\ s[i + 1].freq = d.freq BY <1>1, <1>8, <2>2
    <3>4. ring[Len(ring)].absolute = 0 BY <1>1, <1>2, <1>4, <2>1
    <3>5. Apart(ring, i + k, Len(ring)) = 0 BY <3>1, <3>4 DEF Apart
    <3>6. Apart(s, i, i + 1) = d.absolute BY <1>1, <1>6, <2>1, <2>2, <3>5
    <3>7. d.absolute * (rate + d.freq) \in Int BY <1>6
    <3> QED BY <3>2, <3>3, <3>6, <3>7
  <2>3. CASE i + 1 # m
    <3>1. i + 1 \in 1 .. m - 1 /\ (i + 1) + k = (i + k) + 1 BY <1>1, <2>1, <2>3
    <3>2. z[i + 1] = x[(i + k) + 1] /\ s[i + 1].freq = ring[(i + k) + 1].freq
      BY <1>1, <1>8, <3>1
    <3>3. Apart(s, i, i + 1) = Apart(ring, i + k, (i + k) + 1) BY <1>1, <2>1, <3>1
    <3>4. i + k \in Len(ring) - h + 1 .. Len(ring) - 1
      BY <1>1, <1>2, <2>1, <3>1
    <3>5. x[i + k] = x[(i + k) + 1]
                + Apart(ring, i + k, (i + k) + 1) * (rate + ring[(i + k) + 1].freq)
      BY <1>5, <3>4
    <3> QED BY <2>1, <3>2, <3>3, <3>5
  <2> QED BY <2>2, <2>3
<1>12. g \in 0..m BY <1>1, <1>3
<1> QED BY <1>7, <1>8, <1>10, <1>11, <1>12 DEF Held, m, s, g

\* The true skew went from each entry of a full ring to the next at the
\* host's rate and the frequency of that interval.
Carried(w, x, rate) ==
    \A i \in 1 .. RING_SIZE - 1 :
        x[i] = x[i + 1] + Apart(w, i, i + 1) * (rate + w[i + 1].freq)

\* Then, corrected as pass 1 corrects the measurements, it lies on one
\* straight line, whatever the frequencies were.
LEMMA TrueLine ==
    ASSUME NEW w, Ring(w), Len(w) = RING_SIZE, NEW rate \in Int, NEW now \in Int,
           NEW x \in [1..RING_SIZE -> Int], x[RING_SIZE] = now, Carried(w, x, rate)
    PROVE  \A j \in 1..RING_SIZE :
               x[j] - Cum(w)[j] = now - w[j].absolute * (rate + w[RING_SIZE].freq)
<1> DEFINE N == RING_SIZE
           f == w[N].freq
           Good == {n \in Nat : n < N =>
                       x[N - n] - Cum(w)[N - n] = now - w[N - n].absolute * (rate + f)}
<1>1. /\ w[N].absolute = 0
      /\ \A j \in 1..N : w[j].absolute \in Int /\ w[j].freq \in Int
  BY Whole
<1>2. /\ Cum(w) \in [1..N -> Int] /\ Cum(w)[N] = 0
      /\ \A j \in 1 .. N - 1 : Cum(w)[j] = Cum(w)[j + 1] + Apart(w, j, j + 1) * (w[j + 1].freq - f)
  BY <1>1, CumDef
<1>3. N \in Nat /\ N >= 2 BY Size
<1>4. f \in Int BY <1>1, <1>3
<1>5. x[N] = now OBVIOUS
<1>6. \A i \in 1 .. N - 1 : x[i] = x[i + 1] + Apart(w, i, i + 1) * (rate + w[i + 1].freq)
  BY DEF Carried
<1>7. x \in [1..N -> Int] OBVIOUS
<1> HIDE DEF N, f
<1>8. 0 \in Good
  <2>1. N - 0 = N BY <1>3
  <2>2. x[N] - Cum(w)[N] = now - w[N].absolute * (rate + f) BY <1>1, <1>2, <1>4, <1>5
  <2> QED BY <2>1, <2>2
<1>9. ASSUME NEW n \in Nat, n \in Good  PROVE n + 1 \in Good
  <2> SUFFICES ASSUME n + 1 < N
               PROVE  x[N - (n + 1)] - Cum(w)[N - (n + 1)] = now - w[N - (n + 1)].absolute * (rate + f)
    OBVIOUS
  <2> DEFINE i == N - (n + 1)
             a == Apart(w, i, i + 1)
             b == w[i + 1].absolute
             p == w[i].absolute
             q == w[i + 1].freq
             X == x[i + 1]
             C == Cum(w)[i + 1]
  <2>1. i \in 1 .. N - 1 /\ i + 1 = N - n /\ i + 1 \in 1..N /\ i \in 1..N BY <1>3
  <2>2. x[N - n] - Cum(w)[N - n] = now - w[N - n].absolute * (rate + f) BY <1>9, <1>3
  <2> HIDE DEF i
  <2>3. X - C = now - b * (rate + f) BY <2>1, <2>2
  <2>4. x[i] = X + a * (rate + q) BY <1>6, <2>1
  <2>5. Cum(w)[i] = C + a * (q - f) BY <1>2, <2>1
  <2>6. a = b - p BY DEF Apart
  <2>7. b \in Int /\ p \in Int /\ q \in Int /\ X \in Int /\ C \in Int
    BY <1>1, <1>2, <1>7, <2>1
  <2> HIDE DEF a, b, p, q, X, C
  <2>8. x[i] - Cum(w)[i] = now - p * (rate + f)
    <3>1. a \in Int BY <2>6, <2>7
    <3>2. a * (rate + q) \in Int /\ a * (q - f) \in Int /\ a * (rate + q) - a * (q - f) = a * (rate + f)
      BY <1>4, <2>7, <3>1
    <3>3. x[i] - Cum(w)[i] = (X - C) + a * (rate + f)
      BY <2>4, <2>5, <2>7, <3>2
    <3>4. a * (rate + f) = b * (rate + f) - p * (rate + f) BY <1>4, <2>6, <2>7
    <3>5. b * (rate + f) \in Int /\ p * (rate + f) \in Int BY <1>4, <2>7
    <3> QED BY <2>3, <3>3, <3>4, <3>5
  <2> QED BY <2>8 DEF i, p
<1>10. \A n \in Nat : n \in Good
  <2> HIDE DEF Good
  <2> QED BY <1>8, <1>9, SetInduction
<1>11. ASSUME NEW j \in 1..N  PROVE x[j] - Cum(w)[j] = now - w[j].absolute * (rate + f)
  <2>1. N - j \in Nat /\ N - j < N /\ N - (N - j) = j BY <1>3
  <2>2. N - j \in Good BY <1>10, <2>1
  <2> QED BY <2>1, <2>2
<1> QED BY <1>11 DEF N, f

\* A line that starts lower and ends higher than another is the steeper
\* one.
LEMMA Crossing ==
    ASSUME NEW s, NEW r, NEW x \in Int, NEW y \in Int, x < y,
           s.slope \in Int, s.offset \in Int, r.slope \in Int, r.offset \in Int,
           Val(r, x) < Val(s, x), Val(s, y) < Val(r, y)
    PROVE  s.slope < r.slope
<1> DEFINE dx == Val(r, x) - Val(s, x)
           dy == Val(r, y) - Val(s, y)
<1>1. /\ Val(s, x) \in Int /\ Val(r, x) \in Int /\ Val(s, y) \in Int /\ Val(r, y) \in Int
      /\ dx < 0 /\ r.slope <= s.slope => dy < 0
  BY Comparison DEF Compare
<1>2. dx < 0 /\ dy > 0 BY <1>1
<1>3. ~(dy < 0) BY <1>1, <1>2
<1> QED BY <1>1, <1>2, <1>3

\* The slope of that line, the host's true rate, is strictly between
\* Lowest and Highest; and no bar that held it is negative.
LEMMA TrueRate ==
    ASSUME NEW w, Ring(w), Len(w) = RING_SIZE, NEW rate \in Int, NEW now \in Int,
           Held(w, RING_SIZE, now, rate)
    PROVE  LET true == -(rate + w[RING_SIZE].freq) * Scale
           IN  /\ Lowest(Envelope(w)) < true /\ true < Highest(Envelope(w))
               /\ Proper(Envelope(w))
<1> DEFINE N == RING_SIZE
           e == Envelope(w)
           at == e.at
           u == e.max
           l == e.min
           v == rate + w[N].freq
           r == [slope |-> -v * Scale, offset |-> Scale * now]
<1>1. /\ Shape(at, u, l)
      /\ \A j \in 1..N : /\ Cum(w)[j] \in Int /\ at[j] = w[j].absolute
            /\ u[j] = Scale * (w[j].skew - Cum(w)[j] + w[j].errorbar)
            /\ l[j] = Scale * (w[j].skew - Cum(w)[j] - w[j].errorbar)
  BY EnvelopeShape
<1>2. /\ \A j \in 1..N : w[j].absolute \in Int /\ w[j].freq \in Int
      /\ \A j \in 1..N : w[j].skew \in Int /\ w[j].errorbar \in Int
  BY Whole
<1>3. N \in Nat /\ N >= 2 /\ Scale \in Nat /\ Scale > 0 BY Size, PhaseAssumption
<1>4. v \in Int BY <1>2, <1>3
<1>5. PICK x \in [1..N -> Int] :
          /\ x[N] = now
          /\ \A i \in 1..N :
                -w[i].errorbar < w[i].skew - x[i] /\ w[i].skew - x[i] < w[i].errorbar
          /\ \A i \in 1 .. N - 1 : x[i] = x[i + 1] + Apart(w, i, i + 1) * (rate + w[i + 1].freq)
  <2>1. N - N + 1 = 1 /\ N > 0 BY <1>3
  <2> QED BY <2>1 DEF Held
<1>6. \A j \in 1..N : x[j] - Cum(w)[j] = now - w[j].absolute * v
  <2>1. \A j \in 1..RING_SIZE :
           x[j] - Cum(w)[j] = now - w[j].absolute * (rate + w[RING_SIZE].freq)
    <3>1. x \in [1..RING_SIZE -> Int] /\ x[RING_SIZE] = now BY <1>5
    <3>2. Carried(w, x, rate) BY <1>5 DEF Carried
    <3> HIDE DEF v, r
    <3> QED BY <3>1, <3>2, TrueLine
  <2> QED BY <2>1
<1>7. r.slope \in Int /\ r.offset \in Int BY <1>3, <1>4
<1>8. ASSUME NEW j \in 1..N
      PROVE  Val(r, at[j]) < u[j] /\ l[j] < Val(r, at[j])
  <2> DEFINE y == x[j] - Cum(w)[j]
             p == w[j].absolute
             g == w[j].skew - Cum(w)[j]
             b == w[j].errorbar
  <2>0. /\ x[j] \in Int /\ Cum(w)[j] \in Int /\ w[j].skew \in Int
        /\ w[j].errorbar \in Int /\ w[j].absolute \in Int
    BY <1>1, <1>2, <1>5
  <2>1. y \in Int /\ p \in Int /\ g \in Int /\ b \in Int BY <2>0
  <2>2. y = now - p * v BY <1>6
  <2>3. u[j] = Scale * (g + b) /\ l[j] = Scale * (g - b) /\ at[j] = p BY <1>1
  <2>4. y < g + b /\ g - b < y
    <3> DEFINE X == x[j]
               C == Cum(w)[j]
               K == w[j].skew
    <3>1. -b < K - X /\ K - X < b BY <1>5
    <3>2. X \in Int /\ C \in Int /\ K \in Int /\ b \in Int BY <2>0
    <3>3. y = X - C /\ g = K - C OBVIOUS
    <3> HIDE DEF X, C, K, y, g, b
    <3> QED BY <3>1, <3>2, <3>3
  <2>5. Val(r, at[j]) = Scale * now + (-v * Scale) * p BY <2>3 DEF Val
  <2> HIDE DEF y, p, g, b, v
  <2>6. Scale * now + (-v * Scale) * p = Scale * (now - p * v) BY <1>3, <1>4, <2>1
  <2>7. Scale * y < Scale * (g + b) /\ Scale * (g - b) < Scale * y
    BY <1>3, <2>1, <2>4
  <2> QED BY <2>2, <2>3, <2>5, <2>6, <2>7
<1>9. Proper(e)
  <2>1. ASSUME NEW j \in 1..N  PROVE w[j].errorbar >= 0
    <3> DEFINE b == w[j].errorbar
               g == w[j].skew
               y == x[j]
    <3>1. b \in Int /\ g \in Int /\ y \in Int BY <1>2, <1>5
    <3>2. -b < g - y /\ g - y < b BY <1>5
    <3> HIDE DEF b, g, y
    <3>3. b >= 0 BY <3>1, <3>2
    <3> QED BY <3>3 DEF b
  <2> QED BY <2>1, EnvelopeShape
<1> HIDE DEF r, v, e
<1>10. /\ \E s \in Lines(at, u, l) : s.slope = Lowest(e)
       /\ \E s \in Lines(at, l, u) : s.slope = Highest(e)
  BY <1>1, Extremes
<1>11. Grid(at, u, l) /\ Grid(at, l, u) /\ Rising(at) /\ u \in Curve /\ l \in Curve
  BY <1>1 DEF Shape
<1>12. ASSUME NEW s \in Lines(at, u, l)  PROVE s.slope < r.slope
  <2>1. IsLine(s, at, u, l) BY <1>11, LinesAre
  <2>2. /\ s.from \in 1..N /\ s.to \in 1..N /\ s.from < s.to
        /\ s.slope \in Int /\ s.offset \in Int
        /\ Val(s, at[s.from]) = u[s.from] /\ Val(s, at[s.to]) = l[s.to]
    BY <1>3, <2>1 DEF IsLine
  <2>3. at[s.from] \in Int /\ at[s.to] \in Int /\ at[s.from] < at[s.to]
    BY <1>11, <2>2, Later
  <2>4. Val(r, at[s.from]) < u[s.from] /\ l[s.to] < Val(r, at[s.to]) BY <1>8, <2>2
  <2>5. Val(r, at[s.from]) < Val(s, at[s.from]) /\ Val(s, at[s.to]) < Val(r, at[s.to])
    BY <2>2, <2>4
  <2> QED BY <1>7, <2>2, <2>3, <2>5, Crossing
<1>13. ASSUME NEW s \in Lines(at, l, u)  PROVE r.slope < s.slope
  <2>1. IsLine(s, at, l, u) BY <1>11, LinesAre
  <2>2. /\ s.from \in 1..N /\ s.to \in 1..N /\ s.from < s.to
        /\ s.slope \in Int /\ s.offset \in Int
        /\ Val(s, at[s.from]) = l[s.from] /\ Val(s, at[s.to]) = u[s.to]
    BY <1>3, <2>1 DEF IsLine
  <2>3. at[s.from] \in Int /\ at[s.to] \in Int /\ at[s.from] < at[s.to]
    BY <1>11, <2>2, Later
  <2>4. l[s.from] < Val(r, at[s.from]) /\ Val(r, at[s.to]) < u[s.to] BY <1>8, <2>2
  <2>5. Val(s, at[s.from]) < Val(r, at[s.from]) /\ Val(r, at[s.to]) < Val(s, at[s.to])
    BY <2>2, <2>4
  <2> QED BY <1>7, <2>2, <2>3, <2>5, Crossing
<1>14. r.slope = -v * Scale BY DEF r
<1> QED BY <1>9, <1>10, <1>12, <1>13, <1>14 DEF v, e

-----------------------------------------------------------------------------
(***************************************************************************)
(* The invariant.                                                          *)
(***************************************************************************)

\* MAX_C is a number.
LEMMA Limit == MAX_C \in Nat
BY PhaseAssumption DEF MAX_C

\* The assumptions the steps need.
LEMMA Bounds ==
    /\ MaxMeasured \in Nat /\ MaxGap \in Nat
    /\ Hosts \subseteq [drift : Int, freq : Int] /\ Answers \subseteq Int \X Int
BY PhaseAssumption

\* Whatever the bars, the shifts of two crossings are naturals, and the
\* new frequency is in range.
LEMMA InRange ==
    ASSUME NEW e, Shape(e.at, e.max, e.min), freq \in Int,
           NEW c \in MinCrossings(e, maxseg(e)), NEW d \in MaxCrossings(e, minseg(e)),
           NEW p, p = polygon(Corners(maxseg(e), minseg(e), c, d)),
           NEW f, f \in computed_freq(c, d, find_df(p))
    PROVE  p \in [l_min : Nat, r_min : Nat] /\ f \in -MAX_C..MAX_C
<1> DEFINE K == Corners(maxseg(e), minseg(e), c, d)
           most == 10 * MIN_INIT * Unit
           X == {find_shift(-s.slope, s.offset) : s \in K}
           Y == {find_shift(s.slope, -s.offset) : s \in K}
<1>1. c.slope \in Int /\ c.offset \in Int /\ d.slope \in Int /\ d.offset \in Int
  BY LowCrosses, HighCrosses DEF LowCross, HighCross, IsLine
<1>2. \A s \in K : s.slope \in Int /\ s.offset \in Int
  <2>1. \A s \in maxseg(e) \cup minseg(e) : s.slope \in Int /\ s.offset \in Int
    BY UpperHull, LowerHull DEF Hull, IsLine
  <2>2. K \subseteq {c, d} \cup maxseg(e) \cup minseg(e)
    BY DEF Corners
  <2> QED BY <1>1, <2>1, <2>2
<1> HIDE DEF K
<1>3. Unit \in Nat
  BY PhaseAssumption DEF Unit
<1>4. most \in Nat
  <2>1. 10 * MIN_INIT = 200 BY DEF MIN_INIT
  <2>2. 10 * MIN_INIT * Unit = 200 * Unit BY <2>1
  <2>3. 200 * Unit \in Nat BY <1>3
  <2> QED BY <2>2, <2>3
<1>5. ASSUME NEW a \in Int, NEW b \in Int  PROVE find_shift(a, b) \in Nat
  <2>1. LET x == 10 * a - 10 * b
            y == 10 * a + 3 * Unit - b
            m == IF x <= y THEN x ELSE y
        IN  find_shift(a, b) = IF m <= 0 THEN 0 ELSE m
    BY FindShift
  <2> HIDE DEF K, most, X, Y
  <2> QED BY <1>3, <2>1
<1>6. X \subseteq Nat /\ Y \subseteq Nat
  <2>1. ASSUME NEW s \in K
        PROVE  find_shift(-s.slope, s.offset) \in Nat /\ find_shift(s.slope, -s.offset) \in Nat
    <3>1. s.slope \in Int /\ -s.slope \in Int /\ s.offset \in Int /\ -s.offset \in Int
      BY <1>2
    <3> QED BY <1>5, <3>1
  <2> QED BY <2>1
<1>7. p = [l_min |-> Min({most} \cup X), r_min |-> Min({most} \cup Y)]
  BY DEF polygon, K
<1> HIDE DEF X, Y, most
<1>8. ASSUME NEW Z, Z \subseteq Nat  PROVE Min({most} \cup Z) \in Nat
  <2> DEFINE S == {most} \cup Z
  <2>1. S \subseteq Nat /\ S # {}
    <3>1. most \in Nat BY <1>4
    <3>2. Z \subseteq Nat BY <1>8
    <3> HIDE DEF most
    <3> QED BY <3>1, <3>2
  <2> HIDE DEF S
  <2>2. PICK k \in S : \A i \in S : k <= i BY <2>1, LeastNumber
  <2>3. Min(S) \in S BY <2>2 DEF Min
  <2> QED BY <2>1, <2>3 DEF S
<1>9. p \in [l_min : Nat, r_min : Nat]
  <2>1. Min({most} \cup X) \in Nat BY <1>6, <1>8
  <2>2. Min({most} \cup Y) \in Nat BY <1>6, <1>8
  <2> QED BY <1>7, <2>1, <2>2
<1>10. f \in -MAX_C..MAX_C
  <2>1. CASE Den(c, d) = 0
    BY <2>1 DEF computed_freq
  <2>2. CASE Den(c, d) # 0
    <3>1. p.l_min \in Int /\ p.r_min \in Int
      BY <1>9
    <3>2. find_df(p) \in Int
      BY <3>1 DEF find_df
    <3>3. delta_freq(c, d, find_df(p)) \in Int
      BY <1>1, <2>2, <3>2, StepIs
    <3>4. freq - delta_freq(c, d, find_df(p)) \in Int
      BY <3>3
    <3>5. f = Clamped(freq - delta_freq(c, d, find_df(p)))
      BY <2>2 DEF computed_freq
    <3> QED BY <3>4, <3>5, ClampedIs
  <2> QED BY <2>1, <2>2
<1> QED BY <1>9, <1>10

\* A call of contemplate_data() with a full ring verifies everything at
\* once: the types whatever the bars; if none is negative, the box, the
\* shifts, the direction of the change.
LEMMA Contemplated ==
    ASSUME NEW w, Ring(w), Len(w) = RING_SIZE, NEW e, e = Envelope(w), Contemplate(e),
           df \in [l_min : Nat, r_min : Nat], freq \in Int
    PROVE  /\ df' \in [l_min : Nat, r_min : Nat] /\ printed' \in {"inconsistent", "box"}
           /\ IF printed' = "box" THEN freq' \in -MAX_C..MAX_C ELSE UNCHANGED <<box, freq>>
           /\ Proper(e) /\ printed' = "box" =>
                 /\ box'[1].slope = Lowest(e) /\ box'[2].slope = Highest(e)
                 /\ Lowest(e) < Highest(e)
                 /\ Least(e, box'[1], box'[2], df')
                 /\ df'.l_min = 0 \/ df'.r_min = 0
                 /\ df'.r_min > 0 => freq' >= Clamped(freq)
                 /\ df'.l_min > 0 => freq' <= Clamped(freq)
           /\ NoTies(e) /\ WithinLimits(e) /\ Lowest(e) < Highest(e) => printed' = "box"
<1>1. Shape(e.at, e.max, e.min) /\ e.at[RING_SIZE] = 0
  BY EnvelopeShape
<1>2. CASE /\ printed' = "inconsistent" /\ UNCHANGED <<df, box, freq>>
           /\ MinCrossings(e, maxseg(e)) = {} \/ MaxCrossings(e, minseg(e)) = {}
  <2>1. ~(NoTies(e) /\ WithinLimits(e) /\ Lowest(e) < Highest(e))
    BY <1>1, <1>2, FoundLow, FoundHigh
  <2> QED BY <1>2, <2>1
<1>3. ASSUME NEW c \in MinCrossings(e, maxseg(e)), NEW d \in MaxCrossings(e, minseg(e)),
             printed' = "box", box' = <<c, d>>,
             df' = polygon(Corners(maxseg(e), minseg(e), c, d)),
             freq' \in computed_freq(c, d, find_df(df'))
      PROVE  /\ df' \in [l_min : Nat, r_min : Nat] /\ freq' \in -MAX_C..MAX_C
             /\ Proper(e) => /\ box'[1].slope = Lowest(e) /\ box'[2].slope = Highest(e)
                             /\ Lowest(e) < Highest(e)
                             /\ Least(e, box'[1], box'[2], df')
                             /\ df'.l_min = 0 \/ df'.r_min = 0
                             /\ df'.r_min > 0 => freq' >= Clamped(freq)
                             /\ df'.l_min > 0 => freq' <= Clamped(freq)
  <2>1. df' \in [l_min : Nat, r_min : Nat] /\ freq' \in -MAX_C..MAX_C
    BY <1>1, <1>3, InRange
  <2> SUFFICES ASSUME Proper(e)
               PROVE  /\ box'[1].slope = Lowest(e) /\ box'[2].slope = Highest(e)
                      /\ Lowest(e) < Highest(e)
                      /\ Least(e, box'[1], box'[2], df')
                      /\ df'.l_min = 0 \/ df'.r_min = 0
                      /\ df'.r_min > 0 => freq' >= Clamped(freq)
                      /\ df'.l_min > 0 => freq' <= Clamped(freq)
    BY <2>1
  <2>2. /\ c.slope = Lowest(e) /\ d.slope = Highest(e) /\ Lowest(e) < Highest(e)
        /\ c.slope \in Int /\ c.offset \in Int /\ d.slope \in Int /\ d.offset \in Int
        /\ c.slope < d.slope /\ c.offset <= d.offset
    BY <1>1, BoxLines
  <2>3. box'[1] = c /\ box'[2] = d BY <1>3
  <2>4. Least(e, c, d, df') BY <1>1, <1>3, LeastShiftIs
  <2> DEFINE f == delta_freq(c, d, find_df(df'))
  <2>5. /\ df'.l_min = 0 \/ df'.r_min = 0
        /\ f \in Int
        /\ df'.r_min > 0 => f <= 0
        /\ df'.l_min > 0 => f >= 0
    BY <1>1, <1>3, Steering
  <2>6. freq' = Clamped(freq - f)
    <3>1. Den(c, d) # 0 BY <2>2, DenIs
    <3> QED BY <1>3, <3>1 DEF computed_freq
  <2> HIDE DEF f
  <2>7. freq - f \in Int BY <2>5
  <2>8. /\ freq - f >= freq => Clamped(freq - f) >= Clamped(freq)
        /\ freq - f <= freq => Clamped(freq - f) <= Clamped(freq)
    BY <2>7, ClampedIs
  <2>9. (f <= 0 => freq - f >= freq) /\ (f >= 0 => freq - f <= freq) BY <2>5
  <2> QED BY <2>2, <2>3, <2>4, <2>5, <2>6, <2>8, <2>9
<1> QED BY <1>1, <1>2, <1>3, Verdict

\* A stretch of no measurements.
LEMMA HeldNone ==
    ASSUME NEW ring \in Seq(Data), NEW now, NEW rate
    PROVE  Held(ring, 0, now, rate)
<1> DEFINE x == [i \in 1..Len(ring) |-> 0]
<1>1. x \in [1..Len(ring) -> Int] /\ Len(ring) \in Nat /\ 0 \in 0..Len(ring) OBVIOUS
<1>2. \A i \in Len(ring) - 0 + 1 .. Len(ring) : FALSE BY <1>1
<1>3. \A i \in Len(ring) - 0 + 1 .. Len(ring) - 1 : FALSE BY <1>1
<1>4. ~(0 > 0) OBVIOUS
<1> HIDE DEF x
<1> QED BY <1>1, <1>2, <1>3, <1>4 DEF Held

\* The verdict on the intervals e is right, unless one is negative.
Verified(e, p, b, f) == Proper(e) =>
    /\ p = "box" => /\ b[1].slope = Lowest(e) /\ b[2].slope = Highest(e)
                    /\ Lowest(e) < Highest(e) /\ Least(e, b[1], b[2], f)
    /\ NoTies(e) /\ WithinLimits(e) /\ Lowest(e) < Highest(e) => p = "box"

\* Then BoxExact and LeastShift hold.
LEMMA Judged ==
    ASSUME Len(d_ring) = RING_SIZE => Verified(Envelope(d_ring), printed, box, df)
    PROVE  BoxExact /\ LeastShift
<1>1. CASE Len(d_ring) = RING_SIZE
  <2> DEFINE e == Envelope(d_ring)
  <2>1. Full = {e} BY <1>1 DEF Full
  <2>2. Verified(e, printed, box, df) BY <1>1
  <2> HIDE DEF e
  <2>3. BoxExact BY <2>1, <2>2 DEF BoxExact, Verified
  <2>4. Proper(e) /\ printed = "box" => Least(e, box[1], box[2], df) BY <2>2 DEF Verified
  <2>5. LeastShift BY <2>1, <2>4 DEF LeastShift, Least
  <2> QED BY <2>3, <2>5
<1>2. CASE Len(d_ring) # RING_SIZE
  <2>1. Full = {} BY <1>2 DEF Full
  <2> QED BY <2>1 DEF BoxExact, LeastShift
<1> QED BY <1>1, <1>2

\* The inductive invariant: the ring is in order and holds the true skew
\* as long as history says, and the last verdict is right.
IInv ==
    /\ TypeOK
    /\ Ring(d_ring)
    /\ Held(d_ring, honest, skew, drift)
    /\ Len(d_ring) < RING_SIZE => printed = ""
    /\ Len(d_ring) = RING_SIZE => Verified(Envelope(d_ring), printed, box, df)

\* It holds before the first measurement,
LEMMA InitIInv == Init => IInv
<1> SUFFICES ASSUME Init  PROVE IInv
  OBVIOUS
<1>1. d_ring \in Seq(Data) /\ Len(d_ring) = 0
  <2>1. d_ring = <<>> BY DEF Init
  <2> QED BY <2>1
<1>0. /\ df = [l_min |-> 0, r_min |-> 0] /\ printed = "" /\ box = <<>>
      /\ freq \in Int /\ drift \in Int /\ skew = 0 /\ honest = 0 /\ measured = 0
  BY Bounds DEF Init
<1>2. TypeOK
  <2>1. 0 \in 0..MaxMeasured /\ 0 \in 0..RING_SIZE /\ 0 <= RING_SIZE BY Bounds, Size
  <2>3. df \in [l_min : Nat, r_min : Nat] BY <1>0
  <2>4. Len(d_ring) <= RING_SIZE BY <1>1, Size
  <2>5. printed \in {"", "inconsistent", "box"}
    <3>1. printed = "" BY <1>0
    <3> QED BY <3>1
  <2>7. skew \in Int
    <3>1. skew = 0 BY DEF Init
    <3> QED BY <3>1
  <2>6. honest \in 0..RING_SIZE /\ measured \in 0..MaxMeasured
    BY <1>0, <2>1
  <2> QED BY <1>0, <1>1, <2>3, <2>4, <2>5, <2>6, <2>7 DEF TypeOK
<1>3. Ring(d_ring)
  <2>1. Len(d_ring) <= RING_SIZE /\ ~(Len(d_ring) > 0) BY <1>1, Size
  <2>2. \A i \in 1..Len(d_ring) : FALSE BY <1>1
  <2> QED BY <1>1, <2>1, <2>2 DEF Ring
<1>4. Held(d_ring, honest, skew, drift) BY <1>0, <1>1, HeldNone
<1>5. Len(d_ring) # RING_SIZE BY <1>1, Size
<1> QED BY <1>0, <1>1, <1>2, <1>3, <1>4, <1>5 DEF IInv

\* A measurement leaves a ring in order, with the history it should have,
\* and either does not fill it or has it contemplated.
LEMMA MeasureIs ==
    ASSUME IInv, NEW gap \in 1..MaxGap, NEW answer \in Answers,
           Measure(gap, answer[1], answer[2])
    PROVE  /\ Ring(d_ring') /\ Held(d_ring', honest', skew', drift)
           /\ skew' \in Int /\ honest' \in 0..RING_SIZE /\ drift' = drift
           /\ measured' \in 0..MaxMeasured /\ Len(d_ring) <= Len(d_ring')
           /\ \/ Len(d_ring') < RING_SIZE /\ UNCHANGED <<printed, box, df, freq>>
              \/ Len(d_ring') = RING_SIZE /\ Contemplate(Envelope(d_ring'))
<1> DEFINE noise == answer[1]
           errorbar == answer[2]
           then == skew - gap * (drift + freq)
           d == [absolute |-> gap, skew |-> then + noise,
                 errorbar |-> errorbar, freq |-> freq]
<1>1. /\ skew \in Int /\ drift \in Int /\ freq \in Int /\ noise \in Int
      /\ gap \in Int /\ errorbar \in Int /\ Ring(d_ring)
      /\ Held(d_ring, honest, skew, drift) /\ honest \in Nat /\ d_ring \in Seq(Data)
      /\ Len(d_ring) <= RING_SIZE /\ measured \in 0..MaxMeasured
  <2>1. TypeOK /\ Ring(d_ring) /\ Held(d_ring, honest, skew, drift) BY DEF IInv
  <2>2. /\ skew \in Int /\ drift \in Int /\ freq \in Int /\ honest \in 0..RING_SIZE
        /\ d_ring \in Seq(Data) /\ Len(d_ring) <= RING_SIZE /\ measured \in 0..MaxMeasured
    BY <2>1 DEF TypeOK
  <2>4. honest \in Nat BY <2>2, Size
  <2>5. noise \in Int /\ errorbar \in Int /\ gap \in Int BY Bounds
  <2> QED BY <2>1, <2>2, <2>4, <2>5
<1>2. /\ measured < MaxMeasured /\ measured' = measured + 1
      /\ skew' = then /\ d_ring' = Stored(d_ring, d) /\ drift' = drift
      /\ honest' = IF -errorbar < noise /\ noise < errorbar
                    THEN Min({RING_SIZE, honest + 1}) ELSE 0
      /\ IF Len(d_ring') < RING_SIZE
         THEN UNCHANGED <<printed, box, df, freq>>
         ELSE \E e \in {Envelope(d_ring')} : Contemplate(e)
  BY DEF Measure
<1>3. then \in Int BY <1>1
<1>4. /\ d \in Data /\ d.absolute \in 1..MaxGap
      /\ d.absolute = gap /\ d.freq = freq /\ d.skew = then + noise /\ d.errorbar = errorbar
  BY <1>1, <1>3 DEF Data
<1>5. then = skew - d.absolute * (drift + d.freq) BY <1>4
<1> HIDE DEF noise, errorbar, then, d
<1>6. Ring(d_ring') BY <1>1, <1>2, <1>4, RingStep
<1>7. d_ring' \in Seq(Data) /\ Len(d_ring') <= RING_SIZE /\ Len(d_ring') \in Nat
  BY <1>6 DEF Ring
<1>8. measured' \in 0..MaxMeasured BY <1>1, <1>2, Bounds
<1>9. Held(d_ring', honest', skew', drift)
  <2>1. CASE -errorbar < noise /\ noise < errorbar
    <3>1. honest' = IF RING_SIZE <= honest + 1 THEN RING_SIZE ELSE honest + 1
      <4> DEFINE v == IF RING_SIZE <= honest + 1 THEN RING_SIZE ELSE honest + 1
      <4>1. v \in {RING_SIZE, honest + 1} /\ \A y \in {RING_SIZE, honest + 1} : v <= y
        BY <1>1, Size
      <4>2. \A y \in {RING_SIZE, honest + 1} : y \in Int BY <1>1, Size
      <4>3. honest' = Min({RING_SIZE, honest + 1}) BY <1>2, <2>1
      <4>4. \A y \in {RING_SIZE, honest + 1} :
               (\A z \in {RING_SIZE, honest + 1} : y <= z) => y = v
        BY <4>1, <4>2
      <4> HIDE DEF v
      <4> QED BY <4>1, <4>3, <4>4 DEF Min, v
    <3>2. -d.errorbar < d.skew - then /\ d.skew - then < d.errorbar
      BY <1>1, <1>3, <1>4, <2>1
    <3>3. Held(Stored(d_ring, d), IF RING_SIZE <= honest + 1 THEN RING_SIZE ELSE honest + 1,
               then, drift)
      BY <1>1, <1>3, <1>4, <1>5, <3>2, HeldStep
    <3> QED BY <1>2, <3>1, <3>3
  <2>2. CASE ~(-errorbar < noise /\ noise < errorbar)
    BY <1>2, <1>7, <2>2, HeldNone
  <2> QED BY <2>1, <2>2
<1>10. honest' \in 0..RING_SIZE BY <1>7, <1>9, Size DEF Held
<1>11. \/ Len(d_ring') < RING_SIZE /\ UNCHANGED <<printed, box, df, freq>>
       \/ Len(d_ring') = RING_SIZE /\ Contemplate(Envelope(d_ring'))
  <2>1. CASE Len(d_ring') < RING_SIZE BY <1>2, <2>1
  <2>2. CASE ~(Len(d_ring') < RING_SIZE)
    <3>1. Len(d_ring') = RING_SIZE BY <1>7, <2>2, Size
    <3>2. \E e \in {Envelope(d_ring')} : Contemplate(e) BY <1>2, <2>2
    <3> QED BY <3>1, <3>2
  <2> QED BY <2>1, <2>2
<1>12. Len(d_ring) <= Len(d_ring')
  <2>1. Len(Stored(d_ring, d)) = Len(d_ring) + 1 - IF Len(d_ring) = RING_SIZE THEN 1 ELSE 0
    BY <1>1, <1>4, StoredIs
  <2>2. Len(d_ring) \in Nat BY <1>1
  <2> QED BY <1>2, <2>1, <2>2
<1> QED BY <1>2, <1>3, <1>6, <1>8, <1>9, <1>10, <1>11, <1>12

\* A measurement keeps the invariant, and steers the right way.
LEMMA MeasureStep ==
    ASSUME IInv, NEW gap \in 1..MaxGap, NEW answer \in Answers,
           Measure(gap, answer[1], answer[2])
    PROVE  /\ IInv'
           /\ \A e \in Full' : Proper(e) /\ printed' = "box" =>
                 /\ df'.l_min = 0 \/ df'.r_min = 0
                 /\ df'.r_min > 0 => freq' >= Clamped(freq)
                 /\ df'.l_min > 0 => freq' <= Clamped(freq)
<1>1. /\ Ring(d_ring') /\ Held(d_ring', honest', skew', drift)
      /\ skew' \in Int /\ honest' \in 0..RING_SIZE /\ drift' = drift
      /\ measured' \in 0..MaxMeasured /\ Len(d_ring) <= Len(d_ring')
      /\ \/ Len(d_ring') < RING_SIZE /\ UNCHANGED <<printed, box, df, freq>>
         \/ Len(d_ring') = RING_SIZE /\ Contemplate(Envelope(d_ring'))
  BY MeasureIs
<1>2. /\ drift \in Int /\ df \in [l_min : Nat, r_min : Nat]
      /\ freq \in Int /\ (box # <<>> => freq \in -MAX_C..MAX_C)
      /\ printed \in {"", "inconsistent", "box"}
  BY DEF IInv, TypeOK
<1>3. d_ring' \in Seq(Data) /\ Len(d_ring') <= RING_SIZE BY <1>1 DEF Ring
<1>4. Held(d_ring', honest', skew', drift') BY <1>1
<1>5. CASE Len(d_ring') < RING_SIZE /\ UNCHANGED <<printed, box, df, freq>>
  <2>1. Len(d_ring) < RING_SIZE
    <3>1. d_ring \in Seq(Data) BY DEF IInv, TypeOK
    <3> QED BY <1>1, <1>3, <1>5, <3>1, Size
  <2>2. printed = "" BY <2>1 DEF IInv
  <2>3. TypeOK' BY <1>1, <1>2, <1>3, <1>5 DEF TypeOK
  <2>4. ~(Len(d_ring') = RING_SIZE) /\ printed' = "" /\ printed' # "box"
    <3>1. printed' = "" BY <1>5, <2>2
    <3>2. ~(Len(d_ring') = RING_SIZE) BY <1>3, <1>5, Size
    <3> QED BY <3>1, <3>2
  <2> QED BY <1>1, <1>4, <2>3, <2>4 DEF IInv
<1>6. CASE Len(d_ring') = RING_SIZE /\ Contemplate(Envelope(d_ring'))
  <2> DEFINE e == Envelope(d_ring')
  <2>1. /\ df' \in [l_min : Nat, r_min : Nat] /\ printed' \in {"inconsistent", "box"}
        /\ IF printed' = "box" THEN freq' \in -MAX_C..MAX_C ELSE UNCHANGED <<box, freq>>
        /\ Proper(e) /\ printed' = "box" =>
              /\ box'[1].slope = Lowest(e) /\ box'[2].slope = Highest(e)
              /\ Lowest(e) < Highest(e)
              /\ Least(e, box'[1], box'[2], df')
              /\ df'.l_min = 0 \/ df'.r_min = 0
              /\ df'.r_min > 0 => freq' >= Clamped(freq)
              /\ df'.l_min > 0 => freq' <= Clamped(freq)
        /\ NoTies(e) /\ WithinLimits(e) /\ Lowest(e) < Highest(e) => printed' = "box"
    BY <1>1, <1>2, <1>6, Contemplated
  <2>2. TypeOK'
    <3>1. freq' \in Int /\ (box' # <<>> => freq' \in -MAX_C..MAX_C)
      <4> HIDE DEF e
      <4>1. CASE printed' = "box"
        <5>1. freq' \in -MAX_C..MAX_C BY <2>1, <4>1
        <5>2. -MAX_C..MAX_C \subseteq Int BY Limit
        <5> QED BY <5>1, <5>2
      <4>2. CASE printed' # "box"
        <5>1. UNCHANGED <<box, freq>> BY <2>1, <4>2
        <5> QED BY <1>2, <5>1
      <4> QED BY <4>1, <4>2
    <3> QED BY <1>1, <1>2, <1>3, <2>1, <3>1 DEF TypeOK
  <2>3. Verified(Envelope(d_ring'), printed', box', df')
    <3> HIDE DEF e
    <3>1. Verified(e, printed', box', df') BY <2>1 DEF Verified
    <3> QED BY <3>1 DEF e
  <2>4. ~(Len(d_ring') < RING_SIZE) BY <1>6, Size
  <2>5. IInv' BY <1>1, <1>4, <2>2, <2>3, <2>4 DEF IInv
  <2>6. Full' = {e} BY <1>6 DEF Full
  <2> HIDE DEF e
  <2> QED BY <2>1, <2>5, <2>6
<1> QED BY <1>1, <1>5, <1>6

\* and after every step.
LEMMA NextIInv == IInv /\ [Next]_vars => IInv'
<1> SUFFICES ASSUME IInv, [Next]_vars  PROVE IInv'
  OBVIOUS
<1>1. ASSUME NEW gap \in 1..MaxGap, NEW answer \in Answers,
             Measure(gap, answer[1], answer[2])
      PROVE  IInv'
  BY <1>1, MeasureStep
<1>2. CASE SetTime
  <2>1. /\ skew' = 0 /\ honest' = 0
        /\ UNCHANGED <<d_ring, df, printed, box, freq, drift, measured>>
    BY <1>2 DEF SetTime
  <2>2. TypeOK'
    <3>1. skew' \in Int /\ honest' \in 0..RING_SIZE BY <2>1, Size
    <3>2. TypeOK BY DEF IInv
    <3> QED BY <2>1, <3>1, <3>2 DEF TypeOK
  <2>3. Held(d_ring', honest', skew', drift') BY <2>1, HeldNone DEF IInv, TypeOK
  <2> QED BY <2>1, <2>2, <2>3 DEF IInv
<1>3. CASE UNCHANGED vars
  BY <1>3 DEF vars, IInv, TypeOK
<1> QED BY <1>1, <1>2, <1>3 DEF Next

\* The invariant brackets the true rate: with a whole ring of
\* measurements within their bars the passes cannot fail.
LEMMA Truth == IInv => TruthInBox
<1> SUFFICES ASSUME IInv, Len(d_ring) = RING_SIZE, honest = RING_SIZE,
                    NoTies(Envelope(d_ring)), WithinLimits(Envelope(d_ring))
             PROVE  LET rate == -(drift + d_ring[RING_SIZE].freq) * Scale
                    IN  printed = "box" /\ box[1].slope < rate /\ rate < box[2].slope
  BY DEF TruthInBox, Full
<1> DEFINE e == Envelope(d_ring)
           rate == -(drift + d_ring[RING_SIZE].freq) * Scale
<1>1. Ring(d_ring) /\ Held(d_ring, RING_SIZE, skew, drift) BY DEF IInv
<1>2. drift \in Int /\ skew \in Int BY Bounds DEF IInv, TypeOK
<1>3. Lowest(e) < rate /\ rate < Highest(e) /\ Proper(e) BY <1>1, <1>2, TrueRate
<1>4. rate \in Int
  <2>1. d_ring[RING_SIZE].freq \in Int BY <1>1, Whole, Size
  <2> QED BY <1>2, <2>1, PhaseAssumption
<1>5. Lowest(e) \in Int /\ Highest(e) \in Int BY <1>1, EnvelopeShape, Extremes
<1>6. Verified(e, printed, box, df) BY DEF IInv
<1> HIDE DEF e, rate
<1>7. Lowest(e) < Highest(e) BY <1>3, <1>4, <1>5
<1>8. printed = "box" /\ box[1].slope = Lowest(e) /\ box[2].slope = Highest(e)
  BY <1>3, <1>6, <1>7 DEF Verified, e
<1> QED BY <1>3, <1>8 DEF rate

\* The variables keep their types whatever the bars; from the first box
\* on the frequency is in the range of lines 328-329, wherever it started.
THEOREM LockTypeCorrect == Spec => []TypeOK
<1>1. IInv => TypeOK BY DEF IInv
<1> QED BY <1>1, InitIInv, NextIInv, PTL DEF Spec

\* For every ring size, every spacing and any measurements without a
\* negative bar the passes find exactly the least and the greatest slope
\* of the consistent lines.
THEOREM BoxAlwaysExact == Spec => []BoxExact
<1>1. IInv => BoxExact BY Judged DEF IInv
<1> QED BY <1>1, InitIInv, NextIInv, PTL DEF Spec

\* For any measurements within their bars, across any changes of the
\* frequency, the box brackets the host's true rate.
THEOREM TruthAlwaysInBox == Spec => []TruthInBox
BY Truth, InitIInv, NextIInv, PTL DEF Spec

\* df holds the least shift of all consistent lines, for any box without
\* a negative bar.
THEOREM ShiftAlwaysLeast == Spec => []LeastShift
<1>1. IInv => LeastShift BY Judged DEF IInv
<1> QED BY <1>1, InitIInv, NextIInv, PTL DEF Spec

\* No correction all consistent lines agree on is ever reversed, once the
\* frequency is within the limit.
THEOREM SteersAlwaysRight == Spec => SteersRight
<1> DEFINE Right == \A e \in Full' : Proper(e) /\ printed' = "box" /\ measured' # measured =>
                       /\ df'.l_min = 0 \/ df'.r_min = 0
                       /\ df'.r_min > 0 => freq' >= Clamped(freq)
                       /\ df'.l_min > 0 => freq' <= Clamped(freq)
<1>1. IInv /\ [Next]_vars => [Right]_vars
  <2> SUFFICES ASSUME IInv, Next  PROVE Right
    OBVIOUS
  <2>1. CASE SetTime BY <2>1 DEF SetTime
  <2>2. ASSUME NEW gap \in 1..MaxGap, NEW answer \in Answers,
               Measure(gap, answer[1], answer[2])
        PROVE  Right
    BY <2>2, MeasureStep
  <2> QED BY <2>1, <2>2 DEF Next
<1> QED BY <1>1, InitIInv, NextIInv, PTL DEF Spec, SteersRight
=============================================================================
