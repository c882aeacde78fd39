------------------------- MODULE SeqManager_proofs -------------------------
(***************************************************************************)
(* Proofs about SeqManager: for numbers of any width, streams of any       *)
(* length and first number, any bounds on losses and late packets that     *)
(* stay within half the range.  Drops must be in the range in which the    *)
(* code counts them right, DropsInRange; without drops nothing more is     *)
(* assumed.                                                                *)
(***************************************************************************)
EXTENDS SeqManager, FiniteSetTheorems, TLAPS

\* Quotient and remainder.
LEMMA Division ==
    ASSUME NEW n \in Int
    PROVE  /\ n \div SeqModulus \in Int
           /\ Wrap(n) \in Int /\ 0 <= Wrap(n) /\ Wrap(n) < SeqModulus
           /\ n = SeqModulus * (n \div SeqModulus) + Wrap(n)
BY SeqModulusAssumption DEF Wrap

\* A number with the remainder r is wrapped to r.
LEMMA WrapIs ==
    ASSUME NEW n \in Int, NEW q \in Int, NEW r \in Seqs, n = SeqModulus * q + r
    PROVE  Wrap(n) = r
<1> DEFINE N == SeqModulus
           p == n \div SeqModulus
           s == Wrap(n)
<1>1. p \in Int /\ s \in Int /\ 0 <= s /\ s < N /\ n = N * p + s
  BY Division
<1>2. N \in Nat /\ N > 3 /\ r \in Int /\ 0 <= r /\ r < N
  BY SeqModulusAssumption DEF Seqs
<1> HIDE DEF N, p, s
<1>3. N * q + r = N * p + s
  BY <1>1 DEF N
<1>4. ASSUME NEW a \in Int, NEW b \in Int, a > b PROVE N * a >= N * b + N
  <2>1. a - b >= 1 /\ a - b \in Int
    BY <1>4
  <2>2. N * (a - b) >= N
    BY <1>2, <2>1
  <2>3. N * (a - b) = N * a - N * b
    BY <1>2
  <2> QED
    BY <1>2, <2>2, <2>3
<1>5. ~(q > p)
  BY <1>1, <1>2, <1>3, <1>4
<1>6. ~(p > q)
  BY <1>1, <1>2, <1>3, <1>4
<1>7. p = q
  BY <1>1, <1>5, <1>6
<1> QED
  BY <1>1, <1>2, <1>3, <1>7 DEF s

\* Wrapping a part of a sum first changes nothing.
LEMMA WrapSum ==
    ASSUME NEW a \in Int, NEW b \in Int
    PROVE  /\ Wrap(Wrap(a) + b) = Wrap(a + b)
           /\ Wrap(b - Wrap(a)) = Wrap(b - a)
<1> DEFINE N == SeqModulus
           p == a \div SeqModulus
           s == Wrap(a)
<1>1. p \in Int /\ s \in Int /\ a = N * p + s
  BY Division
<1> HIDE DEF p, s
<1>2. N \in Int
  BY SeqModulusAssumption
<1>3. Wrap(s + b) = Wrap(a + b)
  <2> DEFINE q == (a + b) \div SeqModulus
             r == Wrap(a + b)
  <2>1. q \in Int /\ r \in Seqs /\ a + b = N * q + r
    BY Division, SeqModulusAssumption DEF Seqs
  <2> HIDE DEF q, r
  <2>2. s + b = N * (q - p) + r
    BY <1>1, <1>2, <2>1 DEF Seqs
  <2>3. s + b \in Int /\ q - p \in Int
    BY <1>1, <2>1
  <2> HIDE DEF N
  <2>4. Wrap(s + b) = r
    BY <2>1, <2>2, <2>3, WrapIs DEF N
  <2> QED
    BY <2>4 DEF r
<1>4. Wrap(b - s) = Wrap(b - a)
  <2> DEFINE q == (b - a) \div SeqModulus
             r == Wrap(b - a)
  <2>1. q \in Int /\ r \in Seqs /\ b - a = N * q + r
    BY Division, SeqModulusAssumption DEF Seqs
  <2> HIDE DEF q, r
  <2>2. b - s = N * (q + p) + r
    BY <1>1, <1>2, <2>1 DEF Seqs
  <2>3. b - s \in Int /\ q + p \in Int
    BY <1>1, <2>1
  <2> HIDE DEF N
  <2>4. Wrap(b - s) = r
    BY <2>1, <2>2, <2>3, WrapIs DEF N
  <2> QED
    BY <2>4 DEF r
<1> QED
  BY <1>3, <1>4 DEF s
-----------------------------------------------------------------------------
(* Numbers of indices less than half the range apart.                        *)

\* Half the range, as the code computes it.
Half == MaxValue \div 2

\* The range and its half.
LEMMA HalfBounds ==
    /\ SeqModulus \in Nat /\ Half \in Int /\ 2 * Half <= SeqModulus - 1
    /\ MaxSkip \in Nat /\ MaxLate \in Nat /\ MaxSkip + MaxLate + 1 < Half
    /\ FirstSeq \in Seqs /\ FirstSeq \in Int /\ MaxIndex \in Nat
BY SeqModulusAssumption, SeqManagerAssumption DEF Half, MaxValue, Seqs

\* The type of a wrapped number.
LEMMA WrapType ==
    ASSUME NEW n \in Int
    PROVE  Wrap(n) \in Int /\ Wrap(n) \in Seqs
<1>1. Wrap(n) \in Int /\ 0 <= Wrap(n) /\ Wrap(n) < SeqModulus
  BY Division
<1> QED
  BY <1>1, SeqModulusAssumption DEF Seqs

\* The difference of two wrapped numbers.
LEMMA WrapDifference ==
    ASSUME NEW a \in Int, NEW b \in Int
    PROVE  /\ Wrap(a) \in Seqs /\ Wrap(b) \in Seqs
           /\ Wrap(Wrap(a) - Wrap(b)) = Wrap(a - b)
<1>1. Wrap(a) \in Int /\ Wrap(a) \in Seqs /\ Wrap(b) \in Int /\ Wrap(b) \in Seqs
  BY WrapType
<1>2. Wrap(Wrap(a) + (0 - Wrap(b))) = Wrap(a + (0 - Wrap(b)))
  BY <1>1, WrapSum
<1>3. Wrap(a - Wrap(b)) = Wrap(a - b)
  BY WrapSum
<1>4. Wrap(a) + (0 - Wrap(b)) = Wrap(a) - Wrap(b) /\ a + (0 - Wrap(b)) = a - Wrap(b)
  BY <1>1
<1> QED
  BY <1>1, <1>2, <1>3, <1>4

\* A difference within the range is not wrapped, a negative one is.
LEMMA WrapSmall ==
    ASSUME NEW n \in Int
    PROVE  /\ 0 <= n /\ n < SeqModulus => Wrap(n) = n
           /\ 0 - SeqModulus <= n /\ n < 0 => Wrap(n) = n + SeqModulus
<1>1. CASE 0 <= n /\ n < SeqModulus
  <2>1. n \in Seqs /\ n = SeqModulus * 0 + n
    BY <1>1, SeqModulusAssumption DEF Seqs
  <2> QED
    BY <1>1, <2>1, WrapIs
<1>2. CASE 0 - SeqModulus <= n /\ n < 0
  <2>1. n + SeqModulus \in Seqs
    BY <1>2, SeqModulusAssumption DEF Seqs
  <2>2. n = SeqModulus * (0 - 1) + (n + SeqModulus)
    BY SeqModulusAssumption
  <2>3. Wrap(n) = n + SeqModulus
    BY <2>1, <2>2, WrapIs
  <2> QED
    BY <1>2, <2>3
<1> QED
  BY <1>1, <1>2

\* Of two numbers less than half the range apart the code knows the higher one,
\* by SeqHigherThan and by the difference of unsigned numbers.
LEMMA Ahead ==
    ASSUME NEW a \in Int, NEW b \in Int, b < a, a - b < Half
    PROVE  /\ SeqHigherThan(Wrap(a), Wrap(b))
           /\ ~SeqHigherThan(Wrap(b), Wrap(a))
           /\ Wrap(a) # Wrap(b)
           /\ Wrap(Wrap(a) - Wrap(b)) < Half
           /\ ~(Wrap(Wrap(b) - Wrap(a)) < Half)
<1> DEFINE N == SeqModulus
           x == Wrap(a)
           y == Wrap(b)
<1>1. N \in Nat /\ Half \in Int /\ 2 * Half <= N - 1
  BY HalfBounds
<1>2. x \in Int /\ 0 <= x /\ x < N /\ y \in Int /\ 0 <= y /\ y < N
  BY Division
<1>3. Wrap(x - y) = a - b
  <2>1. Wrap(x - y) = Wrap(a - b)
    BY WrapDifference
  <2>2. a - b \in Int /\ 0 <= a - b /\ a - b < SeqModulus
    BY <1>1
  <2> QED
    BY <2>1, <2>2, WrapSmall
<1>4. Wrap(y - x) = (b - a) + N
  <2>1. Wrap(y - x) = Wrap(b - a)
    BY WrapDifference
  <2>2. b - a \in Int /\ 0 - SeqModulus <= b - a /\ b - a < 0
    BY <1>1
  <2> QED
    BY <2>1, <2>2, WrapSmall
<1> HIDE DEF x, y
<1>5. x - y = a - b \/ y - x = N - (a - b)
  <2>1. CASE x >= y
    <3>1. x - y \in Int /\ 0 <= x - y /\ x - y < SeqModulus
      BY <1>1, <1>2, <2>1
    <3>2. Wrap(x - y) = x - y
      BY <3>1, WrapSmall
    <3> QED
      BY <3>2, <1>3
  <2>2. CASE x < y
    <3>1. x - y \in Int /\ 0 - SeqModulus <= x - y /\ x - y < 0
      BY <1>1, <1>2, <2>2
    <3>2. Wrap(x - y) = (x - y) + N
      BY <3>1, WrapSmall
    <3> QED
      BY <1>1, <1>2, <3>2, <1>3
  <2> QED
    BY <1>2, <2>1, <2>2
<1> HIDE DEF N
<1>6. /\ SeqHigherThan(x, y) /\ ~SeqHigherThan(y, x) /\ x # y
  BY <1>1, <1>2, <1>5 DEF SeqHigherThan, Half
<1>7. Wrap(x - y) < Half /\ ~(Wrap(y - x) < Half)
  BY <1>1, <1>3, <1>4
<1> QED
  BY <1>6, <1>7 DEF x, y

\* The type of the number of a packet.
LEMMA SeqOfType ==
    ASSUME NEW k \in Int
    PROVE  SeqOf(k) \in Seqs /\ SeqOf(k) \in Int /\ FirstSeq + k \in Int
BY HalfBounds, Division DEF SeqOf, Seqs

\* The same of the numbers of packets with indices less than half the range apart.
LEMMA SeqOfAhead ==
    ASSUME NEW k \in Int, NEW j \in Int, j < k, k - j < Half
    PROVE  /\ SeqHigherThan(SeqOf(k), SeqOf(j))
           /\ ~SeqHigherThan(SeqOf(j), SeqOf(k))
           /\ SeqOf(k) # SeqOf(j)
           /\ Wrap(SeqOf(k) - SeqOf(j)) < Half
           /\ ~(Wrap(SeqOf(j) - SeqOf(k)) < Half)
<1> DEFINE a == FirstSeq + k
           b == FirstSeq + j
<1>1. a \in Int /\ b \in Int /\ b < a /\ a - b < Half
  BY HalfBounds
<1> HIDE DEF a, b
<1>2. /\ SeqHigherThan(Wrap(a), Wrap(b)) /\ ~SeqHigherThan(Wrap(b), Wrap(a))
      /\ Wrap(a) # Wrap(b)
      /\ Wrap(Wrap(a) - Wrap(b)) < Half /\ ~(Wrap(Wrap(b) - Wrap(a)) < Half)
  BY <1>1, Ahead
<1> QED
  BY <1>2 DEF a, b, SeqOf
-----------------------------------------------------------------------------
(* Counting.                                                                 *)

\* The indices of D before k.
Before(D, k) == {d \in D : d < k}

\* From one index to a later one the count grows by at most the indices between,
\* and by less when the first of them is not counted.
LEMMA CountGrows ==
    ASSUME NEW D, D \subseteq 0 .. MaxIndex, NEW a \in Int, NEW b \in Int, a <= b
    PROVE  /\ Cardinality(Before(D, a)) \in Nat /\ Cardinality(Before(D, b)) \in Nat
           /\ Cardinality(Before(D, a)) <= Cardinality(Before(D, b))
           /\ Cardinality(Before(D, b)) - Cardinality(Before(D, a)) <= b - a
           /\ a < b /\ a \notin D =>
                 Cardinality(Before(D, b)) - Cardinality(Before(D, a)) < b - a
<1> DEFINE A == Before(D, a)
           B == Before(D, b)
           C == {d \in D : a <= d /\ d < b}
<1>1. IsFiniteSet(0 .. MaxIndex) /\ A \subseteq 0 .. MaxIndex /\ B \subseteq 0 .. MaxIndex
  <2>1. MaxIndex \in Int /\ 0 \in Int
    BY HalfBounds
  <2>2. IsFiniteSet(0 .. MaxIndex)
    BY <2>1, FS_Interval
  <2> QED
    BY <2>2 DEF Before
<1>2. /\ IsFiniteSet(A) /\ IsFiniteSet(B)
      /\ Cardinality(A) \in Nat /\ Cardinality(B) \in Nat
  BY <1>1, FS_Subset, FS_CardinalityType
<1>3. A \subseteq B /\ B = A \cup C /\ A \cap C = {}
  <2>1. \A d \in D : d \in Int
    OBVIOUS
  <2>2. \A d \in D : (d < b <=> d < a \/ (a <= d /\ d < b)) /\ ~(d < a /\ a <= d)
    BY <2>1
  <2> QED
    BY <2>2 DEF Before
<1>4. Cardinality(A) <= Cardinality(B)
  BY <1>2, <1>3, FS_Subset
<1>5. IsFiniteSet(a .. b - 1) /\ Cardinality(a .. b - 1) = b - a
  <2>1. b - 1 \in Int /\ (IF a > b - 1 THEN 0 ELSE (b - 1) - a + 1) = b - a
    OBVIOUS
  <2> QED
    BY <2>1, FS_Interval
<1>6. C \subseteq a .. b - 1
  <2>1. \A d \in D : d \in Int
    OBVIOUS
  <2>2. \A d \in Int : a <= d /\ d < b => d \in a .. b - 1
    OBVIOUS
  <2> QED
    BY <2>1, <2>2
<1>7. IsFiniteSet(C) /\ Cardinality(C) \in Nat /\ Cardinality(C) <= b - a
  BY <1>5, <1>6, FS_Subset, FS_CardinalityType
<1>8. Cardinality(B) = Cardinality(A) + Cardinality(C)
  <2>1. Cardinality(A \cup C) = Cardinality(A) + Cardinality(C) - Cardinality(A \cap C)
    BY <1>2, <1>7, FS_Union
  <2>2. Cardinality(A \cap C) = 0
    BY <1>3, FS_EmptySet
  <2> QED
    BY <2>1, <2>2, <1>2, <1>3, <1>7
<1>9. ASSUME a < b, a \notin D PROVE Cardinality(C) < b - a
  <2>1. a \in a .. b - 1 /\ a \notin C
    BY <1>9
  <2>2. C # a .. b - 1
    BY <2>1
  <2>3. Cardinality(C) # Cardinality(a .. b - 1)
    BY <2>2, <1>5, <1>6, FS_Subset
  <2> QED
    BY <2>3, <1>5, <1>7
<1> HIDE DEF A, B, C
<1>10. /\ Cardinality(B) - Cardinality(A) <= b - a
       /\ a < b /\ a \notin D => Cardinality(B) - Cardinality(A) < b - a
  BY <1>2, <1>7, <1>8, <1>9
<1> QED
  BY <1>2, <1>4, <1>10 DEF A, B

\* As many numbers as indices, when no two have the same number.
LEMMA CountNumbers ==
    ASSUME NEW D, D \subseteq 0 .. MaxIndex,
           \A i, j \in D : SeqOf(i) = SeqOf(j) => i = j
    PROVE  Cardinality({SeqOf(d) : d \in D}) = Cardinality(D)
<1> DEFINE T == {SeqOf(d) : d \in D}
           f == [d \in D |-> SeqOf(d)]
<1>1. IsFiniteSet(D)
  <2>1. MaxIndex \in Int /\ 0 \in Int
    BY HalfBounds
  <2>2. IsFiniteSet(0 .. MaxIndex)
    BY <2>1, FS_Interval
  <2> QED
    BY <2>2, FS_Subset
<1>2. f \in [D -> T] /\ (\A t \in T : \E d \in D : f[d] = t)
  OBVIOUS
<1>3. \A i, j \in D : f[i] = f[j] => i = j
  OBVIOUS
<1> HIDE DEF f, T
<1>4. f \in Bijection(D, T)
  BY <1>2, <1>3, Zenon DEF Bijection, Injection, Surjection, IsInjective
<1>5. ExistsBijection(D, T)
  BY <1>4 DEF ExistsBijection
<1> QED
  BY <1>1, <1>5, FS_Bijection DEF T
-----------------------------------------------------------------------------
(* The inductive invariant.                                                  *)

\* The greatest index sent, which the code has in maxInput and maxOutput: the last
\* one seen, unless the packets since then were dropped.
AtTop(top) ==
    /\ \A j \in DOMAIN outputs : j <= top
    /\ maxInput = SeqOf(top)
    /\ maxOutput = Wrap(Expected(top))
    /\ top = next - 1 \/ \E d \in droppedIndices : d <= top + MaxSkip + 1

\* Types.
TypeFacts ==
    /\ base \in Seqs /\ maxOutput \in Seqs /\ maxInput \in Seqs
    /\ next \in 0 .. MaxIndex + 1
    /\ syncIndex \in Int /\ syncOutput \in Int
    /\ DOMAIN outputs \subseteq 0 .. MaxIndex
    /\ outputs = [k \in DOMAIN outputs |-> outputs[k]]

\* The code has dropped the numbers of the indices dropped, all after the Sync().
DropsMatch ==
    /\ dropped = {SeqOf(d) : d \in droppedIndices}
    /\ droppedIndices \subseteq Droppable
    /\ \A d \in droppedIndices :
          syncIndex < d /\ d < next /\ d \notin DOMAIN outputs

\* Before the first Sync().
Unsynced ==
    /\ syncIndex = -1
    /\ DOMAIN outputs = {} /\ droppedIndices = {}
    /\ maxOutput = Wrap(syncOutput - 1)

\* After it: base shifts the numbers of packets to those to send.
Synced ==
    /\ syncIndex \in DOMAIN outputs
    /\ \A j \in DOMAIN outputs : syncIndex <= j /\ j < next
    /\ base = Wrap(syncOutput - (FirstSeq + syncIndex))
    /\ \E top \in DOMAIN outputs : AtTop(top)

\* The inductive invariant.
SQInv ==
    /\ TypeFacts
    /\ DropsMatch
    /\ Unsynced \/ Synced
    /\ Contiguous

-----------------------------------------------------------------------------
(* What the invariant says of the numbers.                                   *)

\* Bounds on the indices dropped.
LEMMA DroppedIndices ==
    ASSUME TypeFacts, DropsMatch
    PROVE  /\ droppedIndices \subseteq 0 .. MaxIndex
           /\ \A d \in droppedIndices : d \in Int
BY SeqManagerAssumption DEF TypeFacts, DropsMatch

\* Expected numbers grow with the index, by at most as much, and strictly after
\* an index that is not dropped.
LEMMA ExpectedGrows ==
    ASSUME TypeFacts, DropsMatch, NEW a \in Int, NEW b \in Int, a <= b
    PROVE  /\ Expected(a) \in Int /\ Expected(b) \in Int
           /\ Expected(a) <= Expected(b)
           /\ Expected(b) - Expected(a) <= b - a
           /\ a < b /\ a \notin droppedIndices => Expected(a) < Expected(b)
<1> DEFINE A == Cardinality(Before(droppedIndices, a))
           B == Cardinality(Before(droppedIndices, b))
<1>1. /\ A \in Nat /\ B \in Nat /\ A <= B /\ B - A <= b - a
      /\ a < b /\ a \notin droppedIndices => B - A < b - a
  BY DroppedIndices, CountGrows
<1>2. /\ Expected(a) = syncOutput + (a - syncIndex) - A
      /\ Expected(b) = syncOutput + (b - syncIndex) - B
  BY Zenon DEF Expected, Before
<1>3. syncOutput \in Int /\ syncIndex \in Int
  BY DEF TypeFacts
<1> HIDE DEF A, B
<1> QED
  BY <1>1, <1>2, <1>3

\* The greatest element of a set.
LEMMA MaxIs ==
    ASSUME NEW S, S \subseteq Int, NEW m \in S, \A y \in S : m >= y
    PROVE  Max(S) = m
<1>1. \A x \in S : (\A y \in S : x >= y) => x = m
  <2> SUFFICES ASSUME NEW x \in S, \A y \in S : x >= y PROVE x = m
    OBVIOUS
  <2>1. x >= m /\ m >= x /\ x \in Int /\ m \in Int
    OBVIOUS
  <2> QED
    BY <2>1
<1> QED
  BY <1>1 DEF Max

\* The highest number sent is the one of the greatest index, and the code has it.
LEMMA HighestKnown ==
    ASSUME SQInv
    PROVE  Highest \in Int /\ maxOutput = Wrap(Highest)
<1> DEFINE S == {syncOutput - 1} \cup {Expected(k) : k \in DOMAIN outputs}
<1>1. TypeFacts /\ DropsMatch /\ (Unsynced \/ Synced)
  BY DEF SQInv
<1>2. syncOutput - 1 \in Int /\ \A k \in DOMAIN outputs : k \in Int /\ Expected(k) \in Int
  <2>1. syncOutput \in Int /\ \A k \in DOMAIN outputs : k \in Int
    BY <1>1, HalfBounds DEF TypeFacts
  <2> QED
    BY <1>1, <2>1, ExpectedGrows
<1>3. CASE Unsynced
  <2>1. S = {syncOutput - 1}
    BY <1>3 DEF Unsynced
  <2>2. Max(S) = syncOutput - 1
    <3>1. S \subseteq Int /\ syncOutput - 1 \in S /\ \A y \in S : syncOutput - 1 >= y
      BY <1>2, <2>1
    <3> HIDE DEF S
    <3> QED
      BY <3>1, MaxIs
  <2> QED
    BY <1>2, <1>3, <2>2 DEF Highest, Unsynced
<1>4. CASE Synced
  <2>1. PICK top \in DOMAIN outputs : AtTop(top)
    BY <1>4 DEF Synced
  <2>2. \A j \in DOMAIN outputs : j <= top /\ Expected(j) <= Expected(top)
    BY <2>1, <1>1, <1>2, ExpectedGrows DEF AtTop
  <2>3. Expected(syncIndex) = syncOutput
    <3>1. {d \in droppedIndices : d < syncIndex} = {}
      BY <1>1, DroppedIndices DEF DropsMatch, TypeFacts
    <3> QED
      BY <3>1, <1>1, FS_EmptySet DEF Expected, TypeFacts
  <2>4. syncOutput - 1 <= Expected(top)
    <3>1. Expected(syncIndex) <= Expected(top)
      BY <2>2, <1>4 DEF Synced
    <3> QED
      BY <3>1, <2>3, <1>1, <1>2 DEF TypeFacts
  <2>5. S \subseteq Int /\ Expected(top) \in S /\ \A y \in S : y <= Expected(top)
    BY <1>2, <2>2, <2>4
  <2>6. \A y \in S : Expected(top) >= y
    BY <2>5
  <2> HIDE DEF S
  <2>7. Max(S) = Expected(top)
    BY <2>5, <2>6, MaxIs
  <2> QED
    BY <2>1, <2>7, <1>2 DEF AtTop, Highest, S
<1> QED
  BY <1>1, <1>3, <1>4

\* The packets that may come are less than half the range from the greatest one sent.
LEMMA ArrivingNear ==
    ASSUME DropsInRange, TypeFacts, DropsMatch, Synced,
           NEW top \in DOMAIN outputs, AtTop(top), NEW k \in Arriving
    PROVE  /\ k \in Int /\ top \in Int /\ next \in Int /\ k # top /\ top < next
           /\ k < top => top - k < Half
           /\ top < k => k - top < Half
<1>1. /\ k \in 0 .. MaxIndex /\ next - MaxLate <= k /\ k <= next + MaxSkip
      /\ k \notin DOMAIN outputs
  BY DEF Arriving
<1>2. /\ MaxIndex \in Nat /\ MaxSkip \in Nat /\ MaxLate \in Nat /\ Half \in Int
      /\ MaxSkip + MaxLate + 1 < Half
  BY HalfBounds
<1>3. top \in Int /\ next \in Int /\ top < next /\ k \in Int
  BY <1>1, <1>2 DEF TypeFacts, Synced
<1>4. k < top => top - k < Half
  BY <1>1, <1>2, <1>3
<1>5. ASSUME top < k PROVE k - top < Half
  <2>1. CASE top = next - 1
    BY <1>1, <1>2, <1>3, <2>1
  <2>2. ASSUME NEW d \in droppedIndices, d <= top + MaxSkip + 1 PROVE k - top < Half
    <3>1. d \in Droppable /\ d \in Int
      BY DroppedIndices DEF DropsMatch
    <3>2. MaxIndex - d + MaxSkip + 1 < Half
      BY <3>1 DEF DropsInRange, Half
    <3> QED
      BY <1>1, <1>2, <1>3, <2>2, <3>1, <3>2
  <2> QED
    BY <2>1, <2>2 DEF AtTop
<1> QED
  BY <1>1, <1>3, <1>4, <1>5
-----------------------------------------------------------------------------
(* The steps.                                                                *)

\* What Input() leaves when it accepts a packet.
LEMMA InputValues ==
    ASSUME NEW b, NEW o, NEW i, NEW d, NEW s,
           Become(Input([base |-> b, maxOutput |-> o, maxInput |-> i, dropped |-> d], s)),
           Accepts([base |-> b, maxOutput |-> o, maxInput |-> i, dropped |-> d], s),
           NEW out,
           out = Output([base |-> b, maxOutput |-> o, maxInput |-> i, dropped |-> d], s)
    PROVE  /\ base' = b
           /\ dropped' = Kept([base |-> b, maxOutput |-> o, maxInput |-> i, dropped |-> d], s)
           /\ maxInput' = IF Wrap(s - i) < Half THEN s ELSE i
           /\ maxOutput' = IF Wrap(out - o) < Half THEN out ELSE o
<1> DEFINE m == [base |-> b, maxOutput |-> o, maxInput |-> i, dropped |-> d]
           kept == Kept(m, s)
<1>1. m.base = b /\ m.maxOutput = o /\ m.maxInput = i
  OBVIOUS
<1>2. /\ base' = Input(m, s).base /\ maxOutput' = Input(m, s).maxOutput
      /\ maxInput' = Input(m, s).maxInput /\ dropped' = Input(m, s).dropped
  BY DEF Become
<1>3. Input(m, s) =
        [m EXCEPT !.dropped = kept,
                  !.maxInput = IF Wrap(s - @) < Half THEN s ELSE @,
                  !.maxOutput = IF Wrap(out - @) < Half THEN out ELSE @]
  BY DEF Input, Half
<1> HIDE DEF kept
<1>4. /\ Input(m, s).base = b
      /\ Input(m, s).dropped = kept
      /\ Input(m, s).maxInput = IF Wrap(s - i) < Half THEN s ELSE i
      /\ Input(m, s).maxOutput = IF Wrap(out - o) < Half THEN out ELSE o
  BY <1>3
<1> QED
  BY <1>2, <1>4 DEF kept

\* At first.
LEMMA SQInit == Init => SQInv
<1> SUFFICES ASSUME Init PROVE SQInv
  OBVIOUS
<1>1. /\ base = 0 /\ maxOutput = 0 /\ maxInput = 0 /\ dropped = {} /\ next = 0
      /\ syncIndex = -1 /\ syncOutput = 1 /\ outputs = <<>> /\ droppedIndices = {}
  BY DEF Init
<1>2. DOMAIN outputs = {} /\ outputs = [k \in DOMAIN outputs |-> outputs[k]]
  BY <1>1
<1>3. 0 \in Seqs /\ MaxIndex \in Nat /\ Wrap(1 - 1) = 0
  BY SeqModulusAssumption, SeqManagerAssumption, WrapSmall DEF Seqs
<1>4. TypeFacts
  BY <1>1, <1>2, <1>3 DEF TypeFacts
<1>5. DropsMatch
  BY <1>1 DEF DropsMatch
<1>6. Unsynced
  BY <1>1, <1>2, <1>3 DEF Unsynced
<1>7. Contiguous
  BY <1>2 DEF Contiguous
<1> QED
  BY <1>4, <1>5, <1>6, <1>7 DEF SQInv

\* After a synchronisation the packet is sent with the number after the highest.
LEMMA SyncKeeps ==
    ASSUME SQInv, NEW k \in 0 .. MaxIndex, SyncPacket(k)
    PROVE  SQInv'
<1> DEFINE s == SeqOf(k)
           i == Wrap(s - 1)
           b == Wrap(maxOutput - i)
           m == [base |-> b, maxOutput |-> maxOutput, maxInput |-> i, dropped |-> {}]
           out == Output(m, s)
<1>1. Sync(Manager, i) = m
  BY DEF Sync, Manager
<1>2. /\ Become(Input(m, s)) /\ syncIndex' = k /\ syncOutput' = Highest + 1
      /\ outputs' = [j \in {k} |-> out] /\ droppedIndices' = {} /\ Seen(k)
      /\ k \in Arriving /\ k >= next
  BY <1>1 DEF SyncPacket
<1>3. /\ k \in Int /\ s \in Seqs /\ s \in Int /\ s = Wrap(FirstSeq + k)
      /\ FirstSeq \in Int /\ FirstSeq + k \in Int /\ MaxIndex \in Nat
  <2>1. k \in Int
    BY HalfBounds
  <2> QED
    BY <2>1, HalfBounds, SeqOfType DEF SeqOf
<1>4. Highest \in Int /\ maxOutput = Wrap(Highest) /\ TypeFacts
  BY HighestKnown DEF SQInv
<1>5. maxOutput \in Int /\ i \in Int /\ i \in Seqs /\ b \in Int /\ b \in Seqs
  <2>1. maxOutput \in Int
    BY <1>4, Division
  <2>2. i \in Int /\ i \in Seqs
    <3>1. s - 1 \in Int
      BY <1>3
    <3> QED
      BY <3>1, WrapType
  <2>3. b \in Int /\ b \in Seqs
    <3>1. maxOutput - i \in Int
      BY <2>1, <2>2
    <3> QED
      BY <3>1, WrapType
  <2> QED
    BY <2>1, <2>2, <2>3
<1>6. Kept(m, s) = {} /\ Counted(m, s) = {} /\ Accepts(m, s)
  BY DEF Kept, Counted, Accepts
<1>7. Wrap(1) = 1 /\ 1 < Half /\ Half \in Int
  <2>1. 1 < SeqModulus /\ 1 < Half
    BY HalfBounds
  <2> QED
    BY <2>1, WrapSmall, HalfBounds
<1>8. Wrap(s - i) = 1
  <2>1. Wrap(s - i) = Wrap(s - (s - 1))
    <3>1. s - 1 \in Int
      BY <1>3
    <3> HIDE DEF s
    <3> QED
      BY <3>1, <1>3, WrapSum
  <2> QED
    BY <2>1, <1>3, <1>7
<1>9. b = Wrap((Highest + 1) - (FirstSeq + k))
  <2>1. b = Wrap(maxOutput - (s - 1))
    <3>1. s - 1 \in Int
      BY <1>3
    <3> HIDE DEF s
    <3> QED
      BY <3>1, <1>5, WrapSum
  <2>2. Wrap((maxOutput + 1) - s) = Wrap((maxOutput + 1) - (FirstSeq + k))
    BY <1>3, <1>5, WrapSum
  <2>3. Wrap(Wrap(Highest) + (1 - (FirstSeq + k))) = Wrap(Highest + (1 - (FirstSeq + k)))
    BY <1>3, <1>4, WrapSum
  <2>4. /\ maxOutput - (s - 1) = (maxOutput + 1) - s
        /\ (maxOutput + 1) - (FirstSeq + k) = maxOutput + (1 - (FirstSeq + k))
        /\ Highest + (1 - (FirstSeq + k)) = (Highest + 1) - (FirstSeq + k)
    BY <1>3, <1>4, <1>5
  <2> HIDE DEF s, i, b
  <2> QED
    BY <2>1, <2>2, <2>3, <2>4, <1>4
<1>10. out = Wrap(Highest + 1)
  <2>1. out = Wrap(s + b - 0)
    BY <1>6, FS_EmptySet DEF Output
  <2> HIDE DEF out, m
  <2>2. out = Wrap(b + s)
    BY <2>1, <1>3, <1>5
  <2>3. Wrap(b + s) = Wrap(((Highest + 1) - (FirstSeq + k)) + s)
    <3> DEFINE h == (Highest + 1) - (FirstSeq + k)
    <3>1. h \in Int
      BY <1>3, <1>4
    <3> HIDE DEF h
    <3>2. Wrap(Wrap(h) + s) = Wrap(h + s)
      BY <3>1, <1>3, WrapSum
    <3> QED
      BY <3>2, <1>9 DEF h
  <2>4. Wrap(s + ((Highest + 1) - (FirstSeq + k)))
          = Wrap((FirstSeq + k) + ((Highest + 1) - (FirstSeq + k)))
    BY <1>3, <1>4, WrapSum
  <2>5. /\ ((Highest + 1) - (FirstSeq + k)) + s = s + ((Highest + 1) - (FirstSeq + k))
        /\ (FirstSeq + k) + ((Highest + 1) - (FirstSeq + k)) = Highest + 1
    BY <1>3, <1>4
  <2> HIDE DEF s, b
  <2> QED
    BY <2>2, <2>3, <2>4, <2>5
<1>11. Wrap(out - maxOutput) = 1 /\ out \in Seqs
  <2>1. Wrap(Wrap(Highest + 1) - Wrap(Highest)) = Wrap((Highest + 1) - Highest)
        /\ Wrap(Highest + 1) \in Seqs
    <3>1. Highest + 1 \in Int
      BY <1>4
    <3> QED
      BY <3>1, <1>4, WrapDifference
  <2>2. (Highest + 1) - Highest = 1
    BY <1>4
  <2> HIDE DEF out
  <2> QED
    BY <2>1, <2>2, <1>4, <1>7, <1>10
<1>12. /\ base' = b /\ dropped' = {}
       /\ maxInput' = IF Wrap(s - i) < Half THEN s ELSE i
       /\ maxOutput' = IF Wrap(out - maxOutput) < Half THEN out ELSE maxOutput
  <2> HIDE DEF s, i, b, out
  <2>1. out = Output([base |-> b, maxOutput |-> maxOutput, maxInput |-> i,
                      dropped |-> {}], s)
    BY DEF out
  <2>2. /\ Become(Input([base |-> b, maxOutput |-> maxOutput, maxInput |-> i,
                          dropped |-> {}], s))
        /\ Accepts([base |-> b, maxOutput |-> maxOutput, maxInput |-> i, dropped |-> {}], s)
    BY <1>2, <1>6
  <2>3. Kept([base |-> b, maxOutput |-> maxOutput, maxInput |-> i, dropped |-> {}], s) = {}
    BY <1>6
  <2>4. /\ base' = b
        /\ dropped' = Kept([base |-> b, maxOutput |-> maxOutput, maxInput |-> i,
                            dropped |-> {}], s)
        /\ maxInput' = IF Wrap(s - i) < Half THEN s ELSE i
        /\ maxOutput' = IF Wrap(out - maxOutput) < Half THEN out ELSE maxOutput
    BY <2>1, <2>2, InputValues
  <2> QED
    BY <2>3, <2>4
<1>13. maxInput' = s /\ maxOutput' = out
  BY <1>7, <1>8, <1>11, <1>12
<1> HIDE DEF out, m, b, i
<1>14. next' = k + 1
  BY <1>2 DEF Seen
<1>15. DOMAIN outputs' = {k} /\ outputs'[k] = out
       /\ outputs' = [j \in DOMAIN outputs' |-> outputs'[j]]
  BY <1>2
<1>16. Expected(k)' = Highest + 1
  <2>1. {d \in droppedIndices' : d < k} = {}
    BY <1>2
  <2>2. Expected(k)' = (Highest + 1) + (k - k) - Cardinality({})
    BY <2>1, <1>2 DEF Expected
  <2> QED
    BY <2>2, <1>3, <1>4, FS_EmptySet
<1>17. TypeFacts'
  <2>1. base' \in Seqs /\ maxOutput' \in Seqs /\ maxInput' \in Seqs
    BY <1>3, <1>5, <1>11, <1>12, <1>13
  <2>2. next' \in 0 .. MaxIndex + 1 /\ syncIndex' \in Int /\ syncOutput' \in Int
    BY <1>2, <1>3, <1>4, <1>14
  <2> QED
    BY <2>1, <2>2, <1>15 DEF TypeFacts
<1>18. DropsMatch'
  BY <1>2, <1>12 DEF DropsMatch
<1>19. AtTop(k)'
  <2>1. \A j \in DOMAIN outputs' : j <= k
    BY <1>3, <1>15
  <2>2. k = next' - 1
    BY <1>3, <1>14
  <2> QED
    BY <2>1, <2>2, <1>10, <1>13, <1>16 DEF AtTop
<1>20. Synced'
  <2>1. syncIndex' \in DOMAIN outputs' /\ k \in DOMAIN outputs'
    BY <1>2, <1>15
  <2>2. \A j \in DOMAIN outputs' : syncIndex' <= j /\ j < next'
    BY <1>2, <1>3, <1>14, <1>15
  <2>3. base' = Wrap(syncOutput' - (FirstSeq + syncIndex'))
    BY <1>2, <1>9, <1>12
  <2> QED
    BY <2>1, <2>2, <2>3, <1>19 DEF Synced
<1>21. Contiguous'
  BY <1>10, <1>15, <1>16 DEF Contiguous
<1> QED
  BY <1>17, <1>18, <1>20, <1>21 DEF SQInv

\* The code neither forgets nor miscounts a drop for a packet that may come now,
\* which so gets the number it should have.
LEMMA ForwardCounts ==
    ASSUME DropsInRange, SQInv, Synced, NEW k \in Arriving
    PROVE  /\ k \notin droppedIndices
           /\ Kept(Manager, SeqOf(k)) = dropped
           /\ Accepts(Manager, SeqOf(k))
           /\ Output(Manager, SeqOf(k)) = Wrap(Expected(k))
<1> DEFINE s == SeqOf(k)
           D == droppedIndices
<1>1. TypeFacts /\ DropsMatch /\ Manager.dropped = dropped /\ Manager.base = base
  BY DEF SQInv, Manager
<1>2. /\ k \in 0 .. MaxIndex /\ next - MaxLate <= k /\ (k \in D => Repeats)
      /\ k \in Int /\ next \in Int /\ MaxLate \in Nat /\ MaxIndex \in Nat
      /\ MaxLate < Half /\ Half \in Int
  BY <1>1, HalfBounds DEF Arriving, TypeFacts
<1>3. k \notin D
  BY <1>2 DEF DropsInRange
<1>4. \A d \in D : d \in Int /\ d \in Droppable /\ d < next /\ d # k
                  /\ k \in d + 1 - MaxLate .. MaxIndex
  BY <1>1, <1>2, <1>3, DroppedIndices DEF DropsMatch
<1>5. \A d \in D : ~SeqLowerThan(SeqOf(d), Wrap(s - Half)) /\ (SeqOf(d) < s <=> d < k)
  BY <1>4 DEF DropsInRange, Half
<1>6. \A d \in D : SeqOf(d) # s
  <2>1. ASSUME NEW d \in D PROVE SeqOf(d) # s
    <3>1. d \in Int /\ d # k /\ d < next
      BY <1>4
    <3>2. CASE d < k
      <4>1. SeqOf(d) < s /\ SeqOf(d) \in Int /\ s \in Int
        BY <1>2, <1>5, <3>1, <3>2, SeqOfType
      <4> QED
        BY <4>1
    <3>3. CASE k < d
      <4>1. d - k < Half
        BY <1>2, <3>1
      <4> QED
        BY <1>2, <3>1, <3>3, <4>1, SeqOfAhead
    <3> QED
      BY <1>2, <3>1, <3>2, <3>3
  <2> QED
    BY <2>1
<1>7. dropped = {SeqOf(d) : d \in D}
  BY <1>1 DEF DropsMatch
<1>8. Kept(Manager, s) = dropped
  <2>1. Kept(Manager, s) = {i \in dropped : ~SeqLowerThan(i, Wrap(s - Half))}
    BY <1>1 DEF Kept, Half
  <2> HIDE DEF s
  <2> QED
    <3>1. \A i \in dropped : ~SeqLowerThan(i, Wrap(s - Half))
      BY <1>5, <1>7
    <3> QED
      BY <2>1, <3>1
<1>9. Accepts(Manager, s)
  BY <1>6, <1>7, <1>8 DEF Accepts
<1>10. Counted(Manager, s) = {SeqOf(d) : d \in Before(D, k)}
  <2>1. Counted(Manager, s) = {i \in dropped : i < s}
    BY <1>8 DEF Counted
  <2> DEFINE C == {SeqOf(d) : d \in Before(D, k)}
  <2>2. \A i \in dropped : i < s => i \in C
    <3> SUFFICES ASSUME NEW i \in dropped, i < s PROVE i \in C
      OBVIOUS
    <3>1. PICK d \in D : i = SeqOf(d)
      BY <1>7
    <3>2. d \in Before(D, k)
      BY <3>1, <1>5 DEF Before
    <3> QED
      BY <3>1, <3>2
  <2>3. \A i \in C : i \in dropped /\ i < s
    <3> SUFFICES ASSUME NEW d \in Before(D, k) PROVE SeqOf(d) \in dropped /\ SeqOf(d) < s
      OBVIOUS
    <3>1. d \in D /\ d < k
      BY DEF Before
    <3> QED
      BY <3>1, <1>5, <1>7
  <2> HIDE DEF s, D, C
  <2>4. Counted(Manager, s) = C
    BY <2>1, <2>2, <2>3
  <2> QED
    BY <2>4 DEF C
<1>11. Cardinality(Counted(Manager, s)) = Cardinality(Before(D, k))
  <2>1. Before(D, k) \subseteq 0 .. MaxIndex
    BY <1>1, DroppedIndices DEF Before
  <2>2. ASSUME NEW i \in Before(D, k), NEW j \in Before(D, k), j < i
        PROVE  SeqOf(i) # SeqOf(j)
    <3>1. i \in Int /\ j \in Int /\ j \in Droppable /\ i <= MaxIndex
      BY <1>4, <2>1 DEF Before
    <3>2. MaxIndex - j + MaxSkip + 1 < Half /\ MaxSkip \in Nat
      BY <3>1, HalfBounds DEF DropsInRange, Half
    <3>3. i - j < Half
      BY <1>2, <3>1, <3>2
    <3> QED
      BY <2>2, <3>1, <3>3, SeqOfAhead
  <2>3. \A i, j \in Before(D, k) : SeqOf(i) = SeqOf(j) => i = j
    BY <2>1, <2>2, <1>2
  <2> HIDE DEF D
  <2> QED
    BY <2>1, <2>3, <1>10, CountNumbers
<1>12. Output(Manager, s) = Wrap(Expected(k))
  <2> DEFINE n == Cardinality(Before(D, k))
             p == syncOutput - (FirstSeq + syncIndex)
  <2>1. n \in Nat
    BY <1>1, <1>2, DroppedIndices, CountGrows
  <2>2. Expected(k) = syncOutput + (k - syncIndex) - n
    BY Zenon DEF Expected, Before
  <2>3. Output(Manager, s) = Wrap(s + base - n)
    BY <1>1, <1>11 DEF Output
  <2>4. /\ base = Wrap(p) /\ p \in Int /\ FirstSeq + k \in Int /\ s = Wrap(FirstSeq + k)
        /\ syncOutput \in Int /\ syncIndex \in Int /\ FirstSeq \in Int
    BY <1>1, <1>2, HalfBounds DEF Synced, TypeFacts, SeqOf
  <2>5. s \in Int /\ base \in Int
    BY <2>4, WrapType
  <2> HIDE DEF n, s
  <2>6. Wrap(s + (base - n)) = Wrap((FirstSeq + k) + (base - n))
    <3>1. base - n \in Int
      BY <2>1, <2>5
    <3> QED
      BY <3>1, <2>4, WrapSum
  <2>7. Wrap(base + ((FirstSeq + k) - n)) = Wrap(p + ((FirstSeq + k) - n))
    <3>1. (FirstSeq + k) - n \in Int
      BY <2>1, <2>4
    <3> HIDE DEF p
    <3> QED
      BY <3>1, <2>4, WrapSum
  <2>8. /\ s + base - n = s + (base - n)
        /\ (FirstSeq + k) + (base - n) = base + ((FirstSeq + k) - n)
        /\ p + ((FirstSeq + k) - n) = syncOutput + (k - syncIndex) - n
    BY <2>1, <2>4, <2>5, <1>2
  <2> QED
    BY <2>2, <2>3, <2>6, <2>7, <2>8
<1> QED
  BY <1>3, <1>8, <1>9, <1>12

\* A packet that is forwarded.
LEMMA ForwardKeeps ==
    ASSUME DropsInRange, SQInv, NEW k \in 0 .. MaxIndex, ForwardPacket(k)
    PROVE  SQInv'
<1> DEFINE s == SeqOf(k)
           out == Wrap(Expected(k))
<1>1. TypeFacts /\ DropsMatch /\ Contiguous /\ Synced
  BY DEF SQInv, Unsynced, ForwardPacket
<1>2. /\ k \in Arriving /\ Become(Input(Manager, s)) /\ Seen(k)
      /\ syncIndex' = syncIndex /\ syncOutput' = syncOutput
      /\ droppedIndices' = droppedIndices
  BY DEF ForwardPacket
<1>3. /\ k \notin droppedIndices /\ Kept(Manager, s) = dropped
      /\ Accepts(Manager, s) /\ Output(Manager, s) = out
  BY <1>1, <1>2, ForwardCounts
<1>4. outputs' = [i \in DOMAIN outputs \cup {k} |-> IF i = k THEN out ELSE outputs[i]]
  BY <1>3 DEF ForwardPacket
<1>5. /\ k \in Int /\ k >= syncIndex /\ k \notin DOMAIN outputs
      /\ k <= MaxIndex /\ 0 <= k /\ MaxIndex \in Nat /\ MaxSkip \in Nat
  BY <1>2, HalfBounds DEF Arriving
<1>6. /\ base' = base /\ dropped' = dropped
      /\ maxInput' = IF Wrap(s - maxInput) < Half THEN s ELSE maxInput
      /\ maxOutput' = IF Wrap(out - maxOutput) < Half THEN out ELSE maxOutput
  <2> DEFINE m == [base |-> base, maxOutput |-> maxOutput, maxInput |-> maxInput,
                   dropped |-> dropped]
  <2>1. Manager = m
    BY DEF Manager
  <2> HIDE DEF s, out
  <2>2. Become(Input(m, s)) /\ Accepts(m, s) /\ out = Output(m, s) /\ Kept(m, s) = dropped
    BY <2>1, <1>2, <1>3
  <2>3. /\ base' = base
        /\ dropped' = Kept(m, s)
        /\ maxInput' = IF Wrap(s - maxInput) < Half THEN s ELSE maxInput
        /\ maxOutput' = IF Wrap(out - maxOutput) < Half THEN out ELSE maxOutput
    BY <2>2, InputValues
  <2> QED
    BY <2>2, <2>3
<1>7. PICK top \in DOMAIN outputs : AtTop(top)
  BY <1>1 DEF Synced
<1>8. /\ top \in Int /\ next \in Int /\ k # top /\ top < next
      /\ k < top => top - k < Half
      /\ top < k => k - top < Half
  BY <1>1, <1>2, <1>7, ArrivingNear
<1>9. \A j : Expected(j)' = Expected(j)
  BY <1>2, Zenon DEF Expected
<1>10. /\ DOMAIN outputs' = DOMAIN outputs \cup {k}
       /\ outputs'[k] = out
       /\ \A j \in DOMAIN outputs : outputs'[j] = outputs[j]
       /\ outputs' = [j \in DOMAIN outputs' |-> outputs'[j]]
  BY <1>4, <1>5
<1>11. /\ next' \in Int /\ next <= next' /\ k < next' /\ next' \in 0 .. MaxIndex + 1
       /\ k < next => next' = next
       /\ ~(k < next) => next' = k + 1
  BY <1>1, <1>2, <1>5, <1>8 DEF Seen, TypeFacts
<1>12. Expected(k) \in Int /\ Expected(top) \in Int /\ Half \in Int /\ 0 < Half
  BY <1>1, <1>5, <1>8, ExpectedGrows, HalfBounds
<1>13. s \in Seqs /\ out \in Seqs
  BY <1>5, <1>12, SeqOfType, WrapType
<1>14. TypeFacts'
  <2>1. base' \in Seqs /\ maxOutput' \in Seqs /\ maxInput' \in Seqs
    BY <1>1, <1>6, <1>13 DEF TypeFacts
  <2> QED
    BY <2>1, <1>1, <1>2, <1>10, <1>11 DEF TypeFacts
<1>15. DropsMatch'
  BY <1>1, <1>2, <1>3, <1>6, <1>8, <1>10, <1>11, DroppedIndices DEF DropsMatch
<1>16. Contiguous'
  BY <1>1, <1>9, <1>10 DEF Contiguous
<1>17. ASSUME NEW t \in DOMAIN outputs', AtTop(t)' PROVE Synced'
  <2>1. syncIndex' \in DOMAIN outputs' /\ syncIndex' \in Int
    BY <1>1, <1>2, <1>10 DEF Synced, TypeFacts
  <2>2. \A j \in DOMAIN outputs : j \in Int
    BY <1>1, <1>5 DEF TypeFacts
  <2>3. \A j \in DOMAIN outputs' : syncIndex' <= j /\ j < next'
    BY <1>1, <1>2, <1>5, <1>8, <1>10, <1>11, <2>2 DEF Synced
  <2>4. base' = Wrap(syncOutput' - (FirstSeq + syncIndex'))
    BY <1>1, <1>2, <1>6 DEF Synced
  <2> QED
    BY <2>1, <2>3, <2>4, <1>17 DEF Synced
<1>18. \A j \in DOMAIN outputs : j \in Int /\ j <= top
  BY <1>1, <1>5, <1>7 DEF AtTop, TypeFacts
<1>19. CASE top < k
  <2>1. \A j \in DOMAIN outputs' : j <= k
    BY <1>5, <1>8, <1>10, <1>18, <1>19
  <2>2. maxInput' = s
    BY <1>5, <1>6, <1>7, <1>8, <1>19, SeqOfAhead DEF AtTop
  <2>3. maxOutput' = out
    <3>1. Expected(top) <= Expected(k) /\ Expected(k) - Expected(top) < Half
      <4>1. Expected(top) <= Expected(k) /\ Expected(k) - Expected(top) <= k - top
        BY <1>1, <1>5, <1>8, <1>19, ExpectedGrows
      <4> QED
        BY <4>1, <1>5, <1>8, <1>12, <1>19
    <3>2. Wrap(out - Wrap(Expected(top))) < Half
      <4>1. CASE Expected(top) < Expected(k)
        BY <1>12, <3>1, <4>1, Ahead
      <4>2. CASE Expected(top) = Expected(k)
        <5>1. out - Wrap(Expected(top)) = 0
          BY <1>12, <4>2, WrapType
        <5>2. Wrap(0) = 0
          BY WrapSmall, SeqModulusAssumption
        <5> QED
          BY <5>1, <5>2, <1>12
      <4> QED
        BY <1>12, <3>1, <4>1, <4>2
    <3> QED
      BY <3>2, <1>6, <1>7 DEF AtTop
  <2>4. k = next' - 1 \/ \E d \in droppedIndices' : d <= k + MaxSkip + 1
    <3>1. CASE ~(k < next)
      BY <3>1, <1>5, <1>11
    <3>2. CASE k < next
      <4>1. top # next - 1
        BY <3>2, <1>5, <1>8, <1>19
      <4>2. PICK d \in droppedIndices : d <= top + MaxSkip + 1
        BY <4>1, <1>7 DEF AtTop
      <4>3. d \in Int /\ d <= k + MaxSkip + 1
        BY <4>2, <1>1, <1>5, <1>8, <1>19, DroppedIndices
      <4> QED
        BY <4>3, <1>2
    <3> QED
      BY <3>1, <3>2
  <2>5. AtTop(k)'
    <3>1. maxOutput' = Wrap(Expected(k)')
      BY <2>3, <1>9
    <3> QED
      BY <2>1, <2>2, <3>1, <2>4 DEF AtTop
  <2>6. Synced'
    BY <2>5, <1>10, <1>17
  <2> QED
    BY <2>6, <1>14, <1>15, <1>16 DEF SQInv
<1>20. CASE k < top
  <2>1. \A j \in DOMAIN outputs' : j <= top
    BY <1>5, <1>8, <1>10, <1>18, <1>20
  <2>2. maxInput' = maxInput
    BY <1>5, <1>6, <1>7, <1>8, <1>20, SeqOfAhead DEF AtTop
  <2>3. maxOutput' = maxOutput
    <3>1. Expected(k) < Expected(top) /\ Expected(top) - Expected(k) < Half
      <4>1. Expected(k) < Expected(top) /\ Expected(top) - Expected(k) <= top - k
        BY <1>1, <1>3, <1>5, <1>8, <1>20, ExpectedGrows
      <4> QED
        BY <4>1, <1>5, <1>8, <1>12, <1>20
    <3>2. ~(Wrap(out - Wrap(Expected(top))) < Half)
      BY <1>12, <3>1, Ahead
    <3> QED
      BY <3>2, <1>6, <1>7 DEF AtTop
  <2>4. next' = next
    BY <1>5, <1>8, <1>11, <1>20
  <2>5. AtTop(top)'
    <3>1. maxOutput' = Wrap(Expected(top)')
      BY <2>3, <1>7, <1>9 DEF AtTop
    <3>2. top = next' - 1 \/ \E d \in droppedIndices' : d <= top + MaxSkip + 1
      BY <2>4, <1>2, <1>7 DEF AtTop
    <3> QED
      BY <2>1, <2>2, <3>1, <3>2, <1>7 DEF AtTop
  <2>6. Synced'
    BY <2>5, <1>7, <1>10, <1>17
  <2> QED
    BY <2>6, <1>14, <1>15, <1>16 DEF SQInv
<1> QED
  BY <1>5, <1>8, <1>19, <1>20

\* A packet that is dropped: after all that were sent, when the code marks it, or
\* too late, when it does not.
LEMMA DropKeeps ==
    ASSUME DropsInRange, SQInv, NEW k \in 0 .. MaxIndex, DropPacket(k)
    PROVE  SQInv'
<1> DEFINE s == SeqOf(k)
<1>1. TypeFacts /\ DropsMatch /\ Contiguous /\ Synced
  BY DEF SQInv, Unsynced, DropPacket
<1>2. /\ k \in Arriving /\ k \in Droppable /\ Become(Drop(Manager, s)) /\ Seen(k)
      /\ droppedIndices' = (IF \A i \in DOMAIN outputs : i < k
                            THEN droppedIndices \cup {k} ELSE droppedIndices)
      /\ syncIndex' = syncIndex /\ syncOutput' = syncOutput /\ outputs' = outputs
  BY DEF DropPacket
<1>3. /\ k \in Int /\ k >= syncIndex /\ k \notin DOMAIN outputs /\ k <= next + MaxSkip
      /\ k <= MaxIndex /\ 0 <= k /\ MaxIndex \in Nat /\ MaxSkip \in Nat
  BY <1>2, HalfBounds DEF Arriving
<1>4. PICK top \in DOMAIN outputs : AtTop(top)
  BY <1>1 DEF Synced
<1>5. /\ top \in Int /\ next \in Int /\ k # top /\ top < next
      /\ k < top => top - k < Half
      /\ top < k => k - top < Half
  BY <1>1, <1>2, <1>4, ArrivingNear
<1>6. \A j \in DOMAIN outputs : j \in Int /\ j <= top
  BY <1>1, <1>3, <1>4 DEF AtTop, TypeFacts
<1>7. (\A i \in DOMAIN outputs : i < k) <=> top < k
  BY <1>3, <1>5, <1>6
<1>8. SeqHigherThan(s, maxInput) <=> top < k
  <2>1. CASE top < k
    BY <2>1, <1>3, <1>4, <1>5, SeqOfAhead DEF AtTop
  <2>2. CASE k < top
    BY <2>2, <1>3, <1>4, <1>5, SeqOfAhead DEF AtTop
  <2> QED
    BY <2>1, <2>2, <1>3, <1>5
<1>9. /\ base' = base /\ maxOutput' = maxOutput /\ maxInput' = maxInput
      /\ dropped' = (IF top < k THEN dropped \cup {s} ELSE dropped)
  <2> HIDE DEF s
  <2>1. /\ base' = Drop(Manager, s).base /\ maxOutput' = Drop(Manager, s).maxOutput
        /\ maxInput' = Drop(Manager, s).maxInput /\ dropped' = Drop(Manager, s).dropped
    BY <1>2 DEF Become
  <2>2. CASE top < k
    <3>1. Drop(Manager, s) = [Manager EXCEPT !.dropped = @ \cup {s}]
      BY <1>8, <2>2 DEF Drop, Manager
    <3> QED
      BY <2>1, <2>2, <3>1 DEF Manager
  <2>3. CASE ~(top < k)
    <3>1. Drop(Manager, s) = Manager
      BY <1>8, <2>3 DEF Drop, Manager
    <3> QED
      BY <2>1, <2>3, <3>1 DEF Manager
  <2> QED
    BY <2>2, <2>3
<1>10. droppedIndices' = (IF top < k THEN droppedIndices \cup {k} ELSE droppedIndices)
  BY <1>2, <1>7
<1>11. /\ next' \in Int /\ next <= next' /\ k < next' /\ next' \in 0 .. MaxIndex + 1
       /\ k < next => next' = next
       /\ ~(k < next) => next' = k + 1
  BY <1>1, <1>2, <1>3, <1>5 DEF Seen, TypeFacts
<1>12. \A j \in DOMAIN outputs : Expected(j)' = Expected(j)
  <2> SUFFICES ASSUME NEW j \in DOMAIN outputs PROVE Expected(j)' = Expected(j)
    OBVIOUS
  <2>1. {d \in droppedIndices' : d < j} = {d \in droppedIndices : d < j}
    BY <1>3, <1>5, <1>6, <1>10
  <2>2. Expected(j)' = syncOutput' + (j - syncIndex')
                         - Cardinality({d \in droppedIndices' : d < j})
    BY DEF Expected
  <2> QED
    BY <2>1, <2>2, <1>2 DEF Expected
<1>13. TypeFacts'
  BY <1>1, <1>2, <1>9, <1>11 DEF TypeFacts
<1>14. DropsMatch'
  <2>1. \A d \in droppedIndices : d \in Int
    BY <1>1, DroppedIndices
  <2>2. dropped' = {SeqOf(d) : d \in droppedIndices'}
    <3>1. dropped = {SeqOf(d) : d \in droppedIndices}
      BY <1>1 DEF DropsMatch
    <3> QED
      BY <3>1, <1>9, <1>10
  <2>3. droppedIndices' \subseteq Droppable
    BY <1>1, <1>2, <1>10 DEF DropsMatch
  <2>4. syncIndex < k
    BY <1>1, <1>3 DEF Synced, TypeFacts
  <2>5. \A d \in droppedIndices' : syncIndex' < d /\ d < next' /\ d \notin DOMAIN outputs'
    BY <2>1, <2>4, <1>1, <1>2, <1>3, <1>5, <1>10, <1>11 DEF DropsMatch
  <2> QED
    BY <2>2, <2>3, <2>5 DEF DropsMatch
<1>15. Contiguous'
  BY <1>1, <1>2, <1>12 DEF Contiguous
<1>16. AtTop(top)'
  <2>1. top = next' - 1 \/ \E d \in droppedIndices' : d <= top + MaxSkip + 1
    <3>1. CASE top < k /\ top = next - 1
      <4>1. k \in droppedIndices' /\ k <= top + MaxSkip + 1
        BY <3>1, <1>3, <1>5, <1>10
      <4> QED
        BY <4>1
    <3>2. CASE k < top /\ top = next - 1
      <4>1. next' = next
        BY <3>2, <1>3, <1>5, <1>11
      <4> QED
        BY <4>1, <3>2
    <3>3. ASSUME NEW d \in droppedIndices, d <= top + MaxSkip + 1
          PROVE  \E e \in droppedIndices' : e <= top + MaxSkip + 1
      BY <3>3, <1>10
    <3> QED
      BY <3>1, <3>2, <3>3, <1>3, <1>4, <1>5 DEF AtTop
  <2>2. maxOutput' = Wrap(Expected(top)')
    BY <1>4, <1>9, <1>12 DEF AtTop
  <2> QED
    BY <2>1, <2>2, <1>2, <1>4, <1>9 DEF AtTop
<1>17. Synced'
  <2>1. \A j \in DOMAIN outputs' : syncIndex' <= j /\ j < next'
    BY <1>1, <1>2, <1>5, <1>6, <1>11 DEF Synced
  <2> QED
    BY <2>1, <1>1, <1>2, <1>4, <1>9, <1>16 DEF Synced
<1> QED
  BY <1>13, <1>14, <1>15, <1>17 DEF SQInv
-----------------------------------------------------------------------------
(* The theorems.                                                             *)

\* The invariant is one: where drops are in range, whatever packets are lost, come
\* late, are dropped or synchronised to.
THEOREM RenumberingHolds == DropsInRange => (Spec => []SQInv)
<1> SUFFICES ASSUME DropsInRange PROVE Spec => []SQInv
  OBVIOUS
<1>1. Init => SQInv
  BY SQInit
<1>2. SQInv /\ [Next]_vars => SQInv'
  <2> SUFFICES ASSUME SQInv, [Next]_vars PROVE SQInv'
    OBVIOUS
  <2>1. ASSUME NEW k \in 0 .. MaxIndex, SyncPacket(k) PROVE SQInv'
    BY <2>1, SyncKeeps
  <2>2. ASSUME NEW k \in 0 .. MaxIndex, ForwardPacket(k) PROVE SQInv'
    BY <2>2, ForwardKeeps
  <2>3. ASSUME NEW k \in 0 .. MaxIndex, DropPacket(k) PROVE SQInv'
    BY <2>3, DropKeeps
  <2>4. CASE UNCHANGED vars
    <3>1. \A j : Expected(j)' = Expected(j)
      BY <2>4, Zenon DEF vars, Expected
    <3>2. TypeFacts' /\ DropsMatch'
      BY <2>4 DEF SQInv, vars, TypeFacts, DropsMatch
    <3>3. Contiguous'
      BY <2>4, <3>1 DEF SQInv, vars, Contiguous
    <3>4. \A t : AtTop(t) => AtTop(t)'
      BY <2>4, <3>1 DEF vars, AtTop
    <3>5. (Unsynced \/ Synced)'
      BY <2>4, <3>4 DEF SQInv, vars, Unsynced, Synced
    <3> QED
      BY <3>2, <3>3, <3>5 DEF SQInv
  <2> QED
    BY <2>1, <2>2, <2>3, <2>4 DEF Next
<1> QED
  BY <1>1, <1>2, PTL DEF Spec

\* Every packet is sent with the number it should have, where drops are in range.
LEMMA ContiguousInRange == DropsInRange => (Spec => []Contiguous)
<1>1. SQInv => Contiguous
  BY DEF SQInv
<1> QED
  BY <1>1, RenumberingHolds, PTL

\* A stream of which nothing is dropped is renumbered right however long it is, over
\* any number of wraps of its sequence numbers, losses, late packets and switches.
THEOREM NeverWrongWithoutDrops == Droppable = {} /\ ~Repeats => (Spec => []Contiguous)
<1>1. Droppable = {} /\ ~Repeats => DropsInRange
  BY DEF DropsInRange
<1> QED
  BY <1>1, ContiguousInRange

\* Two packets less than a cycle apart are never sent with the same number, where
\* drops are in range.
LEMMA DistinctInRange == DropsInRange => (Spec => []OutputsDistinct)
<1> SUFFICES ASSUME DropsInRange PROVE Spec => []OutputsDistinct
  OBVIOUS
<1>1. SQInv => OutputsDistinct
  <2> SUFFICES ASSUME SQInv PROVE OutputsDistinct
    OBVIOUS
  <2>1. TypeFacts /\ DropsMatch /\ Contiguous
    BY DEF SQInv
  <2>2. /\ \A j \in DOMAIN outputs : j \in Int /\ 0 <= j /\ j <= MaxIndex
        /\ MaxIndex \in Nat /\ SeqModulus \in Nat
    BY <2>1, HalfBounds DEF TypeFacts
  <2>3. ASSUME NEW j \in DOMAIN outputs, NEW k \in DOMAIN outputs, j < k, k - j < SeqModulus
        PROVE  outputs[j] # outputs[k]
    <3>1. j \notin droppedIndices
      BY <2>1, <2>3 DEF DropsMatch
    <3>2. /\ Expected(j) \in Int /\ Expected(k) \in Int
          /\ Expected(j) < Expected(k) /\ Expected(k) - Expected(j) <= k - j
      BY <2>1, <2>2, <2>3, <3>1, ExpectedGrows
    <3> DEFINE e == Expected(k) - Expected(j)
    <3>3. e \in Int /\ 0 < e /\ e < SeqModulus
      BY <2>2, <2>3, <3>2
    <3> HIDE DEF e
    <3>4. Wrap(e) = e
      BY <3>3, WrapSmall
    <3>5. Wrap(Wrap(Expected(k)) - Wrap(Expected(j))) = e
      BY <3>2, <3>4, WrapDifference DEF e
    <3>6. Wrap(0) = 0
      BY WrapSmall, SeqModulusAssumption
    <3>7. Wrap(Expected(k)) # Wrap(Expected(j))
      <4>1. SUFFICES ASSUME Wrap(Expected(k)) = Wrap(Expected(j)) PROVE FALSE
        OBVIOUS
      <4>2. Wrap(Expected(k)) - Wrap(Expected(j)) = 0
        BY <4>1, <3>2, WrapType
      <4> QED
        BY <4>2, <3>3, <3>5, <3>6
    <3> QED
      BY <3>7, <2>1 DEF Contiguous
  <2>4. ASSUME NEW j \in DOMAIN outputs, NEW k \in DOMAIN outputs,
               outputs[j] = outputs[k], j - k < SeqModulus, k - j < SeqModulus
        PROVE  j = k
    BY <2>2, <2>3, <2>4
  <2> QED
    BY <2>4 DEF OutputsDistinct
<1> QED
  BY <1>1, RenumberingHolds, PTL

\* No two packets of a stream of which nothing is dropped are sent with the same number
\* but those a whole cycle apart, however long the stream is.
THEOREM NeverReusedWithoutDrops == Droppable = {} /\ ~Repeats => (Spec => []OutputsDistinct)
<1>1. Droppable = {} /\ ~Repeats => DropsInRange
  BY DEF DropsInRange
<1> QED
  BY <1>1, DistinctInRange
============================================================================
