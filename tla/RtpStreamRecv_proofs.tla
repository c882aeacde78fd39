------------------------ MODULE RtpStreamRecv_proofs ------------------------
(***************************************************************************)
(* The NackGenerator under a received stream, for any modulus of the       *)
(* sequence numbers and any limits that satisfy NackAssumption: its list   *)
(* is exact and bounded.  Sequence numbers are compared by their distance  *)
(* on the circle; the limits keep all that is compared within half of it.  *)
(***************************************************************************)
EXTENDS RtpStreamRecv, FiniteSetTheorems, TLAPS

\* How far b is ahead of a.
Ahead(a, b) == Wrap(b - a)

\* What is not older than seq by more than MaxPacketAge, seq included.
Known(seq) == Recent(seq) \cup {seq}

\* All that is missing is recent, and so is the one key frame remembered.
MissingIsRecent ==
    /\ missing \subseteq Recent(lastSeq)
    /\ keyFrameList \subseteq Known(lastSeq)
    /\ \A j, k \in keyFrameList : j = k
    /\ ~started => missing = {} /\ keyFrameList = {}

IInv ==
    /\ TypeOK
    /\ NackListExact
    /\ IsFiniteSet(Items) /\ NackListBounded
    /\ NeverAsserts
    /\ MissingIsRecent
-----------------------------------------------------------------------------
(***************************************************************************)
(* The circle.                                                             *)
(***************************************************************************)
LEMMA WrapFacts ==
    ASSUME NEW n \in Int
    PROVE  /\ Wrap(n) \in Seqs
           /\ n \in Seqs => Wrap(n) = n
           /\ -SeqModulus <= n /\ n < 0 => Wrap(n) = n + SeqModulus
           /\ SeqModulus <= n /\ n < 2 * SeqModulus => Wrap(n) = n - SeqModulus
<1>1. Wrap(n) \in Seqs
  BY SeqModulusAssumption DEF Wrap, Seqs
<1>2. n \in Seqs => Wrap(n) = n
  BY SeqModulusAssumption DEF Wrap, Seqs
<1>3. ASSUME -SeqModulus <= n, n < 0 PROVE Wrap(n) = n + SeqModulus
  BY <1>3, SeqModulusAssumption DEF Wrap
<1>4. ASSUME SeqModulus <= n, n < 2 * SeqModulus PROVE Wrap(n) = n - SeqModulus
  BY <1>4, SeqModulusAssumption DEF Wrap
<1> QED
  BY <1>1, <1>2, <1>3, <1>4

\* Distances by cases.
LEMMA AheadCases ==
    ASSUME NEW a \in Seqs, NEW b \in Seqs
    PROVE  /\ Ahead(a, b) \in Seqs
           /\ a <= b => Ahead(a, b) = b - a
           /\ b < a => Ahead(a, b) = b - a + SeqModulus
<1>1. /\ b - a \in Int
      /\ a <= b => b - a \in Seqs
      /\ b < a => -SeqModulus <= b - a /\ b - a < 0
  BY SeqModulusAssumption DEF Seqs
<1>2. /\ Wrap(b - a) \in Seqs
      /\ b - a \in Seqs => Wrap(b - a) = b - a
      /\ -SeqModulus <= b - a /\ b - a < 0 => Wrap(b - a) = b - a + SeqModulus
  BY <1>1, WrapFacts
<1> QED
  BY <1>1, <1>2 DEF Ahead

\* Steps forth and back by cases.
LEMMA StepCases ==
    ASSUME NEW a \in Seqs, NEW i \in Seqs
    PROVE  /\ Wrap(a + i) = IF a + i < SeqModulus THEN a + i ELSE a + i - SeqModulus
           /\ Wrap(a - i) = IF a >= i THEN a - i ELSE a - i + SeqModulus
<1>1. /\ a + i \in Int /\ a - i \in Int
      /\ a + i < SeqModulus => a + i \in Seqs
      /\ ~(a + i < SeqModulus) => SeqModulus <= a + i /\ a + i < 2 * SeqModulus
      /\ a >= i => a - i \in Seqs
      /\ ~(a >= i) => -SeqModulus <= a - i /\ a - i < 0
  BY SeqModulusAssumption DEF Seqs
<1>2. /\ a + i \in Seqs => Wrap(a + i) = a + i
      /\ SeqModulus <= a + i /\ a + i < 2 * SeqModulus =>
             Wrap(a + i) = a + i - SeqModulus
  <2> DEFINE n == a + i
  <2>1. n \in Int
    BY <1>1
  <2> HIDE DEF n
  <2>2. /\ n \in Seqs => Wrap(n) = n
        /\ SeqModulus <= n /\ n < 2 * SeqModulus => Wrap(n) = n - SeqModulus
    BY <2>1, WrapFacts
  <2> QED
    BY <1>1, <2>2, SeqModulusAssumption DEF n, Seqs
<1>3. /\ a - i \in Seqs => Wrap(a - i) = a - i
      /\ -SeqModulus <= a - i /\ a - i < 0 => Wrap(a - i) = a - i + SeqModulus
  BY <1>1, WrapFacts
<1> QED
  BY <1>1, <1>2, <1>3

\* The limits lie within half of the circle.
LEMMA Limits ==
    /\ MaxPacketAge \in Nat /\ MaxNackPackets \in Nat
    /\ 1 <= MaxNackPackets /\ MaxNackPackets <= MaxPacketAge
    /\ MaxPacketAge + MaxNackPackets <= MaxValue \div 2
    /\ MaxValue \div 2 \in Nat
    /\ 2 * (MaxValue \div 2) <= MaxValue /\ MaxValue <= 2 * (MaxValue \div 2) + 1
    /\ MaxValue = SeqModulus - 1
<1>1. /\ MaxValue \in Nat /\ MaxValue = SeqModulus - 1
  BY SeqModulusAssumption DEF MaxValue
<1>2. /\ MaxValue \div 2 \in Nat
      /\ 2 * (MaxValue \div 2) <= MaxValue /\ MaxValue <= 2 * (MaxValue \div 2) + 1
  BY <1>1
<1> QED
  BY <1>1, <1>2, NackAssumption

\* The recent packets are those that are ahead of by at most MaxPacketAge.
LEMMA RecentIs ==
    ASSUME NEW seq \in Seqs
    PROVE  /\ Recent(seq) \subseteq Seqs
           /\ \A s \in Seqs : s \in Recent(seq) <=> Ahead(s, seq) \in 1 .. MaxPacketAge
<1>1. ASSUME NEW age \in 1 .. MaxPacketAge
      PROVE  Wrap(seq - age) \in Seqs /\ Ahead(Wrap(seq - age), seq) = age
  <2>1. age \in Seqs
    BY Limits, SeqModulusAssumption DEF Seqs
  <2>2. Wrap(seq - age) = IF seq >= age THEN seq - age ELSE seq - age + SeqModulus
    BY <2>1, StepCases
  <2>3. Wrap(seq - age) \in Seqs
    BY <2>1, <2>2, SeqModulusAssumption DEF Seqs
  <2> DEFINE s == Wrap(seq - age)
  <2> HIDE DEF s
  <2>4. /\ s <= seq => Ahead(s, seq) = seq - s
        /\ seq < s => Ahead(s, seq) = seq - s + SeqModulus
    BY <2>3, AheadCases DEF s
  <2>5. Ahead(s, seq) = age
    BY <2>1, <2>2, <2>3, <2>4, SeqModulusAssumption DEF Seqs, s
  <2> QED
    BY <2>3, <2>5 DEF s
<1>2. ASSUME NEW s \in Seqs, Ahead(s, seq) \in 1 .. MaxPacketAge
      PROVE  s \in Recent(seq)
  <2> DEFINE age == Ahead(s, seq)
  <2>1. /\ age \in Seqs
        /\ s <= seq => age = seq - s
        /\ seq < s => age = seq - s + SeqModulus
    BY AheadCases
  <2> HIDE DEF age
  <2>3. Wrap(seq - age) = IF seq >= age THEN seq - age ELSE seq - age + SeqModulus
    BY <2>1, StepCases
  <2>4. Wrap(seq - age) = s
    BY <2>1, <2>3, SeqModulusAssumption DEF Seqs
  <2>2. Wrap(seq - Ahead(s, seq)) = s
    BY <2>4 DEF age
  <2> QED
    BY <1>2, <2>2 DEF Recent
<1> QED
  BY <1>1, <1>2 DEF Recent

\* A gap are the packets that are ahead of the last one, but less than seq.
LEMMA GapIs ==
    ASSUME NEW seq \in Seqs, lastSeq \in Seqs
    PROVE  /\ Gap(seq) \subseteq Seqs
           /\ \A s \in Gap(seq) : Ahead(lastSeq, s) \in 1 .. Ahead(lastSeq, seq) - 1
           /\ seq # lastSeq => IsFiniteSet(Gap(seq))
                               /\ Cardinality(Gap(seq)) <= Ahead(lastSeq, seq) - 1
<1> DEFINE n == Ahead(lastSeq, seq) - 1
           f == [i \in 1 .. n |-> Wrap(lastSeq + i)]
<1>0. Gap(seq) = {Wrap(lastSeq + i) : i \in 1 .. n}
  BY DEF Gap, Ahead
<1>1. ASSUME NEW i \in 1 .. n
      PROVE  Wrap(lastSeq + i) \in Seqs /\ Ahead(lastSeq, Wrap(lastSeq + i)) = i
  <2>1. i \in Seqs
    BY AheadCases, SeqModulusAssumption DEF Seqs
  <2>2. Wrap(lastSeq + i) = IF lastSeq + i < SeqModulus THEN lastSeq + i
                            ELSE lastSeq + i - SeqModulus
    BY <2>1, StepCases
  <2>3. Wrap(lastSeq + i) \in Seqs
    BY <2>1, <2>2, SeqModulusAssumption DEF Seqs
  <2> DEFINE s == Wrap(lastSeq + i)
  <2> HIDE DEF s
  <2>4. /\ lastSeq <= s => Ahead(lastSeq, s) = s - lastSeq
        /\ s < lastSeq => Ahead(lastSeq, s) = s - lastSeq + SeqModulus
    BY <2>3, AheadCases DEF s
  <2>5. Ahead(lastSeq, s) = i
    BY <2>1, <2>2, <2>3, <2>4, SeqModulusAssumption DEF Seqs, s
  <2> QED
    BY <2>3, <2>5 DEF s
<1>2. ASSUME seq # lastSeq
      PROVE  IsFiniteSet(Gap(seq)) /\ Cardinality(Gap(seq)) <= n
  <2>1. n \in Nat
    BY <1>2, AheadCases, SeqModulusAssumption DEF Seqs
  <2>2. f \in Surjection(1 .. n, Gap(seq))
    BY <1>0 DEF Surjection
  <2>3. IsFiniteSet(1 .. n) /\ Cardinality(1 .. n) = n
    BY <2>1, FS_Interval
  <2> HIDE DEF n, f
  <2> QED
    BY <2>2, <2>3, FS_Surjection
<1> QED
  BY <1>0, <1>1, <1>2
-----------------------------------------------------------------------------
(***************************************************************************)
(* Cleaning.                                                               *)
(***************************************************************************)
\* A newer packet is ahead by less than half of the circle (or just half).
LEMMA NewerIsAhead ==
    ASSUME NEW a \in Seqs, NEW b \in Seqs, a # b, ~SeqLowerThan(b, a)
    PROVE  Ahead(a, b) \in 1 .. MaxValue - MaxValue \div 2
<1>1. /\ Ahead(a, b) \in Seqs
      /\ a <= b => Ahead(a, b) = b - a
      /\ b < a => Ahead(a, b) = b - a + SeqModulus
  BY AheadCases
<1> DEFINE half == MaxValue \div 2
<1>2. /\ half \in Nat /\ MaxValue = SeqModulus - 1
      /\ 2 * half <= MaxValue
      /\ ~(a > b /\ a - b <= half) /\ ~(b > a /\ b - a > half)
  BY Limits DEF SeqLowerThan
<1> HIDE DEF half
<1>3. Ahead(a, b) \in 1 .. MaxValue - half
  BY <1>1, <1>2, SeqModulusAssumption DEF Seqs
<1> QED
  BY <1>3 DEF half

\* Cleaning the known packets for one that is ahead by less than half of the
\* circle leaves its recent ones.
LEMMA CleanLeavesRecent ==
    ASSUME NEW a \in Seqs, NEW seq \in Seqs,
           Ahead(a, seq) \in 1 .. MaxValue \div 2,
           NEW S \in SUBSET Known(a)
    PROVE  CleanOldNackItems(S, seq) = S \cap Recent(seq)
<1> DEFINE oldest == Wrap(seq - MaxPacketAge)
<1>1. MaxPacketAge \in Seqs
  BY Limits, SeqModulusAssumption DEF Seqs
<1>2. oldest = IF seq >= MaxPacketAge THEN seq - MaxPacketAge
               ELSE seq - MaxPacketAge + SeqModulus
  BY <1>1, StepCases
<1>4. S \subseteq Seqs /\ \A s \in S : Ahead(s, a) \in 0 .. MaxPacketAge
  <2>1. Ahead(a, a) = 0
    BY AheadCases DEF Seqs
  <2> QED
    BY <2>1, RecentIs, Limits DEF Known
<1>5. ASSUME NEW s \in S
      PROVE  ~SeqLowerThan(s, oldest) <=> s \in Recent(seq)
  <2>1. s \in Seqs /\ Ahead(s, a) \in 0 .. MaxPacketAge
    BY <1>4
  <2>2. s \in Recent(seq) <=> Ahead(s, seq) \in 1 .. MaxPacketAge
    BY <2>1, RecentIs
  <2> HIDE DEF oldest
  <2>3. ~SeqLowerThan(s, oldest) <=> Ahead(s, seq) \in 1 .. MaxPacketAge
    <3> DEFINE half == MaxValue \div 2
    <3>1. /\ s <= a => Ahead(s, a) = a - s
          /\ a < s => Ahead(s, a) = a - s + SeqModulus
          /\ a <= seq => Ahead(a, seq) = seq - a
          /\ seq < a => Ahead(a, seq) = seq - a + SeqModulus
          /\ s <= seq => Ahead(s, seq) = seq - s
          /\ seq < s => Ahead(s, seq) = seq - s + SeqModulus
      BY <2>1, AheadCases
    <3>2. /\ half \in Nat /\ MaxPacketAge \in Nat /\ 1 <= MaxPacketAge
          /\ MaxPacketAge + 1 <= half /\ 2 * half <= SeqModulus - 1
          /\ SeqModulus - 1 <= 2 * half + 1 /\ MaxValue = SeqModulus - 1
      BY Limits
    <3>3. SeqLowerThan(s, oldest) <=>
             \/ oldest > s /\ oldest - s <= half
             \/ s > oldest /\ s - oldest > half
      BY DEF SeqLowerThan
    <3>4. Ahead(a, seq) \in 1 .. half
      OBVIOUS
    <3> HIDE DEF half
    <3>5. oldest \in Int /\ s \in Int /\ a \in Int /\ seq \in Int /\ SeqModulus \in Int
      BY <1>2, <2>1, <3>2, SeqModulusAssumption DEF Seqs
    <3>6. /\ 0 <= s /\ s < SeqModulus /\ 0 <= a /\ a < SeqModulus
          /\ 0 <= seq /\ seq < SeqModulus
      BY <2>1, SeqModulusAssumption DEF Seqs
    <3>7. SeqLowerThan(s, oldest) => ~(Ahead(s, seq) \in 1 .. MaxPacketAge)
      BY <1>2, <2>1, <3>1, <3>2, <3>3, <3>4, <3>5, <3>6
    <3>8. ~SeqLowerThan(s, oldest) => Ahead(s, seq) \in 1 .. MaxPacketAge
      BY <1>2, <2>1, <3>1, <3>2, <3>3, <3>4, <3>5, <3>6
    <3> QED
      BY <3>7, <3>8
  <2> QED
    BY <2>2, <2>3
<1> QED
  BY <1>5 DEF CleanOldNackItems
-----------------------------------------------------------------------------
(***************************************************************************)
(* Distances that add up.                                                  *)
(***************************************************************************)
\* The way from a over s to b, and the way back.
LEMMA AheadSums ==
    ASSUME NEW a \in Seqs, NEW s \in Seqs, NEW b \in Seqs
    PROVE  /\ Ahead(a, s) < Ahead(a, b) => Ahead(s, b) = Ahead(a, b) - Ahead(a, s)
           /\ Ahead(a, s) + Ahead(s, b) < SeqModulus =>
                 Ahead(a, b) = Ahead(a, s) + Ahead(s, b)
           /\ a # b => Ahead(a, b) = SeqModulus - Ahead(b, a)
<1>1. /\ Ahead(a, s) \in Seqs /\ Ahead(s, b) \in Seqs
      /\ Ahead(a, b) \in Seqs /\ Ahead(b, a) \in Seqs
      /\ a <= s => Ahead(a, s) = s - a
      /\ s < a => Ahead(a, s) = s - a + SeqModulus
      /\ s <= b => Ahead(s, b) = b - s
      /\ b < s => Ahead(s, b) = b - s + SeqModulus
      /\ a <= b => Ahead(a, b) = b - a
      /\ b < a => Ahead(a, b) = b - a + SeqModulus
      /\ b <= a => Ahead(b, a) = a - b
      /\ a < b => Ahead(b, a) = a - b + SeqModulus
  BY AheadCases
<1> QED
  BY <1>1, SeqModulusAssumption DEF Seqs

\* What is ahead by at most half of the circle is not lower.
LEMMA AheadIsNotLower ==
    ASSUME NEW a \in Seqs, NEW b \in Seqs, Ahead(a, b) \in 0 .. MaxValue \div 2
    PROVE  ~SeqLowerThan(b, a)
<1> DEFINE half == MaxValue \div 2
<1>1. /\ a <= b => Ahead(a, b) = b - a
      /\ b < a => Ahead(a, b) = b - a + SeqModulus
  BY AheadCases
<1>2. /\ half \in Nat /\ MaxValue = SeqModulus - 1 /\ 2 * half <= MaxValue
      /\ Ahead(a, b) \in 0 .. half
      /\ SeqLowerThan(b, a) => \/ a > b /\ a - b <= half
                               \/ b > a /\ b - a > half
  BY Limits DEF SeqLowerThan
<1> HIDE DEF half
<1> QED
  BY <1>1, <1>2, SeqModulusAssumption DEF Seqs

\* A packet that is accepted without an overflow is ahead by little.
LEMMA StepIsShort ==
    ASSUME TypeOK, NEW seq \in Seqs, seq # lastSeq, NEW n \in Nat,
           seq = lastSeq + 1 \/ n + Wrap(seq - (lastSeq + 1)) <= MaxNackPackets,
           ~SeqLowerThan(seq, lastSeq)
    PROVE  /\ Ahead(lastSeq, seq) \in 1 .. MaxNackPackets + 1
           /\ Ahead(lastSeq, seq) \in 1 .. MaxValue \div 2
           /\ seq = lastSeq + 1 \/ n + Ahead(lastSeq, seq) - 1 <= MaxNackPackets
<1> DEFINE d == Ahead(lastSeq, seq)
           w == Wrap(seq - (lastSeq + 1))
<1>1. /\ d \in Seqs
      /\ lastSeq <= seq => d = seq - lastSeq
      /\ seq < lastSeq => d = seq - lastSeq + SeqModulus
  BY AheadCases DEF TypeOK
<1>2. lastSeq \in Seqs /\ d >= 1
  BY <1>1, SeqModulusAssumption DEF TypeOK, Seqs
<1>3. w = d - 1
  <2> DEFINE m == seq - (lastSeq + 1)
  <2>1. m \in Int
    BY <1>2 DEF Seqs
  <2>2. m \in Seqs \/ (-SeqModulus <= m /\ m < 0)
    BY <1>2, SeqModulusAssumption DEF Seqs
  <2>3. m = seq - (lastSeq + 1)
    OBVIOUS
  <2> HIDE DEF m
  <2>4. /\ m \in Seqs => Wrap(m) = m
        /\ -SeqModulus <= m /\ m < 0 => Wrap(m) = m + SeqModulus
    BY <2>1, WrapFacts
  <2>5. w = Wrap(m)
    BY <2>3
  <2> HIDE DEF w, d
  <2> QED
    BY <1>1, <1>2, <2>1, <2>2, <2>3, <2>4, <2>5, SeqModulusAssumption DEF Seqs
<1>4. seq = lastSeq + 1 \/ n + w <= MaxNackPackets
  OBVIOUS
<1> HIDE DEF d, w
<1>5. seq = lastSeq + 1 => d = 1
  BY <1>1, <1>2, SeqModulusAssumption DEF Seqs
<1>6. /\ d \in Int /\ d >= 1
      /\ seq = lastSeq + 1 \/ n + d - 1 <= MaxNackPackets
  BY <1>1, <1>2, <1>3, <1>4 DEF Seqs
<1> DEFINE half == MaxValue \div 2
<1>7. /\ half \in Nat /\ MaxNackPackets \in Nat /\ 1 <= MaxNackPackets
      /\ MaxNackPackets + 1 <= half
  BY Limits
<1> HIDE DEF half
<1>8. d \in 1 .. MaxNackPackets + 1 /\ d \in 1 .. half
  BY <1>5, <1>6, <1>7
<1> QED
  BY <1>6, <1>8 DEF d, half

\* Such a gap is recent, nothing in it was missing, and it is not lower than a
\* known key frame.
LEMMA GapIsNew ==
    ASSUME TypeOK, MissingIsRecent, NEW seq \in Seqs,
           Ahead(lastSeq, seq) \in 1 .. MaxNackPackets + 1
    PROVE  /\ Gap(seq) \subseteq Recent(seq)
           /\ Gap(seq) \cap missing = {}
           /\ \A s \in Gap(seq), k \in keyFrameList : ~SeqLowerThan(s, k)
<1> DEFINE d == Ahead(lastSeq, seq)
           half == MaxValue \div 2
<1>0. lastSeq \in Seqs
  BY DEF TypeOK
<1>1. /\ half \in Nat /\ MaxNackPackets \in Nat /\ MaxPacketAge \in Nat
      /\ MaxNackPackets <= MaxPacketAge /\ MaxPacketAge + MaxNackPackets <= half
      /\ 2 * half < SeqModulus /\ SeqModulus \in Int
  BY Limits, SeqModulusAssumption
<1>2. d \in 1 .. MaxNackPackets + 1
  OBVIOUS
<1>3. ASSUME NEW s \in Gap(seq)
      PROVE  /\ s \in Seqs /\ s \in Recent(seq) /\ s \notin missing
             /\ \A k \in keyFrameList : ~SeqLowerThan(s, k)
  <2> DEFINE e == Ahead(lastSeq, s)
  <2>1. s \in Seqs /\ e \in 1 .. d - 1
    BY <1>0, GapIs
  <2>2. e \in 1 .. MaxNackPackets /\ e < d /\ d - e \in 1 .. MaxPacketAge
    BY <1>1, <1>2, <2>1
  <2>3. s \in Recent(seq)
    <3>1. Ahead(s, seq) = d - e
      BY <1>0, <2>1, <2>2, AheadSums
    <3> QED
      BY <2>1, <2>2, <3>1, RecentIs
  <2>4. s \notin missing
    <3>1. SUFFICES ASSUME s \in missing PROVE FALSE
      OBVIOUS
    <3>2. Ahead(s, lastSeq) \in 1 .. MaxPacketAge
      BY <1>0, <2>1, <3>1, RecentIs DEF MissingIsRecent
    <3>3. s = lastSeq => e = 0
      BY <1>0, <2>1, AheadCases DEF Seqs
    <3>4. s # lastSeq => e = SeqModulus - Ahead(s, lastSeq)
      BY <1>0, <2>1, AheadSums
    <3> HIDE DEF e, half
    <3> QED
      BY <1>1, <2>2, <3>2, <3>3, <3>4
  <2>5. ASSUME NEW k \in keyFrameList PROVE ~SeqLowerThan(s, k)
    <3>1. k \in Seqs /\ Ahead(k, lastSeq) \in 0 .. MaxPacketAge
      <4>1. k \in Seqs /\ (k \in Recent(lastSeq) \/ k = lastSeq)
        BY DEF TypeOK, MissingIsRecent, Known
      <4>2. k \in Recent(lastSeq) => Ahead(k, lastSeq) \in 1 .. MaxPacketAge
        BY <1>0, <4>1, RecentIs
      <4>3. k = lastSeq => Ahead(k, lastSeq) = 0
        BY <1>0, AheadCases DEF Seqs
      <4> QED
        BY <1>1, <4>1, <4>2, <4>3
    <3>2. /\ Ahead(k, lastSeq) + e < SeqModulus
          /\ Ahead(k, lastSeq) + e \in 0 .. half
      <4> HIDE DEF e, half
      <4> QED
        BY <1>1, <2>2, <3>1
    <3>3. Ahead(k, s) = Ahead(k, lastSeq) + e
      BY <1>0, <2>1, <3>1, <3>2, AheadSums
    <3> QED
      BY <2>1, <3>1, <3>2, <3>3, AheadIsNotLower
  <2> QED
    BY <2>1, <2>3, <2>4, <2>5
<1> QED
  BY <1>3
-----------------------------------------------------------------------------
(***************************************************************************)
(* The steps.                                                              *)
(***************************************************************************)
LEMMA InitStep == RecvInit => IInv
<1> SUFFICES ASSUME RecvInit PROVE IInv
  OBVIOUS
<1>1. /\ started = FALSE /\ lastSeq = 0 /\ rtt = DefaultRtt /\ nackList = <<>>
      /\ keyFrameList = {} /\ timer = 0 /\ asserted = FALSE
      /\ missing = {} /\ excused = {}
  BY DEF RecvInit, Init
<1>2. Items = {}
  BY <1>1 DEF Items
<1>3. TypeOK
  <2>1. 0 \in Seqs /\ 0 \in 0 .. TimerInterval
    BY NackAssumption, SeqModulusAssumption DEF Seqs
  <2> QED
    BY <1>1, <1>2, <2>1 DEF TypeOK
<1>4. IsFiniteSet(Items) /\ NackListBounded
  BY <1>2, FS_EmptySet, Limits DEF NackListBounded
<1> QED
  BY <1>1, <1>2, <1>3, <1>4 DEF IInv, NackListExact, NeverAsserts, MissingIsRecent

LEMMA ResetStep == IInv /\ Reset => IInv'
<1> SUFFICES ASSUME IInv, Reset PROVE IInv'
  OBVIOUS
<1>1. /\ started' = FALSE /\ lastSeq' = 0 /\ rtt' = 0 /\ nackList' = <<>>
      /\ keyFrameList' = {} /\ timer' = 0 /\ asserted' = asserted
      /\ missing' = {} /\ excused' = {}
  BY DEF Reset
<1>2. Items' = {}
  BY <1>1 DEF Items
<1>3. TypeOK'
  <2>1. 0 \in Seqs /\ 0 \in 0 .. TimerInterval
    BY NackAssumption, SeqModulusAssumption DEF Seqs
  <2> QED
    BY <1>1, <1>2, <2>1 DEF IInv, TypeOK
<1>4. IsFiniteSet(Items') /\ Cardinality(Items') <= MaxNackPackets
  BY <1>2, FS_EmptySet, Limits
<1> QED
  BY <1>1, <1>2, <1>3, <1>4
     DEF IInv, NackListExact, NackListBounded, NeverAsserts, MissingIsRecent

LEMMA FirstStep ==
    ASSUME IInv, NEW seq \in Seqs, NEW keyFrame \in BOOLEAN, FirstPacket(seq, keyFrame)
    PROVE  IInv'
<1>1. /\ ~started /\ started' = TRUE /\ lastSeq' = seq
      /\ keyFrameList' = (IF keyFrame THEN {seq} ELSE {})
      /\ rtt' = rtt /\ nackList' = nackList /\ timer' = timer
      /\ asserted' = asserted /\ missing' = missing /\ excused' = excused
  BY DEF FirstPacket
<1>2. Items' = Items /\ missing = {}
  BY <1>1 DEF Items, IInv, MissingIsRecent
<1>3. TypeOK'
  BY <1>1, <1>2 DEF IInv, TypeOK
<1>4. MissingIsRecent'
  BY <1>1, <1>2 DEF MissingIsRecent, Known
<1> QED
  BY <1>1, <1>2, <1>3, <1>4 DEF IInv, NackListExact, NackListBounded, NeverAsserts

LEMMA OldStep ==
    ASSUME IInv, NEW seq \in Seqs, OldPacket(seq)
    PROVE  IInv'
<1>1. /\ started' = started /\ lastSeq' = lastSeq /\ rtt' = rtt
      /\ keyFrameList' = keyFrameList /\ timer' = timer /\ asserted' = asserted
      /\ nackList' = [s \in Items \ {seq} |-> nackList[s]]
      /\ missing' = missing \ {seq} /\ excused' = excused \ {seq}
  BY DEF OldPacket, Only
<1>2. Items' = Items \ {seq} /\ \A s \in Items' : nackList'[s] = nackList[s]
  BY <1>1 DEF Items
<1>3. TypeOK'
  BY <1>1, <1>2 DEF IInv, TypeOK
<1>4. IsFiniteSet(Items') /\ Cardinality(Items') <= MaxNackPackets
  <2>1. IsFiniteSet(Items) /\ Items' \subseteq Items
    BY <1>2 DEF IInv
  <2>2. /\ IsFiniteSet(Items') /\ Cardinality(Items') <= Cardinality(Items)
        /\ Cardinality(Items) \in Nat /\ Cardinality(Items') \in Nat
    BY <2>1, FS_Subset, FS_CardinalityType
  <2> QED
    BY <2>2, Limits DEF IInv, NackListBounded
<1>5. NackListExact'
  BY <1>1, <1>2 DEF IInv, NackListExact
<1>6. MissingIsRecent'
  BY <1>1 DEF IInv, MissingIsRecent
<1> QED
  BY <1>1, <1>3, <1>4, <1>5, <1>6 DEF IInv, NackListBounded, NeverAsserts

LEMMA TickStep == IInv /\ Tick => IInv'
<1> SUFFICES ASSUME IInv, Tick PROVE IInv'
  OBVIOUS
<1> DEFINE older == Older(nackList)
           late == {s \in Items : older[s].wait > rtt}
           dropped == {s \in late : GivenUp(older[s])}
           retried == [s \in Items \ dropped |->
                          IF s \in late
                          THEN [wait |-> 0, retries |-> older[s].retries + 1]
                          ELSE older[s]]
           Item == [wait : 0 .. DefaultRtt + 1, retries : 1 .. MaxNackRetries - 1]
<1>1. /\ IF timer = 1
         THEN /\ nackList' = retried
              /\ excused' = excused \cup dropped
              /\ timer' = MayRunTimer(retried, 0)
         ELSE /\ nackList' = older
              /\ timer' = (IF timer = 0 THEN 0 ELSE timer - 1)
              /\ excused' = excused
      /\ started' = started /\ lastSeq' = lastSeq /\ rtt' = rtt
      /\ keyFrameList' = keyFrameList /\ asserted' = asserted /\ missing' = missing
  BY DEF Tick
<1>2. DOMAIN older = Items /\ \A s \in Items : older[s] \in Item
  <2>1. \A s \in Items : nackList[s] \in Item
    BY DEF IInv, TypeOK
  <2>2. older = [s \in Items |-> [nackList[s] EXCEPT !.wait =
                                      IF @ > DefaultRtt THEN @ ELSE @ + 1]]
    BY DEF Older, Items
  <2> HIDE DEF older
  <2> QED
    BY <2>1, <2>2, NackAssumption
<1>3. /\ DOMAIN retried = Items \ dropped
      /\ \A s \in DOMAIN retried : retried[s] \in Item
  <2>1. ASSUME NEW s \in Items \ dropped PROVE retried[s] \in Item
    <3>1. s \in late => ~(older[s].retries + 1 >= MaxNackRetries)
      BY <2>1 DEF GivenUp
    <3>2. older[s] \in Item
      BY <1>2
    <3> HIDE DEF older
    <3> QED
      BY <2>1, <3>1, <3>2, NackAssumption
  <2> QED
    BY <2>1
<1> HIDE DEF older
<1>4. dropped \subseteq Items
  OBVIOUS
<1> HIDE DEF late, dropped, retried
<1>5. /\ Items' = IF timer = 1 THEN Items \ dropped ELSE Items
      /\ \A s \in Items' : nackList'[s] \in Item
  BY <1>1, <1>2, <1>3 DEF Items
<1>6. NackListExact'
  BY <1>1, <1>4, <1>5 DEF IInv, NackListExact
<1>7. excused' \subseteq missing'
  BY <1>1, <1>4 DEF IInv, NackListExact, TypeOK
<1>8. timer' \in 0 .. TimerInterval
  BY <1>1, NackAssumption DEF IInv, TypeOK, MayRunTimer
<1>9. TypeOK'
  BY <1>1, <1>5, <1>7, <1>8 DEF IInv, TypeOK
<1>10. IsFiniteSet(Items') /\ Cardinality(Items') <= MaxNackPackets
  <2>1. IsFiniteSet(Items) /\ Items' \subseteq Items
    BY <1>5 DEF IInv
  <2>2. /\ IsFiniteSet(Items') /\ Cardinality(Items') <= Cardinality(Items)
        /\ Cardinality(Items) \in Nat /\ Cardinality(Items') \in Nat
    BY <2>1, FS_Subset, FS_CardinalityType
  <2> QED
    BY <2>2, Limits DEF IInv, NackListBounded
<1>11. MissingIsRecent'
  BY <1>1 DEF IInv, MissingIsRecent
<1> QED
  BY <1>1, <1>6, <1>9, <1>10, <1>11 DEF IInv, NackListBounded, NeverAsserts
\* The list after a newer packet is exact and bounded, and nothing is put into
\* it twice: what of the old list is kept is recent, and the gap is new.
LEMMA NewStep ==
    ASSUME IInv, NEW seq \in Seqs, NEW keyFrame \in BOOLEAN, NewPacket(seq, keyFrame)
    PROVE  IInv'
<1> DEFINE keys == CleanOldNackItems(keyFrameList, seq)
           clean == CleanOldNackItems(Items, seq)
           kept == IF keyFrame THEN NeededAfterKeyFrame(clean, keys) ELSE clean
           keys2 == IF keyFrame THEN KeyFramesAfter(keys, seq) ELSE keys
           list == [s \in kept \cup NewItems(seq) |->
                       IF s \in kept THEN nackList[s] ELSE [wait |-> 0, retries |-> 1]]
           lost == (missing \cup Gap(seq)) \cap Recent(seq)
           useless == IF keyFrame THEN lost \ NeededAfterKeyFrame(lost, keys) ELSE {}
           expected == seq = lastSeq + 1
           overflow == ~expected /\ TooMany(kept, seq)
           Item == [wait : 0 .. DefaultRtt + 1, retries : 1 .. MaxNackRetries - 1]
<1>1. /\ started
      /\ seq # lastSeq
      /\ ~SeqLowerThan(seq, lastSeq)
      /\ IF overflow /\ KeyFramesRequestable
         THEN Reset
         ELSE /\ lastSeq' = seq
              /\ nackList' = CASE expected -> Only(nackList, kept)
                               [] overflow -> <<>>
                               [] OTHER -> list
              /\ keyFrameList' = IF overflow THEN {} ELSE keys2
              /\ timer' = IF expected THEN timer ELSE MayRunTimer(nackList', timer)
              /\ asserted' = (~expected /\ ~overflow /\ NewItems(seq) \cap kept # {})
              /\ missing' = lost
              /\ excused' = IF overflow THEN lost ELSE (excused \cap lost) \cup useless
              /\ started' = started /\ rtt' = rtt
  BY DEF NewPacket
<1>2. /\ TypeOK /\ NackListExact /\ IsFiniteSet(Items) /\ NackListBounded
      /\ NeverAsserts /\ MissingIsRecent
  BY DEF IInv
<1>3. /\ keys \subseteq keyFrameList /\ clean \subseteq Items /\ kept \subseteq clean
      /\ useless \subseteq lost
  BY DEF CleanOldNackItems, NeededAfterKeyFrame
<1>4. Recent(seq) \subseteq Seqs
  BY RecentIs
<1>5. \A s \in Items : nackList[s] \in Item
  BY <1>2 DEF TypeOK
<1>6. [wait |-> 0, retries |-> 1] \in Item
  BY NackAssumption
<1>7. CASE overflow /\ KeyFramesRequestable
  BY <1>1, <1>7, ResetStep
<1>8. CASE overflow /\ ~KeyFramesRequestable
  <2>1. /\ lastSeq' = seq /\ nackList' = <<>> /\ keyFrameList' = {}
        /\ timer' = MayRunTimer(nackList', timer) /\ asserted' = FALSE
        /\ missing' = lost /\ excused' = lost /\ started' = started /\ rtt' = rtt
    <3> HIDE DEF expected, overflow, keys2, list, lost, useless, kept
    <3>1. ~expected /\ overflow
      BY <1>8 DEF overflow
    <3> QED
      BY <1>1, <1>8, <3>1
  <2>2. Items' = {}
    BY <2>1 DEF Items
  <2>3. timer' = timer
    BY <2>1 DEF MayRunTimer
  <2>4. missing' \subseteq Recent(seq) /\ missing' \subseteq Seqs
    BY <1>4, <2>1
  <2> HIDE DEF keys, clean, kept, keys2, list, lost, useless, expected, overflow
  <2>5. TypeOK'
    BY <1>2, <2>1, <2>2, <2>3, <2>4 DEF TypeOK
  <2>6. IsFiniteSet(Items') /\ Cardinality(Items') <= MaxNackPackets
    BY <2>2, FS_EmptySet, Limits
  <2>7. NackListExact'
    BY <2>1, <2>2 DEF NackListExact
  <2>8. MissingIsRecent'
    BY <1>1, <2>1, <2>4 DEF MissingIsRecent
  <2> QED
    BY <2>1, <2>5, <2>6, <2>7, <2>8 DEF IInv, NackListBounded, NeverAsserts
<1>9. CASE ~overflow
  <2>1. /\ lastSeq' = seq
        /\ nackList' = IF expected THEN Only(nackList, kept) ELSE list
        /\ keyFrameList' = keys2
        /\ timer' = IF expected THEN timer ELSE MayRunTimer(nackList', timer)
        /\ asserted' = (~expected /\ NewItems(seq) \cap kept # {})
        /\ missing' = lost
        /\ excused' = (excused \cap lost) \cup useless
        /\ started' = started /\ rtt' = rtt
    <3> HIDE DEF expected, overflow, keys2, list, lost, useless, kept
    <3> QED
      BY <1>1, <1>9
  <2>2. /\ IsFiniteSet(kept) /\ Cardinality(kept) \in Nat
        /\ Cardinality(kept) <= Cardinality(Items)
    <3>1. kept \subseteq Items
      BY <1>3
    <3> HIDE DEF kept
    <3> QED
      BY <1>2, <3>1, FS_Subset, FS_CardinalityType
  <2>3. /\ Ahead(lastSeq, seq) \in 1 .. MaxNackPackets + 1
        /\ Ahead(lastSeq, seq) \in 1 .. MaxValue \div 2
        /\ \/ expected
           \/ Cardinality(kept) + Ahead(lastSeq, seq) - 1 <= MaxNackPackets
    <3>1. \/ seq = lastSeq + 1
          \/ Cardinality(kept) + Wrap(seq - (lastSeq + 1)) <= MaxNackPackets
      <4>1. ~expected => ~TooMany(kept, seq)
        BY <1>9
      <4>2. seq - (lastSeq + 1) \in Int
        BY <1>2 DEF TypeOK, Seqs
      <4>3. Wrap(seq - (lastSeq + 1)) \in Nat
        BY <4>2, WrapFacts DEF Seqs
      <4> HIDE DEF kept
      <4> QED
        BY <2>2, <4>1, <4>3, Limits DEF TooMany
    <3> DEFINE n == Cardinality(kept)
    <3>2. n \in Nat /\ (seq = lastSeq + 1 \/ n + Wrap(seq - (lastSeq + 1)) <= MaxNackPackets)
      BY <2>2, <3>1
    <3> HIDE DEF n
    <3>3. /\ Ahead(lastSeq, seq) \in 1 .. MaxNackPackets + 1
          /\ Ahead(lastSeq, seq) \in 1 .. MaxValue \div 2
          /\ seq = lastSeq + 1 \/ n + Ahead(lastSeq, seq) - 1 <= MaxNackPackets
      BY <1>1, <1>2, <3>2, StepIsShort
    <3> QED
      BY <3>3 DEF n
  <2>4. lastSeq \in Seqs
    BY <1>2 DEF TypeOK
  <2>5. /\ clean = Items \cap Recent(seq)
        /\ keys = keyFrameList \cap Recent(seq)
    <3>1. Items \subseteq Known(lastSeq) /\ keyFrameList \subseteq Known(lastSeq)
      BY <1>2 DEF NackListExact, MissingIsRecent, Known
    <3> QED
      BY <2>3, <2>4, <3>1, CleanLeavesRecent
  <2>6. /\ Gap(seq) \subseteq Recent(seq)
        /\ Gap(seq) \cap missing = {}
        /\ \A s \in Gap(seq), k \in keyFrameList : ~SeqLowerThan(s, k)
    BY <1>2, <2>3, GapIsNew
  <2>7. lost = (missing \cap Recent(seq)) \cup Gap(seq)
    BY <2>6
  <2>8. kept = clean \ useless /\ Gap(seq) \cap useless = {}
    <3>1. CASE ~keyFrame \/ keys = {}
      BY <1>3, <3>1 DEF NeededAfterKeyFrame
    <3>2. CASE keyFrame /\ keys # {}
      <4>1. PICK k \in keyFrameList : keys = {k}
        BY <1>2, <1>3, <3>2 DEF MissingIsRecent
      <4> DEFINE p == PreviousKeyFrame(keys)
      <4>2. p = k
        <5>1. ~SeqLowerThan(k, k)
          <6>1. k \in Int
            BY <1>2 DEF TypeOK, Seqs
          <6> QED
            BY <6>1 DEF SeqLowerThan
        <5> HIDE DEF keys
        <5> QED
          BY <4>1, <5>1 DEF PreviousKeyFrame
      <4>3. clean \subseteq lost
        BY <1>2, <2>5, <2>7 DEF NackListExact
      <4>4. /\ kept = {s \in clean : ~SeqLowerThan(s, k)}
            /\ useless = lost \ {s \in lost : ~SeqLowerThan(s, k)}
        <5> HIDE DEF keys, p, lost, clean
        <5> QED
          BY <3>2, <4>2 DEF p, NeededAfterKeyFrame
      <4> HIDE DEF keys, clean, kept, lost, useless
      <4> QED
        BY <2>6, <4>3, <4>4
    <3> QED
      BY <3>1, <3>2
  <2>9. expected => Gap(seq) = {}
    <3>1. ASSUME expected PROVE Ahead(lastSeq, seq) = 1
      <4>1. lastSeq <= seq => Ahead(lastSeq, seq) = seq - lastSeq
        BY <2>4, AheadCases
      <4> QED
        BY <2>4, <3>1, <4>1 DEF Seqs
    <3>2. \A s \in Gap(seq) : Ahead(lastSeq, s) \in 1 .. Ahead(lastSeq, seq) - 1
      BY <2>4, GapIs
    <3> QED
      BY <3>1, <3>2
  <2>10. keyFrameList' \subseteq Known(seq) /\ \A j, k \in keyFrameList' : j = k
    <3>1. \A j, k \in keys : j = k
      BY <1>2, <1>3 DEF MissingIsRecent
    <3>2. keyFrame => keys2 = {seq}
      <4>1. CASE keys = {}
        BY <4>1 DEF KeyFramesAfter
      <4>2. CASE keys # {}
        <5>1. PICK k \in keyFrameList : keys = {k}
          BY <1>3, <3>1, <4>2
        <5>2. ~SeqLowerThan(k, k)
          <6>1. k \in Int
            BY <1>2 DEF TypeOK, Seqs
          <6> QED
            BY <6>1 DEF SeqLowerThan
        <5> HIDE DEF keys
        <5>3. PreviousKeyFrame(keys) = k
          BY <5>1, <5>2 DEF PreviousKeyFrame
        <5> QED
          BY <4>2, <5>1, <5>3 DEF KeyFramesAfter
      <4> QED
        BY <4>1, <4>2
    <3>3. keys \subseteq Known(seq)
      BY <2>5 DEF Known
    <3> HIDE DEF keys
    <3> QED
      BY <2>1, <3>1, <3>2, <3>3 DEF Known
  <2>11. kept \subseteq Items
    BY <1>3
  <2>12. kept = (Items \cap Recent(seq)) \ useless
    BY <2>5, <2>8
  <2> HIDE DEF keys, clean, kept, keys2, lost, useless, expected, overflow
  <2>13. Items' = kept \cup Gap(seq)
    BY <2>1, <2>9 DEF Items, Only, NewItems
  <2>14. \A s \in Items' : nackList'[s] \in Item
    <3> HIDE DEF Item
    <3> QED
      BY <1>5, <1>6, <2>1, <2>9, <2>11, <2>13 DEF Only, NewItems
  <2>15. NackListExact'
    <3>1. missing' \ excused' = (((missing \ excused) \cap Recent(seq)) \ useless) \cup Gap(seq)
      BY <1>2, <2>1, <2>6, <2>7, <2>8 DEF TypeOK
    <3> QED
      BY <1>2, <2>12, <2>13, <3>1 DEF NackListExact
  <2>16. IsFiniteSet(Items') /\ Cardinality(Items') <= MaxNackPackets
    <3>1. CASE expected
      <4>1. Items' = kept
        BY <2>9, <2>13, <3>1
      <4> QED
        BY <1>2, <2>2, <4>1, FS_CardinalityType, Limits DEF NackListBounded
    <3>2. CASE ~expected
      <4>1. /\ IsFiniteSet(Gap(seq))
            /\ Cardinality(Gap(seq)) <= Ahead(lastSeq, seq) - 1
        BY <1>1, <2>4, GapIs
      <4> DEFINE gap == Gap(seq)
      <4> HIDE DEF gap
      <4>2. kept \cap gap = {}
        BY <1>2, <2>6, <2>11 DEF NackListExact, gap
      <4>3. IsFiniteSet(gap) /\ Cardinality(gap) \in Nat
        BY <4>1, FS_CardinalityType DEF gap
      <4>4. /\ IsFiniteSet(kept \cup gap)
            /\ Cardinality(kept \cup gap) =
                 Cardinality(kept) + Cardinality(gap) - Cardinality(kept \cap gap)
        BY <2>2, <4>3, FS_Union
      <4>5. Cardinality(kept \cap gap) = 0
        BY <4>2, FS_EmptySet
      <4>6. Cardinality(kept) + Ahead(lastSeq, seq) - 1 <= MaxNackPackets
        BY <2>3, <3>2 DEF kept, expected
      <4>7. Cardinality(kept \cup gap) <= MaxNackPackets
        BY <2>2, <2>3, <4>1, <4>3, <4>4, <4>5, <4>6, Limits DEF gap
      <4> QED
        BY <2>13, <4>4, <4>7 DEF gap
    <3> QED
      BY <3>1, <3>2
  <2>17. asserted' = FALSE
    BY <1>2, <2>1, <2>6, <2>11 DEF NewItems, NackListExact
  <2>18. TypeOK'
    <3>1. missing' \subseteq Seqs /\ excused' \subseteq missing'
      BY <1>3, <1>4, <2>1, <2>6, <2>7
    <3>2. Items' \subseteq Seqs
      BY <1>2, <1>4, <2>6, <2>11, <2>13 DEF TypeOK
    <3>3. keyFrameList' \subseteq Seqs
      BY <1>4, <2>10 DEF Known
    <3>4. timer' \in 0 .. TimerInterval
      BY <1>2, <2>1, NackAssumption DEF TypeOK, MayRunTimer
    <3> HIDE DEF list
    <3> QED
      BY <1>2, <2>1, <2>14, <2>17, <3>1, <3>2, <3>3, <3>4 DEF TypeOK
  <2>19. MissingIsRecent'
    <3>1. missing' \subseteq Recent(lastSeq')
      BY <2>1, <2>6, <2>7
    <3> QED
      BY <1>1, <2>1, <2>10, <3>1 DEF MissingIsRecent
  <2> QED
    BY <2>15, <2>16, <2>17, <2>18, <2>19 DEF IInv, NackListBounded, NeverAsserts
<1> QED
  BY <1>7, <1>8, <1>9
-----------------------------------------------------------------------------
\* Whatever the stream does to its generator.
LEMMA ReceiveStep ==
    ASSUME IInv, NEW seq \in Seqs, NEW keyFrame \in BOOLEAN,
           ReceivePacket(seq, keyFrame)
    PROVE  IInv'
<1>1. CASE FirstPacket(seq, keyFrame)
  BY <1>1, FirstStep
<1>2. CASE UNCHANGED vars
  BY <1>2 DEF vars, IInv, TypeOK, NackListExact, NackListBounded, NeverAsserts,
              MissingIsRecent, Items
<1>3. CASE OldPacket(seq)
  BY <1>3, OldStep
<1>4. CASE NewPacket(seq, keyFrame)
  BY <1>4, NewStep
<1> QED
  BY <1>1, <1>2, <1>3, <1>4 DEF ReceivePacket

LEMMA RecvStep == IInv /\ [RecvNext]_recvVars => IInv'
<1> SUFFICES ASSUME IInv, [RecvNext]_recvVars PROVE IInv'
  OBVIOUS
<1>1. ASSUME NEW seq \in Seqs, NEW keyFrame \in BOOLEAN,
             ReceiveMedia(seq, keyFrame) \/ ReceiveRtx(seq, keyFrame)
      PROVE  IInv'
  BY <1>1, ReceiveStep DEF ReceiveMedia, ReceiveRtx
<1>2. CASE RequestKeyFrame
  BY <1>2, ResetStep DEF RequestKeyFrame
<1>3. CASE NackTick
  BY <1>3, TickStep DEF NackTick
<1>4. CASE UNCHANGED vars
  BY <1>4 DEF vars, IInv, TypeOK, NackListExact, NackListBounded, NeverAsserts,
              MissingIsRecent, Items
<1>5. ASSUME NEW seq \in Seqs, ReceiveBad(seq) PROVE IInv'
  BY <1>4, <1>5 DEF ReceiveBad
<1> QED
  BY <1>1, <1>2, <1>3, <1>4, <1>5 DEF RecvNext, recvVars

\* The inductive invariant.
THEOREM RecvInvariant == RecvSpec => []IInv
  BY InitStep, RecvStep, PTL DEF RecvSpec

\* The fields of the generator keep their types.
THEOREM RecvTypeCorrect == RecvSpec => []TypeOK
  BY RecvInvariant, PTL DEF IInv

\* What is asked for is exactly what is missing, recent and not excused.
THEOREM NackListExactAlways == RecvSpec => []NackListExact
  BY RecvInvariant, PTL DEF IInv

\* The list never exceeds its limit.
THEOREM NackListBoundedAlways == RecvSpec => []NackListBounded
  BY RecvInvariant, PTL DEF IInv

\* The assertion of AddPacketsToNackList() never fails.
THEOREM NeverAssertsAlways == RecvSpec => []NeverAsserts
  BY RecvInvariant, PTL DEF IInv
=============================================================================
