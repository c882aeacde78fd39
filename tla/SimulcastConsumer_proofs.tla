---------------------- MODULE SimulcastConsumer_proofs ----------------------
(***************************************************************************)
(* Proofs about SimulcastConsumer and its choice of layers.  They rest on  *)
(* LayersAssumption and ConsumerAssumption alone: any number of spatial    *)
(* and temporal layers, any scores, bitrates, clocks and bounds.           *)
(***************************************************************************)
EXTENDS SimulcastConsumer, WellFoundedInduction, TLAPS

\* A set of integers that holds lo, and n with n - 1, holds all of lo .. hi.
LEMMA RangeInduction ==
    ASSUME NEW lo \in Int, NEW hi \in Int, NEW S, lo \in S,
           \A n \in lo .. hi : n # lo /\ n - 1 \in S => n \in S
    PROVE  lo .. hi \subseteq S
<1> DEFINE Bad == {i \in Nat : lo + i <= hi /\ lo + i \notin S}
<1>1. ASSUME Bad # {} PROVE FALSE
  <2>1. PICK i \in Bad : \A j \in Bad : ~(<<j, i>> \in OpToRel(<, Nat))
    BY <1>1, NatLessThanWellFounded, WFMin
  <2>8. i \in Nat /\ lo + i <= hi /\ lo + i \notin S
    OBVIOUS
  <2>2. i # 0
    BY <2>8
  <2>3. i - 1 \in Nat /\ i - 1 < i /\ lo + (i - 1) <= hi /\ lo + (i - 1) = (lo + i) - 1
    BY <2>8, <2>2
  <2>4. i - 1 \notin Bad
    BY <2>1, <2>3 DEF OpToRel
  <2>5. (lo + i) - 1 \in S
    BY <2>3, <2>4
  <2>6. lo + i \in lo .. hi /\ lo + i # lo
    BY <2>8, <2>2
  <2>7. lo + i \in S
    BY <2>5, <2>6
  <2> QED
    BY <2>8, <2>7
<1>2. ASSUME NEW n \in lo .. hi, n \notin S PROVE FALSE
  <2>1. n - lo \in Nat /\ lo + (n - lo) = n
    OBVIOUS
  <2>2. n - lo \in Bad
    BY <1>2, <2>1
  <2> QED
    BY <1>1, <2>2
<1> QED
  BY <1>2

\* f is defined step by step by the function G of steps, from a at lo.
Iterates(f, lo, hi, a, G) ==
    \A n \in lo .. hi : f[n] = IF n = lo THEN a ELSE G[n][f[n - 1]]

IterationExists(lo, hi, R, a, G) == \E f \in [lo .. hi -> R] : Iterates(f, lo, hi, a, G)

\* A function that is defined step by step exists.
LEMMA RecursionExists ==
    ASSUME NEW lo \in Int, NEW hi \in Int, NEW R, NEW a \in R,
           NEW G \in [lo .. hi -> [R -> R]]
    PROVE  IterationExists(lo, hi, R, a, G)
<1> USE DEF IterationExists, Iterates
<1> DEFINE S == {n \in Int : IterationExists(lo, n, R, a, G)}
<1>1. lo \in S
  <2> DEFINE f == [m \in lo .. lo |-> a]
  <2>1. f \in [lo .. lo -> R] /\ \A m \in lo .. lo : f[m] = IF m = lo THEN a ELSE G[m][f[m - 1]]
    OBVIOUS
  <2> QED
    BY <2>1
<1>2. ASSUME NEW n \in lo .. hi, n # lo, n - 1 \in S PROVE n \in S
  <2>1. n > lo /\ n \in Int
    BY <1>2
  <2>2. PICK g \in [lo .. n - 1 -> R] :
            \A m \in lo .. n - 1 : g[m] = IF m = lo THEN a ELSE G[m][g[m - 1]]
    BY <1>2
  <2> DEFINE f == [m \in lo .. n |-> IF m = n THEN G[n][g[n - 1]] ELSE g[m]]
  <2>3. G[n][g[n - 1]] \in R
    BY <2>1, <2>2
  <2>4. f \in [lo .. n -> R]
    BY <2>1, <2>2, <2>3
  <2>5. ASSUME NEW m \in lo .. n
        PROVE  f[m] = IF m = lo THEN a ELSE G[m][f[m - 1]]
    <3>1. CASE m = n
      BY <2>1, <3>1
    <3>2. CASE m # n
      <4>1. m \in lo .. n - 1 /\ f[m] = g[m] /\ (m # lo => f[m - 1] = g[m - 1])
        BY <2>1, <3>2
      <4>2. g[m] = IF m = lo THEN a ELSE G[m][g[m - 1]]
        BY <2>2, <4>1
      <4> QED
        BY <4>1, <4>2
    <3> QED
      BY <3>1, <3>2
  <2>7. IterationExists(lo, n, R, a, G)
    BY <2>4, <2>5
  <2> QED
    BY <2>1, <2>7
<1> HIDE DEF S
<1>3. lo .. hi \subseteq S
  BY <1>1, <1>2, RangeInduction
<1>4. CASE lo <= hi
  <2>1. hi \in lo .. hi
    BY <1>4
  <2> QED
    BY <1>3, <2>1 DEF S
<1>5. CASE ~(lo <= hi)
  <2> DEFINE f == [m \in lo .. hi |-> a]
  <2>1. lo .. hi = {}
    BY <1>5
  <2>2. f \in [lo .. hi -> R] /\ \A m \in lo .. hi : f[m] = IF m = lo THEN a ELSE G[m][f[m - 1]]
    BY <2>1
  <2> QED
    BY <2>2
<1> QED
  BY <1>4, <1>5
-----------------------------------------------------------------------------
(* The choice by scores.                                                     *)

\* What one stream makes of the choice so far.
Step(st, pref, ref, s, before) ==
    IF /\ Usable(st, ref, s)
       /\ ~(before # None /\ before >= pref[1] /\ Good(st, before))
       /\ \/ before = None
          \/ st[s].score >= st[before].score
          \/ Good(st, s)
    THEN s ELSE before

\* The choices that RecalculateTargetLayers() comes through, stream by stream.
ChoiceSteps(st, pref, ref, f) ==
    /\ f \in [None .. SpatialLayers - 1 -> Spatial \cup {None}]
    /\ f[None] = None
    /\ \A s \in Spatial : f[s] = Step(st, pref, ref, s, f[s - 1])

\* The ranges of the layers.
LEMMA LayersFacts ==
    /\ SpatialLayers \in Nat \ {0} /\ None = -1 /\ Spatial = 0 .. SpatialLayers - 1
    /\ None .. SpatialLayers - 1 = Spatial \cup {None}
    /\ None \notin Spatial /\ Spatial \subseteq Nat /\ SpatialLayers - 1 \in Spatial
    /\ \A s \in Spatial : s - 1 \in Spatial \cup {None}
    /\ TemporalLayers \in Nat \ {0} /\ Temporal = 0 .. TemporalLayers - 1
    /\ None \notin Temporal /\ 0 \in Temporal /\ TemporalLayers - 1 \in Temporal
BY LayersAssumption DEF None, Spatial, Temporal

\* The choices exist, and Chosen() is the last of them.
LEMMA ChosenUnfolds ==
    ASSUME NEW st, NEW pref, NEW ref
    PROVE  \E f : /\ ChoiceSteps(st, pref, ref, f)
                  /\ Chosen(st, pref, ref) = f[SpatialLayers - 1]
<1> DEFINE D == None .. SpatialLayers - 1
           R == Spatial \cup {None}
           G == [s \in D |-> [before \in R |->
                   IF s = None THEN None ELSE Step(st, pref, ref, s, before)]]
           picked == CHOOSE f : f = [s \in D |->
                        IF s = None THEN None ELSE Step(st, pref, ref, s, f[s - 1])]
<1>1. Chosen(st, pref, ref) = picked[SpatialLayers - 1]
  BY DEF Chosen, Step
<1>2. D = R /\ None \in Int /\ SpatialLayers - 1 \in Int /\ None \in R
  BY LayersFacts
<1>3. \A s \in D, b \in R : Step(st, pref, ref, s, b) \in R
  BY <1>2 DEF Step
<1>4. G \in [D -> [R -> R]]
  BY <1>2, <1>3
<1>5. PICK g \in [D -> R] : \A n \in D : g[n] = IF n = None THEN None ELSE G[n][g[n - 1]]
  <2>1. IterationExists(None, SpatialLayers - 1, R, None, G)
    <3> HIDE DEF G, R
    <3> QED
      BY <1>2, <1>4, RecursionExists
  <2> QED
    BY <2>1 DEF IterationExists, Iterates
<1>6. \A n \in D \ {None} : n - 1 \in D
  BY LayersFacts
<1>7. g = [s \in D |-> IF s = None THEN None ELSE Step(st, pref, ref, s, g[s - 1])]
  <2>1. ASSUME NEW n \in D
        PROVE  g[n] = IF n = None THEN None ELSE Step(st, pref, ref, n, g[n - 1])
    <3>1. CASE n = None
      BY <1>5, <3>1
    <3>2. CASE n # None
      <4>1. n - 1 \in D /\ g[n - 1] \in R
        BY <1>5, <1>6, <3>2
      <4>2. G[n][g[n - 1]] = Step(st, pref, ref, n, g[n - 1])
        BY <3>2, <4>1
      <4>3. g[n] = G[n][g[n - 1]]
        BY <1>5, <3>2
      <4> QED
        BY <3>2, <4>2, <4>3
    <3> QED
      BY <3>1, <3>2
  <2> HIDE DEF D
  <2> QED
    BY <1>5, <2>1
<1>8. picked = [s \in D |->
                  IF s = None THEN None ELSE Step(st, pref, ref, s, picked[s - 1])]
  BY <1>7
<1>9. ASSUME NEW s \in D
      PROVE  picked[s] = IF s = None THEN None ELSE Step(st, pref, ref, s, picked[s - 1])
  <2> HIDE DEF D, picked
  <2> QED
    BY <1>8
<1>10. picked[None] = None
  BY <1>2, <1>9
<1>11. ASSUME NEW s \in Spatial
       PROVE  picked[s] = Step(st, pref, ref, s, picked[s - 1])
  <2>1. s \in D /\ s # None
    BY <1>2, LayersFacts
  <2> HIDE DEF picked
  <2> QED
    BY <1>9, <2>1
<1>12. \A s \in D : picked[s] \in R
  <2> DEFINE S == {s \in D : picked[s] \in R}
  <2> HIDE DEF picked
  <2>1. None \in S
    BY <1>2, <1>10
  <2>2. ASSUME NEW n \in D, n # None, n - 1 \in S PROVE n \in S
    BY <1>2, <1>3, <1>11, <2>2
  <2> HIDE DEF S
  <2>3. None .. SpatialLayers - 1 \subseteq S
    BY <1>2, <2>1, <2>2, RangeInduction
  <2> QED
    BY <2>3 DEF S
<1>13. picked \in [D -> R]
  <2> HIDE DEF picked, D
  <2> QED
    BY <1>8, <1>12
<1> HIDE DEF picked, R
<1> QED
  BY <1>1, <1>10, <1>11, <1>13 DEF ChoiceSteps, R

\* A choice is a usable stream that was looked at.
LEMMA ChoicesAreUsable ==
    ASSUME NEW st, NEW pref, NEW ref, NEW f, ChoiceSteps(st, pref, ref, f)
    PROVE  \A n \in Spatial \cup {None} :
             f[n] = None \/ (f[n] \in Spatial /\ f[n] <= n /\ Usable(st, ref, f[n]))
<1> DEFINE D == None .. SpatialLayers - 1
           Fine(n) == f[n] = None \/ (f[n] \in Spatial /\ f[n] <= n /\ Usable(st, ref, f[n]))
           S == {n \in D : Fine(n)}
<1>1. D = Spatial \cup {None} /\ None \in Int /\ SpatialLayers - 1 \in Int
  BY LayersFacts
<1>2. None \in S
  BY <1>1 DEF ChoiceSteps
<1>3. ASSUME NEW n \in D, n # None, n - 1 \in S PROVE n \in S
  <2>1. n \in Spatial /\ n \in Int /\ n - 1 \in Spatial \cup {None} /\ n - 1 \in Int
    BY <1>1, <1>3, LayersFacts
  <2>2. Fine(n - 1)
    BY <1>3
  <2>3. f[n] = Step(st, pref, ref, n, f[n - 1])
    BY <2>1 DEF ChoiceSteps
  <2>4. CASE f[n] = n
    <3>1. CASE f[n - 1] = n
      BY <2>1, <2>2, <3>1, LayersFacts
    <3>2. CASE f[n - 1] # n
      <4>1. Usable(st, ref, n)
        BY <2>3, <2>4, <3>2 DEF Step
      <4> QED
        BY <2>1, <2>4, <4>1
    <3> QED
      BY <3>1, <3>2
  <2>5. CASE f[n] = f[n - 1]
    <3>1. f[n - 1] \in Spatial => f[n - 1] \in Int
      BY LayersFacts
    <3> QED
      BY <2>1, <2>2, <2>5, <3>1
  <2> QED
    BY <2>3, <2>4, <2>5 DEF Step
<1>4. D \subseteq S
  <2> HIDE DEF S
  <2> QED
    BY <1>1, <1>2, <1>3, RangeInduction
<1> QED
  BY <1>1, <1>4

\* Choice c leaves nothing to be wished among the usable streams up to n: it is a good
\* one at or above the preferred layer if there is one, else a good one if there is
\* one, else none has a better score.
Satisfies(st, pref, ref, c, n) ==
    \A q \in Spatial :
      q <= n /\ Usable(st, ref, q) =>
        /\ c # None
        /\ q >= pref[1] /\ Good(st, q) => c >= pref[1] /\ Good(st, c)
        /\ Good(st, q) => Good(st, c)
        /\ Good(st, c) \/ st[c].score >= st[q].score

\* Each choice is the best of the streams looked at so far.
LEMMA ChoicesSatisfy ==
    ASSUME NEW st, NEW pref, NEW ref, NEW f, ChoiceSteps(st, pref, ref, f),
           pref[1] \in Int, \A s \in Spatial : st[s].score \in Int
    PROVE  \A n \in Spatial \cup {None} : Satisfies(st, pref, ref, f[n], n)
<1> DEFINE D == None .. SpatialLayers - 1
           S == {n \in D : Satisfies(st, pref, ref, f[n], n)}
<1>1. D = Spatial \cup {None} /\ None \in Int /\ SpatialLayers - 1 \in Int
  BY LayersFacts
<1>2. None \in S
  BY <1>1, LayersFacts DEF Satisfies
<1>3. ASSUME NEW n \in D, n # None, n - 1 \in S PROVE n \in S
  <2> DEFINE b == f[n - 1]
  <2>1. n \in Spatial /\ n \in Int /\ n - 1 \in Spatial \cup {None} /\ n - 1 \in Int
    BY <1>1, <1>3, LayersFacts
  <2>2. Satisfies(st, pref, ref, b, n - 1)
    BY <1>3
  <2>3. f[n] = Step(st, pref, ref, n, b)
    BY <2>1 DEF ChoiceSteps
  <2>4. b = None \/ b \in Spatial
    BY <1>1, <2>1 DEF ChoiceSteps
  <2> HIDE DEF b
  <2> SUFFICES ASSUME NEW q \in Spatial, q <= n, Usable(st, ref, q)
               PROVE  /\ f[n] # None
                      /\ q >= pref[1] /\ Good(st, q) => f[n] >= pref[1] /\ Good(st, f[n])
                      /\ Good(st, q) => Good(st, f[n])
                      /\ Good(st, f[n]) \/ st[f[n]].score >= st[q].score
    BY <1>3 DEF Satisfies
  <2>5. q \in Int /\ (q = n \/ q <= n - 1)
    BY <2>1, LayersFacts
  <2>6. q <= n - 1 =>
          /\ b # None
          /\ q >= pref[1] /\ Good(st, q) => b >= pref[1] /\ Good(st, b)
          /\ Good(st, q) => Good(st, b)
          /\ Good(st, b) \/ st[b].score >= st[q].score
    BY <2>2 DEF Satisfies
  <2>7. st[q].score \in Int /\ st[n].score \in Int /\ (b # None => st[b].score \in Int /\ b \in Int)
    BY <2>1, <2>4, LayersFacts
  <2>8. CASE /\ Usable(st, ref, n)
             /\ ~(b # None /\ b >= pref[1] /\ Good(st, b))
             /\ b = None \/ st[n].score >= st[b].score \/ Good(st, n)
    <3>1. f[n] = n /\ n # None
      BY <2>1, <2>3, <2>8, LayersFacts DEF Step
    <3>2. CASE q = n
      BY <2>7, <3>1, <3>2
    <3>3. CASE q <= n - 1
      <4>1. Good(st, b) => Good(st, n)
        BY <2>6, <2>7, <2>8, <3>3 DEF Good
      <4>2. Good(st, n) \/ st[n].score >= st[q].score
        BY <2>6, <2>7, <2>8, <3>3, <4>1
      <4> QED
        BY <2>6, <2>8, <3>1, <3>3, <4>1, <4>2
    <3> QED
      BY <2>5, <3>2, <3>3
  <2>9. CASE ~(/\ Usable(st, ref, n)
               /\ ~(b # None /\ b >= pref[1] /\ Good(st, b))
               /\ b = None \/ st[n].score >= st[b].score \/ Good(st, n))
    <3>1. f[n] = b
      BY <2>3, <2>9 DEF Step
    <3>2. CASE q = n
      BY <2>7, <2>9, <3>1, <3>2
    <3>3. CASE q <= n - 1
      BY <2>6, <3>1, <3>3
    <3> QED
      BY <2>5, <3>2, <3>3
  <2> QED
    BY <2>8, <2>9
<1>4. D \subseteq S
  <2> HIDE DEF S
  <2> QED
    BY <1>1, <1>2, <1>3, RangeInduction
<1> QED
  BY <1>1, <1>4

\* The condition under which a stream takes the place of the choice so far.
Takes(st, pref, ref, s, before) ==
    /\ Usable(st, ref, s)
    /\ ~(before # None /\ before >= pref[1] /\ Good(st, before))
    /\ before = None \/ st[s].score >= st[before].score \/ Good(st, s)

\* With fewer usable streams the last choice is the same, as long as it is one of them.
LEMMA SameLastChoice ==
    ASSUME NEW st, NEW st2, NEW pref, NEW ref, NEW ref2, NEW f, NEW g,
           ChoiceSteps(st, pref, ref, f), ChoiceSteps(st2, pref, ref2, g),
           pref[1] \in Int, \A s \in Spatial : st[s].score \in Int,
           \A s \in Spatial : st2[s].score = st[s].score,
           \A s \in Spatial : Usable(st2, ref2, s) => Usable(st, ref, s),
           f[SpatialLayers - 1] # None => Usable(st2, ref2, f[SpatialLayers - 1])
    PROVE  g[SpatialLayers - 1] = f[SpatialLayers - 1]
<1> DEFINE end == SpatialLayers - 1
           c == f[end]
<1>1. end \in Spatial /\ end \in Int /\ Spatial = 0 .. end
  BY LayersFacts
<1>2. \A s \in Spatial : s \in Int /\ s <= end /\ s - 1 \in Spatial \cup {None} /\ s # None
  BY LayersFacts
<1>3. \A n \in Spatial \cup {None} :
        g[n] = None \/ (g[n] \in Spatial /\ g[n] <= n /\ Usable(st2, ref2, g[n]))
  BY ChoicesAreUsable
<1>4. \A n \in Spatial \cup {None} :
        f[n] = None \/ (f[n] \in Spatial /\ f[n] <= n /\ Usable(st, ref, f[n]))
  BY ChoicesAreUsable
<1>5. \A n \in Spatial \cup {None} : Satisfies(st, pref, ref, f[n], n)
  BY ChoicesSatisfy
<1>6. \A n \in Spatial :
        /\ f[n] = IF Takes(st, pref, ref, n, f[n - 1]) THEN n ELSE f[n - 1]
        /\ g[n] = IF Takes(st2, pref, ref2, n, g[n - 1]) THEN n ELSE g[n - 1]
  BY DEF ChoiceSteps, Step, Takes
<1>7. \A s \in Spatial : Good(st2, s) <=> Good(st, s)
  BY DEF Good
<1> HIDE DEF end
<1>8. CASE c = None
  <2>1. Satisfies(st, pref, ref, c, end)
    BY <1>1, <1>5
  <2>2. g[end] = None
    BY <1>1, <1>2, <1>3, <1>8, <2>1 DEF Satisfies
  <2> QED
    BY <1>8, <2>2 DEF end
<1>9. CASE c # None
  <2>1. c \in Spatial /\ c <= end /\ c \in Int /\ Usable(st2, ref2, c)
    BY <1>1, <1>2, <1>4, <1>9 DEF end
  <2> HIDE DEF c
  <2>2. ASSUME NEW n \in c .. end PROVE f[n] = c
    <3> DEFINE S == {m \in n .. end : f[m] # c}
    <3>1. SUFFICES ASSUME f[n] # c PROVE FALSE
      OBVIOUS
    <3>2. n \in S /\ n \in Int
      BY <1>1, <2>1, <3>1
    <3>3. ASSUME NEW m \in n .. end, m # n, m - 1 \in S PROVE m \in S
      <4>1. m \in Spatial /\ m # c
        BY <1>1, <2>1, <3>3
      <4>2. f[m] = m \/ f[m] = f[m - 1]
        BY <1>6, <4>1
      <4> QED
        BY <3>3, <4>1, <4>2
    <3>4. n .. end \subseteq S
      <4> HIDE DEF S
      <4> QED
        BY <1>1, <3>2, <3>3, RangeInduction
    <3>5. end \in S
      BY <1>1, <3>2, <3>4
    <3> QED
      BY <3>5 DEF c
  <2>3. Takes(st, pref, ref, c, f[c - 1])
    <3>1. f[c] = c /\ f[c - 1] # c
      <4>1. f[c] = c
        BY <1>1, <2>1, <2>2
      <4>2. c - 1 \in Spatial \cup {None} /\ c - 1 \in Int /\ c # None
        BY <1>2, <2>1
      <4>3. f[c - 1] # c
        BY <1>4, <2>1, <4>2
      <4> QED
        BY <4>1, <4>3
    <3> QED
      BY <1>6, <2>1, <3>1
  <2>4. g[c] = c
    <3> DEFINE a == f[c - 1]
               b == g[c - 1]
    <3>1. c - 1 \in Spatial \cup {None}
      BY <1>2, <2>1
    <3>2. a = None \/ a \in Spatial
      BY <1>4, <3>1
    <3>3. b = None \/ (b \in Spatial /\ b <= c - 1 /\ Usable(st, ref, b))
      BY <1>3, <3>1
    <3>4. Satisfies(st, pref, ref, a, c - 1)
      BY <1>5, <3>1
    <3>5. Takes(st, pref, ref, c, a)
      BY <2>3
    <3> HIDE DEF a, b
    <3>6. CASE b = None
      <4>1. Takes(st2, pref, ref2, c, b)
        BY <2>1, <3>6 DEF Takes
      <4> QED
        BY <1>6, <2>1, <4>1 DEF b
    <3>7. CASE b # None
      <4>1. /\ a # None
            /\ b >= pref[1] /\ Good(st, b) => a >= pref[1] /\ Good(st, a)
            /\ Good(st, b) => Good(st, a)
            /\ Good(st, a) \/ st[a].score >= st[b].score
        BY <3>3, <3>4, <3>7 DEF Satisfies
      <4>2. st[a].score \in Int /\ st[b].score \in Int /\ st[c].score \in Int
        BY <2>1, <3>2, <3>3, <3>7, <4>1
      <4>3. ~(b >= pref[1] /\ Good(st, b))
        BY <3>5, <4>1 DEF Takes
      <4>4. st[c].score >= st[b].score \/ Good(st, c)
        BY <3>5, <4>1, <4>2 DEF Takes, Good
      <4>5. st2[c].score = st[c].score /\ st2[b].score = st[b].score
        BY <2>1, <3>3, <3>7
      <4>6. (Good(st2, b) <=> Good(st, b)) /\ (Good(st2, c) <=> Good(st, c))
        BY <1>7, <2>1, <3>3, <3>7
      <4>7. Takes(st2, pref, ref2, c, b)
        BY <2>1, <4>3, <4>4, <4>5, <4>6 DEF Takes
      <4> QED
        BY <1>6, <2>1, <4>7 DEF b
    <3> QED
      BY <3>6, <3>7
  <2>5. c .. end \subseteq {n \in c .. end : g[n] = c}
    <3> DEFINE S == {n \in c .. end : g[n] = c}
    <3>1. c \in S
      BY <1>1, <2>1, <2>4
    <3>2. ASSUME NEW n \in c .. end, n # c, n - 1 \in S PROVE n \in S
      <4>1. n \in Spatial /\ n - 1 \in c .. end /\ g[n - 1] = c
        BY <1>1, <2>1, <3>2
      <4>2. f[n] = c /\ f[n - 1] = c
        BY <2>2, <4>1
      <4>3. ~Takes(st, pref, ref, n, c)
        BY <1>6, <3>2, <4>1, <4>2
      <4>4. st2[c].score = st[c].score /\ st2[n].score = st[n].score
        BY <2>1, <4>1
      <4>5. (Good(st2, c) <=> Good(st, c)) /\ (Good(st2, n) <=> Good(st, n))
        BY <1>7, <2>1, <4>1
      <4>6. ~Takes(st2, pref, ref2, n, c)
        BY <4>1, <4>3, <4>4, <4>5 DEF Takes
      <4>7. g[n] = c
        BY <1>6, <4>1, <4>6
      <4> QED
        BY <4>7
    <3> HIDE DEF S
    <3>3. c .. end \subseteq S
      BY <1>1, <2>1, <3>1, <3>2, RangeInduction
    <3> QED
      BY <3>3 DEF S
  <2>6. end \in c .. end
    BY <1>1, <2>1
  <2>7. g[end] = c
    BY <2>5, <2>6
  <2> QED
    BY <2>7 DEF c, end
<1> QED
  BY <1>8, <1>9

\* The layers that can be aimed at: none, or those of a usable stream.
LiveLayers(st, ref) == {NoLayers} \cup {p \in Spatial \X Temporal : Usable(st, ref, p[1])}

\* The streams have scores.
Scored(st) == \A s \in Spatial : st[s].score \in Int

\* RecalculateTargetLayers() comes to a usable stream that is the best one: a good
\* one at or above the preferred layer if there is one, else a good one if there is
\* one, else one that no other has a better score than.
THEOREM ChosenIsBest ==
    ASSUME NEW st, NEW pref \in Spatial \X Temporal, NEW ref, Scored(st)
    PROVE  LET c == Chosen(st, pref, ref) IN
           /\ c = None \/ (c \in Spatial /\ Usable(st, ref, c))
           /\ \A q \in Spatial :
                Usable(st, ref, q) =>
                  /\ c # None
                  /\ q >= pref[1] /\ Good(st, q) => c >= pref[1] /\ Good(st, c)
                  /\ Good(st, q) => Good(st, c)
                  /\ Good(st, c) \/ st[c].score >= st[q].score
<1>1. PICK f : ChoiceSteps(st, pref, ref, f) /\ Chosen(st, pref, ref) = f[SpatialLayers - 1]
  BY ChosenUnfolds
<1>2. pref[1] \in Int
  BY LayersFacts
<1>3. Satisfies(st, pref, ref, f[SpatialLayers - 1], SpatialLayers - 1)
  BY <1>1, <1>2, ChoicesSatisfy, LayersFacts DEF Scored
<1>4. \/ f[SpatialLayers - 1] = None
      \/ f[SpatialLayers - 1] \in Spatial /\ Usable(st, ref, f[SpatialLayers - 1])
  BY <1>1, ChoicesAreUsable, LayersFacts
<1>5. \A q \in Spatial : q <= SpatialLayers - 1
  BY LayersFacts
<1> QED
  BY <1>1, <1>3, <1>4, <1>5 DEF Satisfies

\* RecalculateTargetLayers() comes to no layers or to those of a usable stream.
LEMMA RecalculatedAreLive ==
    ASSUME NEW st, NEW pref \in Spatial \X Temporal, NEW ref, Scored(st)
    PROVE  RecalculateTargetLayers(st, pref, ref) \in LiveLayers(st, ref)
<1> DEFINE c == Chosen(st, pref, ref)
<1>1. c = None \/ (c \in Spatial /\ Usable(st, ref, c))
  BY ChosenIsBest
<1>2. c \in Spatial => c \in Int /\ pref[1] \in Int
  BY LayersFacts
<1>3. pref[2] \in Temporal /\ TemporalLayers - 1 \in Temporal /\ 0 \in Temporal
  BY LayersFacts
<1>4. RecalculateTargetLayers(st, pref, ref) =
        IF c = None THEN NoLayers
        ELSE <<c, CASE c = pref[1] -> pref[2]
                    [] c < pref[1] -> TemporalLayers - 1
                    [] c > pref[1] -> 0>>
  BY DEF RecalculateTargetLayers
<1> HIDE DEF c
<1> QED
  BY <1>1, <1>2, <1>3, <1>4 DEF LiveLayers

\* With fewer usable streams it comes to the same layers, if their stream is one of them.
LEMMA SameRecalculation ==
    ASSUME NEW st, NEW st2, NEW pref \in Spatial \X Temporal, NEW ref, NEW ref2,
           Scored(st),
           \A s \in Spatial : st2[s].score = st[s].score,
           \A s \in Spatial : Usable(st2, ref2, s) => Usable(st, ref, s),
           RecalculateTargetLayers(st, pref, ref) # NoLayers
             => Usable(st2, ref2, RecalculateTargetLayers(st, pref, ref)[1])
    PROVE  RecalculateTargetLayers(st2, pref, ref2) = RecalculateTargetLayers(st, pref, ref)
<1>1. PICK f : ChoiceSteps(st, pref, ref, f) /\ Chosen(st, pref, ref) = f[SpatialLayers - 1]
  BY ChosenUnfolds
<1>2. PICK g : ChoiceSteps(st2, pref, ref2, g) /\ Chosen(st2, pref, ref2) = g[SpatialLayers - 1]
  BY ChosenUnfolds
<1>3. pref[1] \in Int
  BY LayersFacts
<1>4. f[SpatialLayers - 1] # None => Usable(st2, ref2, f[SpatialLayers - 1])
  BY <1>1 DEF RecalculateTargetLayers, NoLayers
<1>5. g[SpatialLayers - 1] = f[SpatialLayers - 1]
  BY <1>1, <1>2, <1>3, <1>4, SameLastChoice DEF Scored
<1> QED
  BY <1>1, <1>2, <1>5 DEF RecalculateTargetLayers

\* Without a stream that is alive there are no layers.
LEMMA DeadHaveNoLayers ==
    ASSUME NEW st, NEW pref \in Spatial \X Temporal, NEW ref, Scored(st), ~Alive(st)
    PROVE  RecalculateTargetLayers(st, pref, ref) = NoLayers
BY RecalculatedAreLive DEF LiveLayers, Usable, Alive

\* Once the layers are chosen, taking their stream as the reference changes nothing.
LEMMA ReferenceKeepsLayers ==
    ASSUME NEW st, NEW pref \in Spatial \X Temporal, Scored(st),
           RecalculateTargetLayers(st, pref, None) # NoLayers
    PROVE  RecalculateTargetLayers(st, pref, RecalculateTargetLayers(st, pref, None)[1])
             = RecalculateTargetLayers(st, pref, None)
<1> DEFINE ref == RecalculateTargetLayers(st, pref, None)[1]
<1>1. ref \in Spatial /\ Usable(st, None, ref)
  BY RecalculatedAreLive DEF LiveLayers
<1>2. Usable(st, ref, ref)
  BY <1>1 DEF Usable, CanSwitchToSpatialLayer
<1>3. \A s \in Spatial : Usable(st, ref, s) => Usable(st, None, s)
  BY DEF Usable, CanSwitchToSpatialLayer
<1> HIDE DEF ref
<1>4. RecalculateTargetLayers(st, pref, ref) = RecalculateTargetLayers(st, pref, None)
  BY <1>2, <1>3, SameRecalculation DEF ref
<1> QED
  BY <1>4 DEF ref
-----------------------------------------------------------------------------
(* The choice by bitrate.                                                    *)

\* A set of natural numbers with a member has a least one.
LEMMA LeastExists ==
    ASSUME NEW S, S \subseteq Nat, S # {}
    PROVE  \E x \in S : \A y \in S : x <= y
<1>1. PICK x \in S : \A y \in S : ~(<<y, x>> \in OpToRel(<, Nat))
  BY NatLessThanWellFounded, WFMin
<1>2. ASSUME NEW y \in S PROVE x <= y
  <2>1. x \in Nat /\ y \in Nat
    OBVIOUS
  <2>2. ~(y < x)
    BY <1>1, <2>1 DEF OpToRel
  <2> QED
    BY <2>1, <2>2
<1> QED
  BY <1>2

\* One with a bound has a greatest one.
LEMMA GreatestExists ==
    ASSUME NEW n \in Nat, NEW S, S \subseteq 0 .. n, S # {}
    PROVE  \E x \in S : \A y \in S : y <= x
<1> DEFINE T == {n - x : x \in S}
<1>1. T \subseteq Nat /\ T # {}
  <2>1. ASSUME NEW x \in S PROVE n - x \in Nat
    OBVIOUS
  <2>2. PICK x \in S : TRUE
    OBVIOUS
  <2>3. n - x \in T
    OBVIOUS
  <2> QED
    BY <2>1, <2>3
<1>2. PICK t \in T : \A u \in T : t <= u
  <2> HIDE DEF T
  <2> QED
    BY <1>1, LeastExists
<1>3. PICK x \in S : t = n - x
  OBVIOUS
<1>4. ASSUME NEW y \in S PROVE y <= x
  <2>1. t <= n - y
    BY <1>2
  <2> QED
    BY <1>3, <2>1
<1> QED
  BY <1>4

\* A set of pairs of layers with a member has a last one.
LEMMA LastPairExists ==
    ASSUME NEW S, S \subseteq Spatial \X Temporal, S # {}
    PROVE  \E p \in S : \A q \in S : q = p \/ Before(q, p)
<1> DEFINE A == {p[1] : p \in S}
<1>1. A \subseteq 0 .. SpatialLayers - 1 /\ A # {} /\ SpatialLayers - 1 \in Nat
  BY LayersFacts
<1>2. PICK a \in A : \A x \in A : x <= a
  <2> HIDE DEF A
  <2> QED
    BY <1>1, GreatestExists
<1> DEFINE B == {t \in Temporal : <<a, t>> \in S}
<1>3. PICK r \in S : r[1] = a
  OBVIOUS
<1>4. r[2] \in B
  <2>1. r = <<r[1], r[2]>> /\ r[2] \in Temporal
    OBVIOUS
  <2> QED
    BY <1>3, <2>1
<1>5. B \subseteq 0 .. TemporalLayers - 1 /\ B # {} /\ TemporalLayers - 1 \in Nat
  BY <1>4, LayersFacts
<1>6. PICK b \in B : \A x \in B : x <= b
  <2> HIDE DEF B
  <2> QED
    BY <1>5, GreatestExists
<1>7. <<a, b>> \in S
  OBVIOUS
<1>8. ASSUME NEW q \in S PROVE q = <<a, b>> \/ Before(q, <<a, b>>)
  <2>1. q = <<q[1], q[2]>> /\ q[1] \in Spatial /\ q[2] \in Temporal
    OBVIOUS
  <2>2. q[1] <= a
    BY <1>2
  <2>3. q[1] = a => q[2] <= b
    <3>1. q[1] = a => q[2] \in B
      BY <2>1
    <3> HIDE DEF B
    <3> QED
      BY <1>6, <3>1
  <2>4. a \in Int /\ b \in Int /\ q[1] \in Int /\ q[2] \in Int
    BY <1>7, <2>1, LayersFacts
  <2> QED
    BY <2>1, <2>2, <2>3, <2>4 DEF Before
<1> QED
  BY <1>7, <1>8

\* UseAvailableBitrate() comes to no layers or to those of a usable stream.
LEMMA AvailableAreLive ==
    ASSUME NEW st, NEW pref, NEW ref, NEW rates, NEW virtual
    PROVE  UseAvailableBitrate(st, pref, ref, rates, virtual) \in LiveLayers(st, ref)
<1> DEFINE options == Options(st, pref, ref, rates)
           Affordable(p) == Needed(rates, p) <= virtual
           taken == {p \in options : Affordable(p) /\ \A q \in options : Before(q, p) => Affordable(q)}
           best == CHOOSE p \in taken : \A q \in taken : q = p \/ Before(q, p)
<1>1. UseAvailableBitrate(st, pref, ref, rates, virtual) = IF taken = {} THEN NoLayers ELSE best
  BY DEF UseAvailableBitrate
<1>2. taken \subseteq Spatial \X Temporal /\ \A p \in taken : Usable(st, ref, p[1])
  BY DEF Options
<1>3. taken # {} => best \in taken
  <2> HIDE DEF taken
  <2> QED
    BY <1>2, LastPairExists
<1> HIDE DEF taken, best
<1> QED
  BY <1>1, <1>2, <1>3 DEF LiveLayers

\* IncreaseLayer() leaves the layers or comes to those of a usable stream.
LEMMA IncreasedAreLive ==
    ASSUME NEW st, Scored(st), NEW pref, NEW ref, NEW rates, NEW p, NEW virtual
    PROVE  \/ IncreaseLayer(st, pref, ref, rates, p, virtual) = p
           \/ /\ IncreaseLayer(st, pref, ref, rates, p, virtual) \in Spatial \X Temporal
              /\ Usable(st, ref, IncreaseLayer(st, pref, ref, rates, p, virtual)[1])
<1> DEFINE higher == Higher(st, pref, ref, rates, p)
           next == CHOOSE q \in higher : \A r \in higher : q[1] <= r[1]
<1>1. IncreaseLayer(st, pref, ref, rates, p, virtual) =
        IF p = pref \/ higher = {} THEN p
        ELSE IF rates[next[1]][next[2]] <= virtual THEN next ELSE p
  BY DEF IncreaseLayer
<1>2. higher \subseteq Spatial \X Temporal /\ \A q \in higher : Usable(st, ref, q[1])
  <2>1. ASSUME NEW q \in higher PROVE q \in Spatial \X Temporal /\ Usable(st, ref, q[1])
    <3> DEFINE Above(s) == IF s = p[1] THEN p[2] + 1 ELSE 0
    <3>1. PICK s \in Spatial : /\ q = <<s, Above(s)>> /\ Above(s) \in Temporal
                               /\ Good(st, s) /\ CanSwitchToSpatialLayer(st, ref, s)
      BY DEF Higher
    <3> HIDE DEF Above
    <3>2. st[s].score > 0
      BY <3>1 DEF Good, Scored
    <3> QED
      BY <3>1, <3>2 DEF Usable
  <2> QED
    BY <2>1
<1>3. higher # {} => next \in higher
  <2> HIDE DEF higher
  <2>1. SUFFICES ASSUME higher # {} PROVE \E q \in higher : \A r \in higher : q[1] <= r[1]
    OBVIOUS
  <2> DEFINE A == {q[1] : q \in higher}
  <2>2. A \subseteq Nat /\ A # {}
    BY <1>2, <2>1, LayersFacts
  <2>3. PICK a \in A : \A x \in A : a <= x
    <3> HIDE DEF A
    <3> QED
      BY <2>2, LeastExists
  <2> QED
    BY <2>3
<1> HIDE DEF higher, next
<1> QED
  BY <1>1, <1>2, <1>3

\* DistributeAvailableOutgoingBitrate() comes to no layers or to those of a usable stream.
LEMMA DistributedAreLive ==
    ASSUME NEW st, Scored(st), NEW pref, NEW ref,
           NEW rates \in [Spatial -> [Temporal -> Nat]],
           NEW share \in Int, NEW rest \in Int, NEW bonus \in Int
    PROVE  DistributedLayers(st, pref, ref, rates, share, rest, bonus) \in LiveLayers(st, ref)
<1> DEFINE Raised(p, left) == IncreaseLayer(st, pref, ref, rates, p, left + bonus)
           Cost(p, q) == IF p = q THEN 0 ELSE rates[q[1]][q[2]]
           hi == SpatialLayers * TemporalLayers
           D == 0 .. hi
           R == [pair : LiveLayers(st, ref), left : Int]
           a == [pair |-> UseAvailableBitrate(st, pref, ref, rates, share + bonus), left |-> rest]
           Next1(p) == LET q == IF p.left <= 0 THEN p.pair ELSE Raised(p.pair, p.left)
                       IN  [pair |-> q, left |-> p.left - Cost(p.pair, q)]
           G == [n \in D |-> [p \in R |-> Next1(p)]]
           raised == CHOOSE f : f = [n \in D |-> IF n = 0 THEN a ELSE Next1(f[n - 1])]
<1>1. DistributedLayers(st, pref, ref, rates, share, rest, bonus) = raised[hi].pair
  BY DEF DistributedLayers
<1>2. hi \in Nat
  BY LayersFacts
<1>3. a \in R
  BY AvailableAreLive
<1>4. ASSUME NEW p \in R PROVE Next1(p) \in R
  <2> DEFINE q == IF p.left <= 0 THEN p.pair ELSE Raised(p.pair, p.left)
  <2>1. q = p.pair \/ (q \in Spatial \X Temporal /\ Usable(st, ref, q[1]))
    BY IncreasedAreLive
  <2> HIDE DEF q
  <2>2. q \in LiveLayers(st, ref)
    BY <2>1 DEF LiveLayers
  <2>3. Cost(p.pair, q) \in Int
    BY <2>1
  <2> HIDE DEF Cost
  <2>4. p.left - Cost(p.pair, q) \in Int
    BY <2>3
  <2> QED
    BY <2>2, <2>4 DEF q
<1> HIDE DEF a, R, Next1, hi
<1>5. G \in [0 .. hi -> [R -> R]]
  BY <1>4
<1>6. PICK g \in [D -> R] : \A n \in D : g[n] = IF n = 0 THEN a ELSE G[n][g[n - 1]]
  <2>1. IterationExists(0, hi, R, a, G)
    <3> HIDE DEF G
    <3> QED
      BY <1>2, <1>3, <1>5, RecursionExists
  <2> QED
    BY <2>1 DEF IterationExists, Iterates
<1>7. \A n \in D \ {0} : n - 1 \in D
  BY <1>2
<1>8. g = [n \in D |-> IF n = 0 THEN a ELSE Next1(g[n - 1])]
  <2>1. ASSUME NEW n \in D, n # 0 PROVE g[n] = Next1(g[n - 1])
    <3>1. g[n - 1] \in R /\ g[n] = G[n][g[n - 1]]
      BY <1>6, <1>7, <2>1
    <3> QED
      BY <3>1
  <2> HIDE DEF D, G
  <2> QED
    BY <1>6, <2>1
<1>9. raised = [n \in D |-> IF n = 0 THEN a ELSE Next1(raised[n - 1])]
  BY <1>8
<1> HIDE DEF raised, G
<1>10. \A n \in D : raised[n] = IF n = 0 THEN a ELSE Next1(raised[n - 1])
  <2> HIDE DEF D
  <2> QED
    BY <1>9
<1>11. 0 .. hi \subseteq {n \in D : raised[n] \in R}
  <2> DEFINE S == {n \in D : raised[n] \in R}
  <2>1. 0 \in S
    BY <1>2, <1>3, <1>10
  <2>2. ASSUME NEW n \in D, n # 0, n - 1 \in S PROVE n \in S
    BY <1>4, <1>10, <2>2
  <2> HIDE DEF S
  <2>4. 0 \in Int /\ hi \in Int
    BY <1>2
  <2>3. 0 .. hi \subseteq S
    BY <2>4, <2>1, <2>2, RangeInduction
  <2> QED
    BY <2>3 DEF S
<1>12. raised[hi] \in R
  BY <1>2, <1>11
<1> QED
  BY <1>1, <1>12 DEF R
-----------------------------------------------------------------------------
(* The inductive invariant.                                                  *)

\* A stream is absent until it is seen; its reports are off by its own error.
StreamsMatch ==
    \A s \in Spatial :
      /\ ~streams[s].seen => streams[s] = Absent
      /\ HasReport(streams, s) => streams[s].report = Base[s] + Skew[s]

\* A target has a reference; a current layer has a target and is the reference, or
\* both have reports; it is the layer that was sent last.
LayersMatch ==
    /\ target # NoLayers => tsReferenceSpatialLayer # None
    /\ target = NoLayers => currentSpatialLayer = None
    /\ currentSpatialLayer # None =>
         /\ tsReferenceSpatialLayer # None
         /\ context.target # None
         /\ \/ currentSpatialLayer = tsReferenceSpatialLayer
            \/ HasReport(streams, currentSpatialLayer) /\ HasReport(streams, tsReferenceSpatialLayer)
    /\ last.layer = currentSpatialLayer

\* The offsets are numbers.
OffsetsAreInts == tsOffset \in Int /\ \A t \in DOMAIN tsExtraOffsets : tsExtraOffsets[t] \in Int

IInv ==
    /\ TypeOK
    /\ StreamsMatch
    /\ LayersMatch
    /\ OffsetsAreInts
    /\ TargetIsLive
    /\ IdleHasNoLayers
    /\ TargetIsBest
    /\ OffsetIsSkew

\* The part of TypeOK on the layers.
LayersTypeOK ==
    /\ target \in AnyLayers
    /\ currentSpatialLayer \in Spatial \cup {None}
    /\ tsReferenceSpatialLayer \in Spatial \cup {None}
    /\ context \in [target : Temporal \cup {None}, current : Temporal \cup {None}]
    /\ asked \subseteq Spatial

\* The part of TypeOK on the streams.
StreamsTypeOK == streams \in [Spatial -> [seen : BOOLEAN, score : 0 .. 10, report : Nat]]

\* The consumer comes to a pair of layers, which may be the one it has.
Settles(st, pair) ==
    /\ pair \in LiveLayers(st, tsReferenceSpatialLayer)
    /\ \/ target = pair /\ UNCHANGED chosen
       \/ UpdateTargetLayers(pair)

\* No stream forgets its report, and none that was alive or not dies of it.
ReportsKept == \A s \in Spatial : HasReport(streams, s) => HasReport(streams', s)

\* Coming to a pair of live layers keeps what links the layers.
LEMMA SettlingKeepsLayers ==
    ASSUME LayersTypeOK, LayersMatch, ReportsKept, NEW pair, Settles(streams', pair)
    PROVE  /\ LayersTypeOK' /\ LayersMatch' /\ TargetIsLive'
           /\ target' = pair
           /\ \/ tsReferenceSpatialLayer' = tsReferenceSpatialLayer
              \/ /\ tsReferenceSpatialLayer = None /\ pair # NoLayers
                 /\ tsReferenceSpatialLayer' = pair[1]
           /\ \/ currentSpatialLayer' = None
              \/ /\ currentSpatialLayer' = currentSpatialLayer
                 /\ tsReferenceSpatialLayer' = tsReferenceSpatialLayer
<1> USE DEF LayersTypeOK, LayersMatch
<1>1. None \notin Spatial /\ NoLayers = <<None, None>> /\ NoLayers \notin Spatial \X Temporal
  BY LayersFacts DEF NoLayers
<1>2. pair = NoLayers \/ (/\ pair \in Spatial \X Temporal
                          /\ Usable(streams', tsReferenceSpatialLayer, pair[1]))
  BY DEF Settles, LiveLayers
<1>3. CASE target = pair /\ UNCHANGED chosen
  <2>1. /\ target' = target /\ currentSpatialLayer' = currentSpatialLayer
        /\ tsReferenceSpatialLayer' = tsReferenceSpatialLayer
        /\ context' = context /\ asked' = asked /\ last' = last
    BY <1>3 DEF chosen
  <2>2. LayersTypeOK'
    BY <2>1
  <2>3. LayersMatch'
    <3>1. currentSpatialLayer # None /\ currentSpatialLayer # tsReferenceSpatialLayer =>
            HasReport(streams', currentSpatialLayer) /\ HasReport(streams', tsReferenceSpatialLayer)
      BY DEF ReportsKept
    <3> QED
      BY <2>1, <3>1 DEF HasReport
  <2>4. TargetIsLive'
    BY <1>2, <1>3, <2>1 DEF TargetIsLive, Usable, CanSwitchToSpatialLayer, HasReport
  <2> QED
    BY <1>3, <2>1, <2>2, <2>3, <2>4
<1>4. CASE UpdateTargetLayers(pair) /\ pair = NoLayers
  <2>1. /\ target' = NoLayers /\ currentSpatialLayer' = None
        /\ tsReferenceSpatialLayer' = tsReferenceSpatialLayer
        /\ context' = [target |-> None, current |-> None] /\ asked' = asked /\ last' = NoPacket
    BY <1>4 DEF UpdateTargetLayers
  <2> QED
    BY <1>4, <2>1 DEF AnyLayers, NoPacket, TargetIsLive
<1>5. CASE UpdateTargetLayers(pair) /\ pair # NoLayers
  <2>1. /\ target' = pair /\ currentSpatialLayer' = currentSpatialLayer /\ last' = last
        /\ tsReferenceSpatialLayer' =
             IF tsReferenceSpatialLayer = None THEN pair[1] ELSE tsReferenceSpatialLayer
        /\ context' = IF pair[1] = currentSpatialLayer
                      THEN [context EXCEPT !.target = pair[2]] ELSE context
        /\ asked' = IF pair[1] = currentSpatialLayer THEN asked ELSE asked \cup {pair[1]}
    BY <1>5 DEF UpdateTargetLayers
  <2>2. pair[1] \in Spatial /\ pair[2] \in Temporal /\ pair[2] # None
    BY <1>2, <1>5, LayersFacts
  <2>3. LayersTypeOK'
    BY <1>2, <1>5, <2>1, <2>2 DEF AnyLayers
  <2>4. tsReferenceSpatialLayer' # None
    BY <1>1, <2>1, <2>2
  <2>5. currentSpatialLayer # None => context'.target # None
    BY <2>1, <2>2
  <2>6. currentSpatialLayer # None =>
          \/ currentSpatialLayer = tsReferenceSpatialLayer
          \/ HasReport(streams', currentSpatialLayer) /\ HasReport(streams', tsReferenceSpatialLayer)
    BY DEF ReportsKept
  <2>7. LayersMatch'
    BY <1>5, <2>1, <2>4, <2>5, <2>6 DEF HasReport
  <2>8. TargetIsLive'
    <3>1. Usable(streams', tsReferenceSpatialLayer', pair[1])
      BY <1>2, <1>5, <2>1 DEF Usable, CanSwitchToSpatialLayer
    <3> QED
      BY <2>1, <3>1 DEF TargetIsLive, Usable, CanSwitchToSpatialLayer, HasReport
  <2> QED
    BY <1>5, <2>1, <2>3, <2>7, <2>8
<1> QED
  BY <1>3, <1>4, <1>5 DEF Settles

\* What the distribution of bitrate comes to.
LEMMA DistributionSettles ==
    ASSUME NEW st, NEW pref, Scored(st), DistributeAvailableOutgoingBitrate(st, pref)
    PROVE  \E pair : Settles(st, pair)
<1>1. PICK rates \in Rates, share \in 0 .. MaxBitrate, rest \in 0 .. MaxBitrate, bonus \in {-1, 0, 1} :
        LET pair == DistributedLayers(st, pref, tsReferenceSpatialLayer, rates, share, rest, bonus)
        IN  IF pair = target THEN UNCHANGED chosen ELSE UpdateTargetLayers(pair)
  BY DEF DistributeAvailableOutgoingBitrate
<1>2. /\ rates \in [Spatial -> [Temporal -> Nat]]
      /\ share \in Int /\ rest \in Int /\ bonus \in Int
  BY ConsumerAssumption
<1>3. DistributedLayers(st, pref, tsReferenceSpatialLayer, rates, share, rest, bonus)
        \in LiveLayers(st, tsReferenceSpatialLayer)
  BY <1>2, DistributedAreLive
<1> QED
  BY <1>1, <1>3 DEF Settles

\* What MayChangeLayers() comes to: with its own bitrate, the layers it calculates.
LEMMA ChangeSettles ==
    ASSUME NEW st, NEW pref \in Spatial \X Temporal, NEW force, Scored(st),
           target \in AnyLayers, MayChangeLayers(st, pref, force)
    PROVE  /\ unheard' = FALSE
           /\ \E pair :
                /\ Settles(st, pair)
                /\ ~externallyManagedBitrate =>
                     pair = RecalculateTargetLayers(st, pref, tsReferenceSpatialLayer)
<1> DEFINE new == RecalculateTargetLayers(st, pref, tsReferenceSpatialLayer)
<1>1. new \in LiveLayers(st, tsReferenceSpatialLayer)
  BY RecalculatedAreLive
<1>2. /\ unheard' = FALSE
      /\ IF new = target THEN UNCHANGED chosen
         ELSE IF ~externallyManagedBitrate THEN UpdateTargetLayers(new)
         ELSE IF new[1] # target[1] \/ force THEN DistributeAvailableOutgoingBitrate(st, pref)
         ELSE UNCHANGED chosen
  BY DEF MayChangeLayers
<1> HIDE DEF new
<1>3. CASE new = target \/ ~externallyManagedBitrate
  <2>1. Settles(st, new)
    BY <1>1, <1>2, <1>3 DEF Settles
  <2> QED
    BY <1>2, <2>1 DEF new
<1>4. CASE new # target /\ externallyManagedBitrate /\ (new[1] # target[1] \/ force)
  BY <1>2, <1>4, DistributionSettles
<1>5. CASE new # target /\ externallyManagedBitrate /\ ~(new[1] # target[1] \/ force)
  <2>1. target \in LiveLayers(st, tsReferenceSpatialLayer)
    <3>1. target = NoLayers \/ (target \in Spatial \X Temporal /\ target[1] # None)
      BY LayersFacts DEF AnyLayers
    <3> QED
      BY <1>1, <1>5, <3>1 DEF LiveLayers, NoLayers
  <2>2. Settles(st, target)
    BY <1>2, <1>5, <2>1 DEF Settles
  <2> QED
    BY <1>2, <1>5, <2>2
<1> QED
  BY <1>3, <1>4, <1>5

\* An event that brings the consumer to live layers, those that it would choose, keeps
\* the invariant.
LEMMA SettlingKeepsInvariant ==
    ASSUME IInv, StreamsTypeOK', StreamsMatch', ReportsKept,
           preferred' \in Spatial \X Temporal,
           UNCHANGED <<tsOffset, tsExtraOffsets, tsExtraOffsetPacketCount, started, maxPacketTs, failed>>,
           ~syncRequired' => ~syncRequired,
           NEW pair, Settles(streams', pair),
           ~ConsumerActive' => pair = NoLayers,
           ConsumerActive' /\ ~externallyManagedBitrate' /\ ~unheard' =>
             pair = RecalculateTargetLayers(streams', preferred', tsReferenceSpatialLayer)
    PROVE  IInv'
<1>1. LayersTypeOK /\ LayersMatch
  BY DEF IInv, TypeOK, LayersTypeOK
<1>2. /\ LayersTypeOK' /\ LayersMatch' /\ TargetIsLive'
      /\ target' = pair
      /\ \/ tsReferenceSpatialLayer' = tsReferenceSpatialLayer
         \/ /\ tsReferenceSpatialLayer = None /\ pair # NoLayers
            /\ tsReferenceSpatialLayer' = pair[1]
      /\ \/ currentSpatialLayer' = None
         \/ /\ currentSpatialLayer' = currentSpatialLayer
            /\ tsReferenceSpatialLayer' = tsReferenceSpatialLayer
  BY <1>1, SettlingKeepsLayers
<1>3. TypeOK'
  BY <1>2 DEF IInv, TypeOK, LayersTypeOK, StreamsTypeOK
<1>4. OffsetsAreInts'
  BY DEF IInv, OffsetsAreInts
<1>5. IdleHasNoLayers'
  BY <1>2 DEF IdleHasNoLayers, LayersMatch
<1>6. TargetIsBest'
  <2> SUFFICES ASSUME ConsumerActive' /\ ~externallyManagedBitrate' /\ ~unheard'
               PROVE  target' = RecalculateTargetLayers(streams', preferred', tsReferenceSpatialLayer')
    BY DEF TargetIsBest
  <2>1. pair = RecalculateTargetLayers(streams', preferred', tsReferenceSpatialLayer)
    OBVIOUS
  <2>2. CASE tsReferenceSpatialLayer' = tsReferenceSpatialLayer
    BY <1>2, <2>1, <2>2
  <2>3. CASE /\ tsReferenceSpatialLayer = None /\ pair # NoLayers
             /\ tsReferenceSpatialLayer' = pair[1]
    <3>1. Scored(streams')
      BY DEF StreamsTypeOK, Scored
    <3>2. RecalculateTargetLayers(streams', preferred', pair[1]) = pair
      BY <2>1, <2>3, <3>1, ReferenceKeepsLayers
    <3> QED
      BY <1>2, <2>3, <3>2
  <2> QED
    BY <1>2, <2>2, <2>3
<1>7. OffsetIsSkew'
  <2> SUFFICES ASSUME currentSpatialLayer' # None, ~syncRequired'
               PROVE  tsOffset' = Ts!Wrap((Base[currentSpatialLayer'] + Skew[currentSpatialLayer'])
                        - (Base[tsReferenceSpatialLayer'] + Skew[tsReferenceSpatialLayer']))
    BY DEF OffsetIsSkew
  <2>1. /\ currentSpatialLayer' = currentSpatialLayer
        /\ tsReferenceSpatialLayer' = tsReferenceSpatialLayer
    BY <1>2
  <2>2. tsOffset = Ts!Wrap((Base[currentSpatialLayer] + Skew[currentSpatialLayer])
                     - (Base[tsReferenceSpatialLayer] + Skew[tsReferenceSpatialLayer]))
    BY <2>1 DEF IInv, OffsetIsSkew
  <2> QED
    BY <2>1, <2>2
<1> QED
  BY <1>2, <1>3, <1>4, <1>5, <1>6, <1>7 DEF IInv

\* What the invariant says of the layers as they are.
LEMMA LayersAreLive ==
    ASSUME IInv
    PROVE  /\ LayersTypeOK /\ target \in AnyLayers /\ preferred \in Spatial \X Temporal
           /\ StreamsTypeOK /\ Scored(streams)
           /\ target \in LiveLayers(streams, tsReferenceSpatialLayer)
           /\ target # NoLayers => Alive(streams)
<1>1. /\ LayersTypeOK /\ target \in AnyLayers /\ preferred \in Spatial \X Temporal
      /\ StreamsTypeOK
  BY DEF IInv, TypeOK, LayersTypeOK, StreamsTypeOK
<1>2. Scored(streams)
  BY <1>1 DEF StreamsTypeOK, Scored
<1>3. target # NoLayers =>
        target \in Spatial \X Temporal /\ Usable(streams, tsReferenceSpatialLayer, target[1])
  BY <1>1 DEF IInv, TargetIsLive, AnyLayers
<1>4. target # NoLayers => Alive(streams)
  BY <1>3 DEF Usable, Alive
<1> QED
  BY <1>1, <1>2, <1>3, <1>4 DEF LiveLayers

\* The layers of an idle consumer stay as they are.
LEMMA IdleSettles ==
    ASSUME IInv, ~ConsumerActive, UNCHANGED chosen
    PROVE  target = NoLayers /\ Settles(streams', target)
BY DEF IInv, IdleHasNoLayers, Settles, LiveLayers

\* A new stream.
LEMMA NewRtpStreamKeeps ==
    ASSUME IInv, NEW s \in Spatial, ProducerNewRtpStream(s)
    PROVE  IInv'
<1>1. /\ streams' = [streams EXCEPT ![s] = [seen |-> TRUE, score |-> 10, report |-> NoReport]]
      /\ streams[s] = Absent
      /\ ConsumerActive' = ConsumerActive /\ preferred' = preferred
      /\ externallyManagedBitrate' = externallyManagedBitrate
      /\ UNCHANGED <<tsOffset, tsExtraOffsets, tsExtraOffsetPacketCount, started, maxPacketTs, failed>>
      /\ syncRequired' = syncRequired
  BY DEF ProducerNewRtpStream, IInv, StreamsMatch, status, timeline, ConsumerActive
<1>2. StreamsTypeOK /\ LayersTypeOK /\ target \in AnyLayers /\ preferred \in Spatial \X Temporal
  BY LayersAreLive
<1>3. StreamsTypeOK' /\ Scored(streams')
  BY <1>1, <1>2 DEF StreamsTypeOK, Scored, NoReport
<1>4. StreamsMatch' /\ ReportsKept
  BY <1>1, <1>2 DEF IInv, StreamsMatch, StreamsTypeOK, HasReport, ReportsKept, Absent, NoReport
<1>5. CASE ConsumerActive
  <2>1. MayChangeLayers(streams', preferred, FALSE)
    BY <1>5 DEF ProducerNewRtpStream
  <2>2. PICK pair : /\ Settles(streams', pair)
                    /\ ~externallyManagedBitrate =>
                         pair = RecalculateTargetLayers(streams', preferred, tsReferenceSpatialLayer)
    BY <1>2, <1>3, <2>1, ChangeSettles
  <2> QED
    BY <1>1, <1>2, <1>3, <1>4, <1>5, <2>2, SettlingKeepsInvariant
<1>6. CASE ~ConsumerActive
  <2>1. UNCHANGED chosen
    BY <1>6 DEF ProducerNewRtpStream, KeepLayers
  <2> QED
    BY <1>1, <1>2, <1>3, <1>4, <1>6, <2>1, IdleSettles, SettlingKeepsInvariant
<1> QED
  BY <1>5, <1>6

\* A score of a stream.
LEMMA RtpStreamScoreKeeps ==
    ASSUME IInv, NEW s \in Spatial, NEW score \in Scores, ProducerRtpStreamScore(s, score)
    PROVE  IInv'
<1>1. /\ streams' = [streams EXCEPT ![s].score = score] /\ streams[s].seen
      /\ ConsumerActive' = ConsumerActive /\ preferred' = preferred
      /\ externallyManagedBitrate' = externallyManagedBitrate
      /\ UNCHANGED <<tsOffset, tsExtraOffsets, tsExtraOffsetPacketCount, started, maxPacketTs, failed>>
      /\ syncRequired' = syncRequired
  BY DEF ProducerRtpStreamScore, status, timeline, ConsumerActive
<1>2. /\ StreamsTypeOK /\ LayersTypeOK /\ target \in AnyLayers /\ preferred \in Spatial \X Temporal
      /\ target \in LiveLayers(streams, tsReferenceSpatialLayer)
  BY LayersAreLive
<1>3. StreamsTypeOK' /\ Scored(streams')
  BY <1>1, <1>2, ConsumerAssumption DEF StreamsTypeOK, Scored
<1>4. /\ \A q \in Spatial : /\ streams'[q].report = streams[q].report
                            /\ streams'[q].seen = streams[q].seen
      /\ \A q \in Spatial \ {s} : streams'[q] = streams[q]
  BY <1>1, <1>2 DEF StreamsTypeOK
<1>5. StreamsMatch' /\ ReportsKept
  BY <1>1, <1>4 DEF IInv, StreamsMatch, HasReport, ReportsKept
<1>6. CASE ConsumerActive /\ (~externallyManagedBitrate \/ score = 0 \/ streams[s].score = 0)
  <2>1. MayChangeLayers(streams', preferred, FALSE)
    BY <1>6 DEF ProducerRtpStreamScore
  <2>2. PICK pair : /\ Settles(streams', pair)
                    /\ ~externallyManagedBitrate =>
                         pair = RecalculateTargetLayers(streams', preferred, tsReferenceSpatialLayer)
    BY <1>2, <1>3, <2>1, ChangeSettles
  <2> QED
    BY <1>1, <1>2, <1>3, <1>5, <1>6, <2>2, SettlingKeepsInvariant
<1>7. CASE ~ConsumerActive
  <2>1. UNCHANGED chosen
    BY <1>7 DEF ProducerRtpStreamScore, KeepLayers
  <2> QED
    BY <1>1, <1>2, <1>3, <1>5, <1>7, <2>1, IdleSettles, SettlingKeepsInvariant
<1>8. CASE ConsumerActive /\ externallyManagedBitrate /\ score # 0 /\ streams[s].score # 0
  <2>1. UNCHANGED chosen
    BY <1>8 DEF ProducerRtpStreamScore, KeepLayers
  <2>2. score > 0 /\ streams'[s].score = score
    <3>1. score \in 0 .. 10
      BY ConsumerAssumption
    <3>2. streams'[s].score = score
      BY <1>1, <1>2 DEF StreamsTypeOK
    <3> QED
      BY <1>8, <3>1, <3>2
  <2>3. \A q \in Spatial : Usable(streams, tsReferenceSpatialLayer, q) =>
                             Usable(streams', tsReferenceSpatialLayer, q)
    <3>1. SUFFICES ASSUME NEW q \in Spatial, Usable(streams, tsReferenceSpatialLayer, q)
                   PROVE  Usable(streams', tsReferenceSpatialLayer, q)
      OBVIOUS
    <3>2. streams'[q].score > 0
      BY <1>4, <2>2, <3>1 DEF Usable
    <3>3. tsReferenceSpatialLayer = None \/ tsReferenceSpatialLayer \in Spatial
      BY <1>2 DEF LayersTypeOK
    <3> QED
      BY <1>4, <3>1, <3>2, <3>3 DEF Usable, CanSwitchToSpatialLayer, HasReport
  <2>4. Settles(streams', target)
    BY <1>2, <2>1, <2>3 DEF Settles, LiveLayers
  <2> QED
    BY <1>1, <1>2, <1>3, <1>5, <1>8, <2>4, SettlingKeepsInvariant
<1> QED
  BY <1>6, <1>7, <1>8

\* A Sender Report: one that is ignored would not let the consumer choose otherwise.
LEMMA SenderReportKeeps ==
    ASSUME IInv, NEW s \in Spatial, ProducerRtcpSenderReport(s)
    PROVE  IInv'
<1>1. /\ streams' = [streams EXCEPT ![s].report = Base[s] + Skew[s]] /\ streams[s].seen
      /\ ConsumerActive' = ConsumerActive /\ preferred' = preferred
      /\ externallyManagedBitrate' = externallyManagedBitrate
      /\ UNCHANGED <<tsOffset, tsExtraOffsets, tsExtraOffsetPacketCount, started, maxPacketTs, failed>>
      /\ syncRequired' = syncRequired
  BY DEF ProducerRtcpSenderReport, status, timeline, ConsumerActive
<1>2. /\ StreamsTypeOK /\ LayersTypeOK /\ target \in AnyLayers /\ preferred \in Spatial \X Temporal
      /\ target \in LiveLayers(streams, tsReferenceSpatialLayer)
      /\ Scored(streams) /\ (target # NoLayers => Alive(streams))
  BY LayersAreLive
<1>3. Base[s] + Skew[s] \in Nat /\ Base[s] + Skew[s] # NoReport
  BY ConsumerAssumption DEF NoReport
<1>4. /\ StreamsTypeOK' /\ Scored(streams')
      /\ \A q \in Spatial : streams'[q].score = streams[q].score /\ streams'[q].seen = streams[q].seen
      /\ \A q \in Spatial \ {s} : streams'[q] = streams[q]
      /\ streams'[s].report = Base[s] + Skew[s]
  BY <1>1, <1>2, <1>3 DEF StreamsTypeOK, Scored
<1>5. StreamsMatch' /\ ReportsKept
  <2>1. ASSUME NEW q \in Spatial
        PROVE  /\ ~streams'[q].seen => streams'[q] = Absent
               /\ HasReport(streams', q) => streams'[q].report = Base[q] + Skew[q]
               /\ HasReport(streams, q) => HasReport(streams', q)
    BY <1>1, <1>3, <1>4 DEF IInv, StreamsMatch, HasReport
  <2> QED
    BY <2>1 DEF StreamsMatch, ReportsKept, HasReport
<1>6. tsReferenceSpatialLayer = None \/ tsReferenceSpatialLayer \in Spatial
  BY <1>2 DEF LayersTypeOK
<1>7. \A q \in Spatial : Usable(streams, tsReferenceSpatialLayer, q) =>
                           Usable(streams', tsReferenceSpatialLayer, q)
  BY <1>4, <1>5, <1>6 DEF Usable, CanSwitchToSpatialLayer, ReportsKept
<1>8. UNCHANGED chosen => Settles(streams', target)
  BY <1>2, <1>7 DEF Settles, LiveLayers
<1>9. CASE ~ConsumerActive
  <2>1. UNCHANGED chosen
    BY <1>9 DEF ProducerRtcpSenderReport, KeepLayers, IsActive
  <2> QED
    BY <1>1, <1>2, <1>4, <1>5, <1>9, <2>1, IdleSettles, SettlingKeepsInvariant
<1>10. CASE ConsumerActive /\ HasReport(streams, s)
  <2>1. UNCHANGED chosen /\ unheard' = unheard
    BY <1>10 DEF ProducerRtcpSenderReport, KeepLayers
  <2>2. streams' = streams
    <3>1. streams[s].report = Base[s] + Skew[s]
      BY <1>10 DEF IInv, StreamsMatch
    <3> QED
      BY <1>1, <1>2, <3>1 DEF StreamsTypeOK
  <2>3. ~externallyManagedBitrate' /\ ~unheard' =>
          target = RecalculateTargetLayers(streams', preferred', tsReferenceSpatialLayer)
    BY <1>1, <1>10, <2>1, <2>2 DEF IInv, TargetIsBest
  <2> QED
    BY <1>1, <1>2, <1>4, <1>5, <1>8, <1>10, <2>1, <2>3, SettlingKeepsInvariant
<1>11. CASE /\ ConsumerActive /\ ~HasReport(streams, s)
            /\ currentSpatialLayer # None
            /\ HasReport(streams', currentSpatialLayer)
            /\ IsActive
  <2>1. MayChangeLayers(streams', preferred, FALSE)
    BY <1>11 DEF ProducerRtcpSenderReport
  <2>2. PICK pair : /\ Settles(streams', pair)
                    /\ ~externallyManagedBitrate =>
                         pair = RecalculateTargetLayers(streams', preferred, tsReferenceSpatialLayer)
    BY <1>2, <1>4, <2>1, ChangeSettles
  <2> QED
    BY <1>1, <1>2, <1>4, <1>5, <1>11, <2>2, SettlingKeepsInvariant
<1>12. CASE /\ ConsumerActive /\ ~HasReport(streams, s)
            /\ ~(/\ currentSpatialLayer # None
                 /\ HasReport(streams', currentSpatialLayer)
                 /\ IsActive)
  <2>1. UNCHANGED chosen /\ unheard' = (unheard \/ currentSpatialLayer = None)
    BY <1>12 DEF ProducerRtcpSenderReport
  <2>2. ASSUME ~externallyManagedBitrate', ~unheard'
        PROVE  target = RecalculateTargetLayers(streams', preferred', tsReferenceSpatialLayer)
    <3>1. ~unheard /\ currentSpatialLayer # None
      BY <2>1, <2>2
    <3>2. IsActive
      BY <1>2, <1>12, <3>1 DEF IInv, LayersMatch, IsActive
    <3>3. currentSpatialLayer = tsReferenceSpatialLayer /\ tsReferenceSpatialLayer \in Spatial
      <4>1. ~HasReport(streams', currentSpatialLayer) /\ currentSpatialLayer \in Spatial
        BY <1>2, <1>12, <3>1, <3>2 DEF LayersTypeOK
      <4>2. ~HasReport(streams, currentSpatialLayer)
        BY <1>5, <4>1 DEF ReportsKept
      <4> QED
        BY <3>1, <4>1, <4>2 DEF IInv, LayersMatch
    <3>4. ~HasReport(streams', tsReferenceSpatialLayer)
      BY <1>12, <3>1, <3>2, <3>3
    <3>5. \A q \in Spatial : Usable(streams', tsReferenceSpatialLayer, q) =>
                               Usable(streams, tsReferenceSpatialLayer, q)
      BY <1>4, <3>3, <3>4, LayersFacts DEF Usable, CanSwitchToSpatialLayer
    <3>6. target = RecalculateTargetLayers(streams, preferred, tsReferenceSpatialLayer)
      BY <1>1, <1>12, <2>2, <3>1 DEF IInv, TargetIsBest
    <3>7. target # NoLayers => target[1] \in Spatial /\ Usable(streams', tsReferenceSpatialLayer, target[1])
      BY <1>2, <1>7 DEF LiveLayers
    <3> DEFINE ref == tsReferenceSpatialLayer
               st == streams
               st2 == streams'
    <3>8. /\ \A q \in Spatial : st2[q].score = st[q].score
          /\ \A q \in Spatial : Usable(st2, ref, q) => Usable(st, ref, q)
          /\ Scored(st) /\ preferred \in Spatial \X Temporal
          /\ target = RecalculateTargetLayers(st, preferred, ref)
          /\ target # NoLayers => Usable(st2, ref, target[1])
      BY <1>2, <1>4, <3>5, <3>6, <3>7
    <3> HIDE DEF st, st2, ref
    <3>9. RecalculateTargetLayers(st2, preferred, ref) = target
      BY <3>8, SameRecalculation
    <3> QED
      BY <1>1, <3>9 DEF st2, ref
  <2> QED
    BY <1>1, <1>2, <1>4, <1>5, <1>8, <1>12, <2>1, <2>2, SettlingKeepsInvariant
<1> QED
  BY <1>9, <1>10, <1>11, <1>12

\* The consumer may start, and chooses its layers if a stream is alive; without one
\* it has none.
LEMMA StartKeeps ==
    ASSUME IInv, ~ConsumerActive,
           UNCHANGED <<streams, externallyManagedBitrate, preferred, tsOffset, tsExtraOffsets,
                       tsExtraOffsetPacketCount, started, maxPacketTs, failed>>,
           ~syncRequired' => ~syncRequired,
           IF ConsumerActive' /\ Alive(streams)
           THEN MayChangeLayers(streams, preferred, FALSE) ELSE KeepLayers
    PROVE  IInv'
<1>1. /\ StreamsTypeOK /\ LayersTypeOK /\ target \in AnyLayers /\ preferred \in Spatial \X Temporal
      /\ Scored(streams)
  BY LayersAreLive
<1>2. StreamsTypeOK' /\ StreamsMatch' /\ ReportsKept
  BY <1>1 DEF StreamsTypeOK, IInv, StreamsMatch, ReportsKept, HasReport
<1>3. CASE ConsumerActive' /\ Alive(streams)
  <2>1. PICK pair : /\ Settles(streams, pair)
                    /\ ~externallyManagedBitrate =>
                         pair = RecalculateTargetLayers(streams, preferred, tsReferenceSpatialLayer)
    BY <1>1, <1>3, ChangeSettles
  <2> QED
    BY <1>1, <1>2, <1>3, <2>1, SettlingKeepsInvariant
<1>4. CASE ~(ConsumerActive' /\ Alive(streams))
  <2>1. UNCHANGED chosen
    BY <1>4 DEF KeepLayers
  <2>2. target = NoLayers /\ Settles(streams', target)
    BY <2>1, IdleSettles
  <2>3. ConsumerActive' =>
          target = RecalculateTargetLayers(streams, preferred, tsReferenceSpatialLayer)
    BY <1>1, <1>4, <2>2, DeadHaveNoLayers
  <2> QED
    BY <1>1, <1>2, <2>2, <2>3, SettlingKeepsInvariant
<1> QED
  BY <1>3, <1>4

\* The consumer stops: a live layer that it had is gone.
LEMMA StopKeeps ==
    ASSUME IInv, ~ConsumerActive',
           UNCHANGED <<streams, preferred, timeline, failed>>,
           \/ UpdateTargetLayers(NoLayers)
           \/ ~IsActive /\ UNCHANGED chosen
    PROVE  IInv'
<1>1. /\ StreamsTypeOK /\ LayersTypeOK /\ target \in AnyLayers /\ preferred \in Spatial \X Temporal
      /\ Scored(streams) /\ (target # NoLayers => Alive(streams))
  BY LayersAreLive
<1>2. StreamsTypeOK' /\ StreamsMatch' /\ ReportsKept
  BY <1>1 DEF StreamsTypeOK, IInv, StreamsMatch, ReportsKept, HasReport
<1>3. Settles(streams', NoLayers)
  <2>1. CASE UpdateTargetLayers(NoLayers)
    BY <2>1 DEF Settles, LiveLayers
  <2>2. CASE ~IsActive /\ UNCHANGED chosen
    <3>1. target = NoLayers
      BY <1>1, <2>2 DEF IsActive, IInv, IdleHasNoLayers
    <3> QED
      BY <2>2, <3>1 DEF Settles, LiveLayers
  <2> QED
    BY <2>1, <2>2
<1> QED
  BY <1>1, <1>2, <1>3, SettlingKeepsInvariant DEF timeline

\* The preferred layers.
LEMMA SetPreferredLayersKeeps ==
    ASSUME IInv, NEW pref \in Preferable, SetPreferredLayers(pref)
    PROVE  IInv'
<1>1. /\ preferred' = pref /\ streams' = streams /\ ConsumerActive' = ConsumerActive
      /\ externallyManagedBitrate' = externallyManagedBitrate
      /\ UNCHANGED <<tsOffset, tsExtraOffsets, tsExtraOffsetPacketCount, started, maxPacketTs, failed>>
      /\ syncRequired' = syncRequired
  BY DEF SetPreferredLayers, status, timeline, ConsumerActive
<1>2. /\ StreamsTypeOK /\ LayersTypeOK /\ target \in AnyLayers /\ pref \in Spatial \X Temporal
      /\ Scored(streams) /\ (target # NoLayers => Alive(streams))
      /\ target \in LiveLayers(streams, tsReferenceSpatialLayer)
  BY LayersAreLive, ConsumerAssumption
<1>3. StreamsTypeOK' /\ StreamsMatch' /\ ReportsKept
  BY <1>1, <1>2 DEF StreamsTypeOK, IInv, StreamsMatch, ReportsKept, HasReport
<1>4. CASE IsActive
  <2>1. MayChangeLayers(streams, pref, TRUE)
    BY <1>4 DEF SetPreferredLayers
  <2>2. PICK pair : /\ Settles(streams, pair)
                    /\ ~externallyManagedBitrate =>
                         pair = RecalculateTargetLayers(streams, pref, tsReferenceSpatialLayer)
    BY <1>2, <2>1, ChangeSettles
  <2> QED
    BY <1>1, <1>2, <1>3, <1>4, <2>2, SettlingKeepsInvariant DEF IsActive
<1>5. CASE ~IsActive
  <2>1. UNCHANGED chosen
    BY <1>5 DEF SetPreferredLayers, KeepLayers
  <2>2. target = NoLayers
    BY <1>2, <1>5 DEF IsActive, IInv, IdleHasNoLayers
  <2>3. Settles(streams', target)
    BY <1>1, <1>2, <2>1 DEF Settles
  <2>4. ConsumerActive =>
          target = RecalculateTargetLayers(streams, pref, tsReferenceSpatialLayer)
    BY <1>2, <1>5, <2>2, DeadHaveNoLayers DEF IsActive
  <2> QED
    BY <1>1, <1>2, <1>3, <2>2, <2>3, <2>4, SettlingKeepsInvariant
<1> QED
  BY <1>4, <1>5

\* The bitrate: who manages it, how much there is, the score of what is sent.
LEMMA BitrateKeeps ==
    ASSUME IInv, SetExternallyManagedBitrate \/ AvailableBitrate \/ OnRtpStreamScore
    PROVE  IInv'
<1>1. /\ preferred' = preferred /\ streams' = streams /\ ConsumerActive' = ConsumerActive
      /\ UNCHANGED <<tsOffset, tsExtraOffsets, tsExtraOffsetPacketCount, started, maxPacketTs, failed>>
      /\ syncRequired' = syncRequired
  <2>1. UNCHANGED <<streams, preferred, status, timeline, failed>>
    <3>1. CASE SetExternallyManagedBitrate
      BY <3>1 DEF SetExternallyManagedBitrate
    <3>2. CASE AvailableBitrate
      BY <3>2 DEF AvailableBitrate
    <3>3. CASE OnRtpStreamScore
      BY <3>3 DEF OnRtpStreamScore
    <3> QED
      BY <3>1, <3>2, <3>3
  <2> QED
    BY <2>1 DEF status, timeline, ConsumerActive
<1>2. /\ StreamsTypeOK /\ LayersTypeOK /\ target \in AnyLayers /\ preferred \in Spatial \X Temporal
      /\ Scored(streams) /\ target \in LiveLayers(streams, tsReferenceSpatialLayer)
  BY LayersAreLive
<1>3. StreamsTypeOK' /\ StreamsMatch' /\ ReportsKept
  BY <1>1, <1>2 DEF StreamsTypeOK, IInv, StreamsMatch, ReportsKept, HasReport
<1>4. CASE SetExternallyManagedBitrate
  <2>1. UNCHANGED chosen /\ externallyManagedBitrate' = TRUE
    BY <1>4 DEF SetExternallyManagedBitrate
  <2>2. Settles(streams', target)
    BY <1>1, <1>2, <2>1 DEF Settles
  <2>3. ~ConsumerActive => target = NoLayers
    BY DEF IInv, IdleHasNoLayers
  <2> QED
    BY <1>1, <1>2, <1>3, <2>1, <2>2, <2>3, SettlingKeepsInvariant
<1>5. CASE AvailableBitrate
  <2>1. /\ externallyManagedBitrate /\ externallyManagedBitrate' = externallyManagedBitrate
        /\ ConsumerActive
        /\ DistributeAvailableOutgoingBitrate(streams, preferred)
    BY <1>5 DEF AvailableBitrate
  <2>2. PICK pair : Settles(streams, pair)
    BY <1>2, <2>1, DistributionSettles
  <2> QED
    BY <1>1, <1>2, <1>3, <2>1, <2>2, SettlingKeepsInvariant
<1>6. CASE OnRtpStreamScore
  <2>1. /\ ConsumerActive /\ externallyManagedBitrate' = externallyManagedBitrate
        /\ MayChangeLayers(streams, preferred, FALSE)
    BY <1>6 DEF OnRtpStreamScore, IsActive
  <2>2. PICK pair : /\ Settles(streams, pair)
                    /\ ~externallyManagedBitrate =>
                         pair = RecalculateTargetLayers(streams, preferred, tsReferenceSpatialLayer)
    BY <1>2, <2>1, ChangeSettles
  <2> QED
    BY <1>1, <1>2, <1>3, <2>1, <2>2, SettlingKeepsInvariant
<1> QED
  BY <1>4, <1>5, <1>6

\* Key frames that are asked for, and those that are not forwarded.
LEMMA AskedKeeps ==
    ASSUME IInv, asked' \subseteq Spatial,
           UNCHANGED <<streams, status, externallyManagedBitrate, preferred, target,
                       currentSpatialLayer, tsReferenceSpatialLayer, context, last,
                       timeline, unheard, failed>>
    PROVE  IInv'
<1>1. ConsumerActive' = ConsumerActive
  BY DEF status, ConsumerActive
<1>2. TypeOK' /\ OffsetsAreInts' /\ OffsetIsSkew'
  BY DEF IInv, TypeOK, OffsetsAreInts, OffsetIsSkew, timeline
<1>3. StreamsMatch' /\ LayersMatch'
  BY DEF IInv, StreamsMatch, LayersMatch, HasReport
<1>4. TargetIsLive' /\ IdleHasNoLayers' /\ TargetIsBest'
  BY <1>1 DEF IInv, TargetIsLive, IdleHasNoLayers, TargetIsBest
<1> QED
  BY <1>2, <1>3, <1>4 DEF IInv

\* Asking for key frames and losing them.
LEMMA KeyFrameRequestsKeep ==
    ASSUME IInv, RequestKeyFrames \/ ReceiveKeyFrameRequest \/ \E s \in Spatial : LostKeyFrame(s)
    PROVE  IInv'
<1>1. /\ asked \subseteq Spatial /\ currentSpatialLayer \in Spatial \cup {None}
      /\ target[1] \in Spatial \cup {None}
  BY DEF IInv, TypeOK, AnyLayers, NoLayers
<1>2. asked' \subseteq Spatial
  <2>1. CASE RequestKeyFrames
    <3>1. asked' = asked \cup ({target[1], currentSpatialLayer} \ {None})
      BY <2>1 DEF RequestKeyFrames, KeyFrameAsked
    <3> QED
      BY <1>1, <3>1
  <2>2. CASE ReceiveKeyFrameRequest
    <3>1. asked' = asked \cup ({currentSpatialLayer} \ {None})
      BY <2>2 DEF ReceiveKeyFrameRequest, KeyFrameAsked
    <3> QED
      BY <1>1, <3>1
  <2>3. CASE \E s \in Spatial : LostKeyFrame(s)
    BY <1>1, <2>3 DEF LostKeyFrame
  <2> QED
    BY <2>1, <2>2, <2>3
<1>3. UNCHANGED <<streams, status, externallyManagedBitrate, preferred, target,
                  currentSpatialLayer, tsReferenceSpatialLayer, context, last,
                  timeline, unheard, failed>>
  BY DEF RequestKeyFrames, ReceiveKeyFrameRequest, KeyFrameAsked, LostKeyFrame
<1> QED
  BY <1>2, <1>3, AskedKeeps
-----------------------------------------------------------------------------
(* The packets.                                                              *)

\* The greater of two numbers.
LEMMA MaxOfTwo ==
    ASSUME NEW a \in Int, NEW b \in Int
    PROVE  Max({a, b}) = IF a >= b THEN a ELSE b
<1> DEFINE m == IF a >= b THEN a ELSE b
<1>1. m \in {a, b} /\ \A y \in {a, b} : m >= y
  OBVIOUS
<1>2. \A x \in {a, b} : (\A y \in {a, b} : x >= y) => x = m
  OBVIOUS
<1> HIDE DEF m
<1>3. Max({a, b}) = m
  BY <1>1, <1>2 DEF Max
<1> QED
  BY <1>3 DEF m

\* The smaller of two numbers.
LEMMA MinOfTwo ==
    ASSUME NEW a \in Int, NEW b \in Int
    PROVE  Min({a, b}) = IF a <= b THEN a ELSE b
<1> DEFINE m == IF a <= b THEN a ELSE b
<1>1. m \in {a, b} /\ \A x \in {a, b} : m <= x
  OBVIOUS
<1>2. \A x \in {a, b} : (\A z \in {a, b} : x <= z) => x = m
  OBVIOUS
<1> HIDE DEF m
<1>3. Min({a, b}) = m
  BY <1>1, <1>2 DEF Min
<1> QED
  BY <1>3 DEF m

\* Quotient and remainder of a timestamp.
LEMMA TsDivision ==
    ASSUME NEW n \in Int
    PROVE  /\ n \div TsModulus \in Int /\ Ts!Wrap(n) \in Int /\ Ts!Wrap(n) \in Ts!Seqs
           /\ n = TsModulus * (n \div TsModulus) + Ts!Wrap(n)
BY ConsumerAssumption DEF Ts!Wrap, Ts!Seqs

\* A number with the remainder r is wrapped to r.
LEMMA TsWrapIs ==
    ASSUME NEW n \in Int, NEW q \in Int, NEW r \in Ts!Seqs, n = TsModulus * q + r
    PROVE  Ts!Wrap(n) = r
<1> DEFINE N == TsModulus
           p == n \div TsModulus
           w == Ts!Wrap(n)
<1>1. p \in Int /\ w \in 0 .. N - 1 /\ n = N * p + w
  BY TsDivision DEF Ts!Seqs
<1>2. N \in Nat /\ N > 3 /\ r \in 0 .. N - 1
  BY ConsumerAssumption DEF Ts!Seqs
<1> HIDE DEF N, p, w
<1>3. N * q + r = N * p + w
  BY <1>1 DEF N
<1>4. ASSUME NEW a \in Int, NEW b \in Int, a > b PROVE N * a >= N * b + N
  <2>1. a - b >= 1 /\ a - b \in Int
    BY <1>4
  <2>2. N * (a - b) >= N
    BY <1>2, <2>1
  <2>3. N * (a - b) = N * a - N * b
    BY <1>2
  <2> QED
    BY <1>2, <2>2, <2>3
<1>5. ~(q > p) /\ ~(p > q)
  BY <1>1, <1>2, <1>3, <1>4
<1>6. p = q
  BY <1>1, <1>5
<1>7. w = r
  BY <1>1, <1>2, <1>3, <1>6
<1> QED
  BY <1>7 DEF w

\* Wrapping a part of a sum first changes nothing.
LEMMA TsWrapSum ==
    ASSUME NEW a \in Int, NEW b \in Int
    PROVE  /\ Ts!Wrap(Ts!Wrap(a) + b) = Ts!Wrap(a + b)
           /\ Ts!Wrap(b + Ts!Wrap(a)) = Ts!Wrap(a + b)
<1> DEFINE N == TsModulus
           p == a \div TsModulus
           w == Ts!Wrap(a)
           q == (a + b) \div TsModulus
           r == Ts!Wrap(a + b)
<1>1. p \in Int /\ w \in Int /\ a = N * p + w
  BY TsDivision
<1>2. q \in Int /\ r \in Ts!Seqs /\ a + b = N * q + r
  BY TsDivision
<1>3. N \in Int /\ r \in Int
  BY <1>2, ConsumerAssumption DEF Ts!Seqs
<1> HIDE DEF p, w, q, r
<1>4. w + b = N * (q - p) + r
  BY <1>1, <1>2, <1>3
<1>5. w + b \in Int /\ q - p \in Int
  BY <1>1, <1>2
<1> HIDE DEF N
<1>6. Ts!Wrap(w + b) = r
  BY <1>2, <1>4, <1>5, TsWrapIs DEF N
<1>7. b + w = w + b
  BY <1>1
<1> QED
  BY <1>6, <1>7 DEF w, r

\* A packet that is forwarded is of a layer that the assertions on the reports and on the
\* target of the codec let pass; one that starts a layer is a key frame.
LEMMA ForwardedIsReady ==
    ASSUME IInv, NEW s \in Spatial, NEW key \in BOOLEAN, Forwarded(s, key)
    PROVE  /\ tsReferenceSpatialLayer \in Spatial
           /\ ReportsThere(s)
           /\ s # currentSpatialLayer => key /\ target[2] \in Temporal /\ target[2] # None
           /\ s = currentSpatialLayer => context.target # None
           /\ ConsumerActive /\ target # NoLayers
<1>1. /\ target # NoLayers /\ ConsumerActive
      /\ \/ s = target[1] /\ currentSpatialLayer # s /\ key
         \/ s = currentSpatialLayer
  BY DEF Forwarded, IsActive, Switches
<1>2. target \in Spatial \X Temporal /\ None \notin Temporal /\ None \notin Spatial
  BY <1>1, LayersFacts DEF IInv, TypeOK, AnyLayers
<1>3. tsReferenceSpatialLayer \in Spatial /\ tsReferenceSpatialLayer # None
  BY <1>1 DEF IInv, TypeOK, LayersMatch
<1>4. Usable(streams, tsReferenceSpatialLayer, target[1])
  BY <1>1 DEF IInv, TargetIsLive
<1>5. CASE s = target[1] /\ currentSpatialLayer # s /\ key
  <2>1. ReportsThere(s)
    BY <1>3, <1>4, <1>5 DEF Usable, CanSwitchToSpatialLayer, ReportsThere
  <2> QED
    BY <1>1, <1>2, <1>3, <1>5, <2>1
<1>6. CASE s = currentSpatialLayer
  <2>1. ReportsThere(s) /\ context.target # None
    BY <1>2, <1>6 DEF IInv, LayersMatch, ReportsThere
  <2> QED
    BY <1>1, <1>3, <1>6, <2>1
<1> QED
  BY <1>1, <1>5, <1>6

\* The clock of a stream, as its Sender Reports tell it.
Clock(s) == Base[s] + Skew[s]

\* The offset of a stream to the reference is the difference of their clocks.
LEMMA NewOffsetIsSkew ==
    ASSUME IInv, NEW s \in Spatial, tsReferenceSpatialLayer \in Spatial, ReportsThere(s)
    PROVE  NewOffset(s) = Ts!Wrap(Clock(s) - Clock(tsReferenceSpatialLayer))
<1>1. \A q \in Spatial : Clock(q) \in Int
  BY ConsumerAssumption DEF Clock
<1>2. CASE s = tsReferenceSpatialLayer
  <2>1. Clock(s) - Clock(tsReferenceSpatialLayer) = 0
    BY <1>1, <1>2
  <2>2. Ts!Wrap(0) = 0
    <3>1. 0 = TsModulus * 0 + 0 /\ 0 \in Ts!Seqs
      BY ConsumerAssumption DEF Ts!Seqs
    <3> QED
      BY <3>1, TsWrapIs
  <2> QED
    BY <1>2, <2>1, <2>2 DEF NewOffset
<1>3. CASE s # tsReferenceSpatialLayer
  <2>1. streams[s].report = Clock(s) /\ streams[tsReferenceSpatialLayer].report = Clock(tsReferenceSpatialLayer)
    BY <1>3 DEF ReportsThere, IInv, StreamsMatch, Clock
  <2> QED
    BY <1>3, <2>1 DEF NewOffset
<1> QED
  BY <1>2, <1>3

\* The extra offsets of a sync packet and of each packet are numbers.
LEMMA ExtraOffsetsAreInts ==
    ASSUME NEW ts, NEW out \in Int, maxPacketTs \in Int,
           NEW extras, \A t \in DOMAIN extras : extras[t] \in Int
    PROVE  /\ \A t \in DOMAIN SyncExtraOffsets(ts, out) : SyncExtraOffsets(ts, out)[t] \in Int
           /\ \A t \in DOMAIN ExtraOffsets(extras, ts, out) : ExtraOffsets(extras, ts, out)[t] \in Int
           /\ ExtraOffset(extras, ts) \in Int
<1>1. ToNext(out) \in Int
  <2>1. maxPacketTs - out + 1 \in Int
    OBVIOUS
  <2> QED
    BY <2>1, TsDivision DEF ToNext
<1>2. \A t \in DOMAIN SyncExtraOffsets(ts, out) : SyncExtraOffsets(ts, out)[t] \in Int
  <2>1. CASE out <= maxPacketTs
    BY <1>1, <2>1 DEF SyncExtraOffsets
  <2>2. CASE ~(out <= maxPacketTs)
    BY <2>2 DEF SyncExtraOffsets
  <2> QED
    BY <2>1, <2>2
<1>3. ASSUME NEW t \in DOMAIN ExtraOffsets(extras, ts, out)
      PROVE  ExtraOffsets(extras, ts, out)[t] \in Int
  BY <1>1, <1>3 DEF ExtraOffsets
<1>4. ExtraOffset(extras, ts) \in Int
  BY DEF ExtraOffset
<1> QED
  BY <1>2, <1>3, <1>4

\* What a packet does, with the names of SendRtpPacket().
PacketSent(s, ts, key, tl, y, late, offset, out, before, count, ctx, extras, extra, counted) ==
    LET sync == s # currentSpatialLayer \/ syncRequired IN
    /\ Forwarded(s, key)
    /\ offset = IF sync THEN NewOffset(s) ELSE tsOffset
    /\ out = Ts!Wrap(ts - offset)
    /\ before = IF sync THEN SyncExtraOffsets(ts, out) ELSE tsExtraOffsets
    /\ count = IF sync THEN 0 ELSE tsExtraOffsetPacketCount
    /\ ctx = IF s # currentSpatialLayer THEN [target |-> target[2], current |-> tl] ELSE context
    /\ extras = ExtraOffsets(before, ts, out)
    /\ extra = ExtraOffset(extras, ts)
    /\ counted = count + (IF extra = 0 THEN 0 ELSE 1)
    /\ asked' = IF key THEN asked \ {s} ELSE asked
    /\ currentSpatialLayer' = s
    /\ failed' = (failed \/ (sync /\ ~ReportsThere(s)) \/ ctx.target = None)
    /\ syncRequired' = FALSE /\ tsOffset' = offset
    /\ IF Passes(ctx, tl, y, late)
       THEN /\ context' = WithTemporal(ctx, tl)
            /\ IF counted > CleanAfter
               THEN tsExtraOffsets' = <<>> /\ tsExtraOffsetPacketCount' = 0
               ELSE tsExtraOffsets' = extras /\ tsExtraOffsetPacketCount' = counted
            /\ ReceivePacket(Ts!Wrap(out + extra))
            /\ last' = IF last.layer = s THEN last ELSE [layer |-> s, key |-> key]
       ELSE /\ context' = ctx
            /\ tsExtraOffsets' = before /\ tsExtraOffsetPacketCount' = count
            /\ UNCHANGED <<started, maxPacketTs, last>>
    /\ UNCHANGED <<streams, status, externallyManagedBitrate, preferred,
                   target, tsReferenceSpatialLayer, unheard>>

\* SendRtpPacket() gives the names their values.
LEMMA PacketUnfolds ==
    ASSUME NEW s, NEW ts, NEW key, NEW tl, NEW y, NEW late, SendRtpPacket(s, ts, key, tl, y, late)
    PROVE  \E offset, out, before, count, ctx, extras, extra, counted :
             PacketSent(s, ts, key, tl, y, late, offset, out, before, count, ctx, extras, extra, counted)
<1> DEFINE switches == s # currentSpatialLayer
           sync == switches \/ syncRequired
           offset == IF sync THEN NewOffset(s) ELSE tsOffset
           out == Ts!Wrap(ts - offset)
           before == IF sync THEN SyncExtraOffsets(ts, out) ELSE tsExtraOffsets
           count == IF sync THEN 0 ELSE tsExtraOffsetPacketCount
           ctx == IF switches THEN [target |-> target[2], current |-> tl] ELSE context
           extras == ExtraOffsets(before, ts, out)
           extra == ExtraOffset(extras, ts)
           counted == count + (IF extra = 0 THEN 0 ELSE 1)
<1>1. PacketSent(s, ts, key, tl, y, late, offset, out, before, count, ctx, extras, extra, counted)
  BY DEF SendRtpPacket, PacketSent
<1> HIDE DEF offset, out, before, count, ctx, extras, extra, counted
<1> QED
  BY <1>1

\* The values that a packet is sent with, and what becomes of the offsets.
LEMMA PacketValues ==
    ASSUME IInv, NEW s \in Spatial, NEW ts \in Int, NEW key \in BOOLEAN, NEW tl \in Temporal,
           NEW y, NEW late, NEW offset, NEW out, NEW before, NEW count, NEW ctx,
           NEW extras, NEW extra, NEW counted,
           PacketSent(s, ts, key, tl, y, late, offset, out, before, count, ctx, extras, extra, counted)
    PROVE  /\ offset = Ts!Wrap(Clock(s) - Clock(tsReferenceSpatialLayer))
           /\ offset \in Int /\ out \in Int /\ out \in Ts!Seqs /\ extra \in Int
           /\ maxPacketTs \in Ts!Seqs /\ maxPacketTs \in Int
           /\ ctx \in [target : Temporal, current : Temporal \cup {None}]
           /\ count \in 0 .. CleanAfter
           /\ counted = count \/ counted = count + 1
           /\ \A t \in DOMAIN before : before[t] \in Int
           /\ \A t \in DOMAIN extras : extras[t] \in Int
<1> USE DEF PacketSent
<1>1. /\ tsReferenceSpatialLayer \in Spatial
      /\ ReportsThere(s)
      /\ s # currentSpatialLayer => key /\ target[2] \in Temporal /\ target[2] # None
      /\ s = currentSpatialLayer => context.target # None
  BY ForwardedIsReady
<1>2. maxPacketTs \in Ts!Seqs /\ tsExtraOffsetPacketCount \in 0 .. CleanAfter /\ CleanAfter \in Nat
  BY ConsumerAssumption DEF IInv, TypeOK
<1>3. maxPacketTs \in Int
  BY <1>2, ConsumerAssumption DEF Ts!Seqs
<1>4. offset = Ts!Wrap(Clock(s) - Clock(tsReferenceSpatialLayer))
  <2>1. CASE s # currentSpatialLayer \/ syncRequired
    BY <1>1, <2>1, NewOffsetIsSkew
  <2>2. CASE ~(s # currentSpatialLayer \/ syncRequired)
    <3>1. offset = tsOffset /\ currentSpatialLayer = s /\ s # None
      BY <2>2, LayersFacts
    <3> QED
      BY <2>2, <3>1 DEF IInv, OffsetIsSkew, Clock
  <2> QED
    BY <2>1, <2>2
<1>5. offset \in Int
  <2>1. Clock(s) - Clock(tsReferenceSpatialLayer) \in Int
    BY <1>1, ConsumerAssumption DEF Clock
  <2> QED
    BY <1>4, <2>1, TsDivision
<1>6. out \in Int /\ out \in Ts!Seqs
  <2>1. ts - offset \in Int
    BY <1>5
  <2> QED
    BY <2>1, TsDivision
<1>7. count \in 0 .. CleanAfter
  BY <1>2
<1>8. ctx \in [target : Temporal, current : Temporal \cup {None}]
  BY <1>1 DEF IInv, TypeOK
<1>9. \A t \in DOMAIN before : before[t] \in Int
  <2>1. \A t \in DOMAIN tsExtraOffsets : tsExtraOffsets[t] \in Int
    BY DEF IInv, OffsetsAreInts
  <2>2. \A t \in DOMAIN SyncExtraOffsets(ts, out) : SyncExtraOffsets(ts, out)[t] \in Int
    BY <1>3, <1>6, <2>1, ExtraOffsetsAreInts
  <2>3. before = SyncExtraOffsets(ts, out) \/ before = tsExtraOffsets
    OBVIOUS
  <2> QED
    BY <2>1, <2>2, <2>3
<1>10. \A t \in DOMAIN extras : extras[t] \in Int
  BY <1>3, <1>6, <1>9, ExtraOffsetsAreInts
<1>11. extra \in Int
  BY <1>3, <1>6, <1>10, ExtraOffsetsAreInts
<1>12. counted = count \/ counted = count + 1
  <2>1. counted = count + (IF extra = 0 THEN 0 ELSE 1)
    OBVIOUS
  <2>2. count \in Int
    BY <1>7
  <2> QED
    BY <2>1, <2>2
<1> QED
  BY <1>2, <1>3, <1>4, <1>5, <1>6, <1>7, <1>8, <1>9, <1>10, <1>11, <1>12

\* A packet keeps the invariant.
LEMMA PacketKeeps ==
    ASSUME IInv, NEW s \in Spatial, NEW ts \in Int, NEW key \in BOOLEAN, NEW tl \in Temporal,
           NEW y, NEW late, (tl = 0 /\ y) \/ ~key, SendRtpPacket(s, ts, key, tl, y, late)
    PROVE  IInv'
<1>1. PICK offset, out, before, count, ctx, extras, extra, counted :
        PacketSent(s, ts, key, tl, y, late, offset, out, before, count, ctx, extras, extra, counted)
  BY PacketUnfolds
<1>2. /\ offset = Ts!Wrap(Clock(s) - Clock(tsReferenceSpatialLayer))
      /\ offset \in Int /\ out \in Int /\ out \in Ts!Seqs /\ extra \in Int
      /\ maxPacketTs \in Ts!Seqs /\ maxPacketTs \in Int
      /\ ctx \in [target : Temporal, current : Temporal \cup {None}]
      /\ count \in 0 .. CleanAfter
      /\ counted = count \/ counted = count + 1
      /\ \A t \in DOMAIN before : before[t] \in Int
      /\ \A t \in DOMAIN extras : extras[t] \in Int
  BY <1>1, PacketValues
<1>3. /\ tsReferenceSpatialLayer \in Spatial
      /\ ReportsThere(s)
      /\ s # currentSpatialLayer => key /\ target[2] \in Temporal /\ target[2] # None
      /\ s = currentSpatialLayer => context.target # None
      /\ ConsumerActive /\ target # NoLayers
  BY <1>1, ForwardedIsReady DEF PacketSent
<1>4. /\ streams' = streams /\ preferred' = preferred /\ target' = target
      /\ tsReferenceSpatialLayer' = tsReferenceSpatialLayer /\ unheard' = unheard
      /\ externallyManagedBitrate' = externallyManagedBitrate
      /\ ConsumerActive' = ConsumerActive
      /\ currentSpatialLayer' = s /\ tsOffset' = offset
      /\ asked' \subseteq asked
  BY <1>1 DEF PacketSent, status, ConsumerActive
<1>5. ~failed'
  <2>1. ctx.target # None
    BY <1>2, LayersFacts
  <2> QED
    BY <1>1, <1>3, <2>1 DEF PacketSent, IInv, TypeOK
<1>6. /\ context' \in [target : Temporal, current : Temporal \cup {None}]
      /\ tsExtraOffsetPacketCount' \in 0 .. CleanAfter
      /\ maxPacketTs' \in Ts!Seqs /\ started' \in BOOLEAN
      /\ \A t \in DOMAIN tsExtraOffsets' : tsExtraOffsets'[t] \in Int
  <2>1. CASE Passes(ctx, tl, y, late)
    <3>1. context' \in [target : Temporal, current : Temporal \cup {None}]
      <4>1. context' = [ctx EXCEPT !.current = Min({Max({ctx.current, tl}), ctx.target})]
        BY <1>1, <2>1 DEF PacketSent, WithTemporal
      <4>2. tl \in Int /\ ctx.current \in Int /\ ctx.target \in Int
        BY <1>2, LayersFacts
      <4>3. Max({ctx.current, tl}) \in Temporal \cup {None} /\ Max({ctx.current, tl}) \in Int
        BY <1>2, <4>2, MaxOfTwo
      <4>4. Min({Max({ctx.current, tl}), ctx.target}) \in Temporal \cup {None}
        BY <1>2, <4>2, <4>3, MinOfTwo
      <4> QED
        BY <1>2, <4>1, <4>4
    <3>2. maxPacketTs' \in Ts!Seqs /\ started' \in BOOLEAN
      <4>1. ReceivePacket(Ts!Wrap(out + extra))
        BY <1>1, <2>1 DEF PacketSent
      <4>2. out + extra \in Int
        BY <1>2
      <4> QED
        BY <1>2, <4>1, <4>2, TsDivision DEF ReceivePacket
    <3>3. CASE counted > CleanAfter
      <4>1. tsExtraOffsets' = <<>> /\ tsExtraOffsetPacketCount' = 0
        BY <1>1, <2>1, <3>3 DEF PacketSent
      <4> QED
        BY <3>1, <3>2, <4>1, ConsumerAssumption
    <3>4. CASE ~(counted > CleanAfter)
      <4>1. tsExtraOffsets' = extras /\ tsExtraOffsetPacketCount' = counted
        BY <1>1, <2>1, <3>4 DEF PacketSent
      <4>2. counted \in 0 .. CleanAfter
        BY <1>2, <3>4, ConsumerAssumption
      <4> QED
        BY <1>2, <3>1, <3>2, <4>1, <4>2
    <3> QED
      BY <3>3, <3>4
  <2>2. CASE ~Passes(ctx, tl, y, late)
    <3>1. /\ context' = ctx /\ tsExtraOffsets' = before /\ tsExtraOffsetPacketCount' = count
          /\ maxPacketTs' = maxPacketTs /\ started' = started
      BY <1>1, <2>2 DEF PacketSent
    <3> QED
      BY <1>2, <3>1 DEF IInv, TypeOK
  <2> QED
    BY <2>1, <2>2
<1>7. TypeOK'
  <2>1. /\ StreamsTypeOK /\ preferred \in Spatial \X Temporal /\ LayersTypeOK
    BY LayersAreLive
  <2> QED
    BY <1>3, <1>4, <1>5, <1>6, <2>1 DEF TypeOK, StreamsTypeOK, LayersTypeOK
<1>8. StreamsMatch' /\ OffsetsAreInts' /\ TargetIsLive' /\ IdleHasNoLayers' /\ TargetIsBest'
  BY <1>2, <1>3, <1>4, <1>6
  DEF IInv, StreamsMatch, HasReport, OffsetsAreInts, TargetIsLive, IdleHasNoLayers, TargetIsBest
<1>9. OffsetIsSkew'
  BY <1>2, <1>4 DEF OffsetIsSkew, Clock
<1>10. last'.layer = s
  <2>1. CASE Passes(ctx, tl, y, late)
    <3>1. last' = IF last.layer = s THEN last ELSE [layer |-> s, key |-> key]
      BY <1>1, <2>1 DEF PacketSent
    <3> QED
      BY <3>1
  <2>2. CASE ~Passes(ctx, tl, y, late)
    <3>1. s = currentSpatialLayer
      <4>1. SUFFICES ASSUME s # currentSpatialLayer PROVE FALSE
        OBVIOUS
      <4>2. ctx = [target |-> target[2], current |-> tl] /\ tl = 0 /\ target[2] \in Temporal
        BY <1>1, <1>3, <4>1 DEF PacketSent
      <4>3. target[2] \in Int /\ target[2] >= 0
        BY <4>2, LayersFacts
      <4> QED
        BY <2>2, <4>2, <4>3 DEF Passes
    <3>2. last' = last
      BY <1>1, <2>2 DEF PacketSent
    <3> QED
      BY <3>1, <3>2 DEF IInv, LayersMatch
  <2> QED
    BY <2>1, <2>2
<1>11. LayersMatch'
  <2>1. context'.target # None
    BY <1>6, LayersFacts
  <2>2. s = tsReferenceSpatialLayer \/ (HasReport(streams, s) /\ HasReport(streams, tsReferenceSpatialLayer))
    BY <1>3 DEF ReportsThere
  <2>3. tsReferenceSpatialLayer # None
    BY <1>3, LayersFacts
  <2> QED
    BY <1>3, <1>4, <1>10, <2>1, <2>2, <2>3 DEF LayersMatch, HasReport
<1> QED
  BY <1>7, <1>8, <1>9, <1>11 DEF IInv

\* The first packet of another layer, or after a break, is a key frame.
LEMMA SwitchIsKeyFrame ==
    ASSUME IInv, NEW s \in Spatial, NEW ts, NEW key \in BOOLEAN, NEW tl \in Temporal,
           NEW y, NEW late, SendRtpPacket(s, ts, key, tl, y, late), last'.layer # last.layer
    PROVE  last'.key /\ s # currentSpatialLayer /\ last'.layer = s
<1>1. PICK offset, out, before, count, ctx, extras, extra, counted :
        PacketSent(s, ts, key, tl, y, late, offset, out, before, count, ctx, extras, extra, counted)
  BY PacketUnfolds
<1>2. last.layer # s /\ last' = [layer |-> s, key |-> key]
  BY <1>1 DEF PacketSent
<1>3. s # currentSpatialLayer
  BY <1>2 DEF IInv, LayersMatch
<1>4. key
  BY <1>1, <1>3, ForwardedIsReady DEF PacketSent
<1> QED
  BY <1>2, <1>3, <1>4

\* The timestamp after one is higher than it, also where it wraps.
LEMMA NextIsHigher ==
    ASSUME NEW ts \in Ts!Seqs
    PROVE  Ts!SeqHigherThan(Ts!Wrap(ts + 1), ts)
<1>1. TsModulus \in Int /\ TsModulus > 3 /\ ts \in Int /\ 0 <= ts /\ ts < TsModulus
  BY ConsumerAssumption DEF Ts!Seqs
<1>2. CASE ts < TsModulus - 1
  <2>1. ts + 1 = TsModulus * 0 + (ts + 1) /\ ts + 1 \in Ts!Seqs /\ ts + 1 \in Int
    BY <1>1, <1>2 DEF Ts!Seqs
  <2>2. Ts!Wrap(ts + 1) = ts + 1
    BY <2>1, TsWrapIs
  <2> QED
    BY <1>1, <2>2 DEF Ts!SeqHigherThan, Ts!MaxValue
<1>3. CASE ts = TsModulus - 1
  <2>1. ts + 1 = TsModulus * 1 + 0 /\ 0 \in Ts!Seqs /\ ts + 1 \in Int
    BY <1>1, <1>3 DEF Ts!Seqs
  <2>2. Ts!Wrap(ts + 1) = 0
    BY <2>1, TsWrapIs
  <2> QED
    BY <1>1, <1>3, <2>2 DEF Ts!SeqHigherThan, Ts!MaxValue
<1> QED
  BY <1>1, <1>2, <1>3

\* The key frame that starts a layer is later than all that was sent, unless its own
\* timestamp is across a wrap from it.
LEMMA SwitchIsLater ==
    ASSUME IInv, NEW s \in Spatial, NEW c \in 0 .. MaxTime, KeyFrameAt(s, c),
           s # currentSpatialLayer, last'.layer = s, last.layer # s, started, ~AcrossWrap(c)
    PROVE  Ts!SeqHigherThan(maxPacketTs', maxPacketTs)
<1> DEFINE ts == Ts!Wrap(Base[s] + c)
<1>1. Base[s] \in Int /\ c \in Int /\ Base[s] + c \in Int /\ 0 \in Temporal
  BY ConsumerAssumption, LayersFacts
<1>2. ts \in Int
  BY <1>1, TsDivision
<1>3. SendRtpPacket(s, ts, TRUE, 0, TRUE, FALSE)
  BY DEF KeyFrameAt
<1> HIDE DEF ts
<1>4. PICK offset, out, before, count, ctx, extras, extra, counted :
        PacketSent(s, ts, TRUE, 0, TRUE, FALSE, offset, out, before, count, ctx, extras, extra, counted)
  BY <1>3, PacketUnfolds
<1>5. /\ offset \in Int /\ out \in Int /\ out \in Ts!Seqs
      /\ maxPacketTs \in Ts!Seqs /\ maxPacketTs \in Int
  BY <1>1, <1>2, <1>4, PacketValues
<1>6. /\ out = Ts!Wrap(ts - offset) /\ tsOffset' = offset
      /\ before = SyncExtraOffsets(ts, out)
      /\ extras = ExtraOffsets(before, ts, out) /\ extra = ExtraOffset(extras, ts)
      /\ ReceivePacket(Ts!Wrap(out + extra))
  BY <1>4 DEF PacketSent
<1>7. CASE out <= maxPacketTs
  <2>1. before = [t \in {ts} |-> ToNext(out)]
    BY <1>6, <1>7 DEF SyncExtraOffsets
  <2>2. extras = before
    BY <1>6, <2>1 DEF ExtraOffsets
  <2>3. extra = Ts!Wrap(maxPacketTs - out + 1)
    BY <1>6, <2>1, <2>2 DEF ExtraOffset, ToNext
  <2>4. Ts!Wrap(out + extra) = Ts!Wrap(maxPacketTs + 1)
    <3>1. maxPacketTs - out + 1 \in Int /\ (maxPacketTs - out + 1) + out = maxPacketTs + 1
      BY <1>5
    <3> QED
      BY <1>5, <2>3, <3>1, TsWrapSum
  <2>5. Ts!SeqHigherThan(Ts!Wrap(out + extra), maxPacketTs)
    BY <1>5, <2>4, NextIsHigher
  <2> QED
    BY <1>6, <2>5 DEF ReceivePacket
<1>8. CASE out > maxPacketTs
  <2>1. ~(out <= maxPacketTs)
    BY <1>5, <1>8
  <2>2. before = <<>>
    BY <1>6, <2>1 DEF SyncExtraOffsets
  <2>3. extras = <<>>
    BY <1>6, <2>2 DEF ExtraOffsets
  <2>4. extra = 0
    BY <1>6, <2>3 DEF ExtraOffset
  <2>5. Ts!Wrap(out + extra) = out
    <3>1. out + 0 = TsModulus * 0 + out /\ out + 0 \in Int
      BY <1>5, ConsumerAssumption
    <3> QED
      BY <1>5, <2>4, <3>1, TsWrapIs
  <2>6. out - maxPacketTs <= Ts!MaxValue \div 2
    <3>1. Ts!Wrap(Base[s] + c - offset) = out
      <4>1. 0 - offset \in Int
        BY <1>5
      <4>2. Ts!Wrap(ts + (0 - offset)) = Ts!Wrap((Base[s] + c) + (0 - offset))
        BY <1>1, <4>1, TsWrapSum DEF ts
      <4>3. ts + (0 - offset) = ts - offset
        BY <1>2, <1>5
      <4>4. (Base[s] + c) + (0 - offset) = Base[s] + c - offset
        BY <1>1, <1>5
      <4> QED
        BY <1>6, <4>2, <4>3, <4>4
    <3>2. ~(out - maxPacketTs > Ts!MaxValue \div 2)
      BY <1>6, <3>1 DEF AcrossWrap
    <3>3. Ts!MaxValue \div 2 \in Int
      BY ConsumerAssumption DEF Ts!MaxValue
    <3> QED
      BY <1>5, <3>2, <3>3
  <2>7. Ts!SeqHigherThan(out, maxPacketTs)
    BY <1>8, <2>6 DEF Ts!SeqHigherThan
  <2> QED
    BY <1>6, <2>5, <2>7 DEF ReceivePacket
<1> QED
  BY <1>5, <1>7, <1>8
-----------------------------------------------------------------------------
(* The specification.                                                        *)

\* The consumer starts in the invariant.
LEMMA InitInvariant ==
    ASSUME Init
    PROVE  IInv
<1>1. TypeOK
  <2>1. 0 \in Ts!Seqs
    BY ConsumerAssumption DEF Ts!Seqs
  <2>2. /\ maxPacketTs = 0 /\ started = FALSE /\ tsExtraOffsetPacketCount = 0
        /\ asked = {} /\ failed = FALSE
    BY DEF Init
  <2>3. tsExtraOffsetPacketCount \in 0 .. CleanAfter
    BY <2>2, ConsumerAssumption
  <2>4. streams \in [Spatial -> [seen : BOOLEAN, score : 0 .. 10, report : Nat]]
    BY DEF Init, Absent, NoReport
  <2>5. /\ preferred \in Spatial \X Temporal /\ target \in AnyLayers
        /\ currentSpatialLayer = None /\ tsReferenceSpatialLayer = None
        /\ context = [target |-> None, current |-> None]
    BY ConsumerAssumption DEF Init, AnyLayers
  <2> QED
    BY <2>1, <2>2, <2>3, <2>4, <2>5 DEF TypeOK
<1>2. StreamsMatch
  BY DEF Init, StreamsMatch, HasReport, Absent
<1>3. LayersMatch /\ OffsetsAreInts
  BY DEF Init, LayersMatch, OffsetsAreInts, NoPacket
<1>4. TargetIsLive /\ IdleHasNoLayers /\ TargetIsBest /\ OffsetIsSkew
  BY DEF Init, TargetIsLive, IdleHasNoLayers, TargetIsBest, OffsetIsSkew, ConsumerActive
<1> QED
  BY <1>1, <1>2, <1>3, <1>4 DEF IInv

\* A packet of a stream, and what its frame makes of it.
LEMMA FramesArePackets ==
    ASSUME NEW s \in Spatial, KeyFrame(s) \/ DeltaFrame(s)
    PROVE  \E ts \in Int, key \in BOOLEAN, tl \in Temporal, y \in BOOLEAN, late \in BOOLEAN :
             ((tl = 0 /\ y) \/ ~key) /\ SendRtpPacket(s, ts, key, tl, y, late)
<1>1. \A c \in 0 .. MaxTime : Base[s] + c \in Int
  BY ConsumerAssumption
<1>2. \A c \in 0 .. MaxTime : Ts!Wrap(Base[s] + c) \in Int
  BY <1>1, TsDivision
<1>3. CASE KeyFrame(s)
  <2>1. PICK c \in 0 .. MaxTime : SendRtpPacket(s, Ts!Wrap(Base[s] + c), TRUE, 0, TRUE, FALSE)
    BY <1>3 DEF KeyFrame, KeyFrameAt
  <2>2. 0 \in Temporal /\ Ts!Wrap(Base[s] + c) \in Int
    BY <1>2, LayersFacts
  <2> QED
    BY <2>1, <2>2
<1>4. CASE DeltaFrame(s)
  <2>1. PICK ts \in {Ts!Wrap(Base[s] + c) : c \in 0 .. MaxTime},
             tl \in Temporal, y \in BOOLEAN, late \in BOOLEAN :
          SendRtpPacket(s, ts, FALSE, tl, y, late)
    BY <1>4 DEF DeltaFrame
  <2>2. ts \in Int
    BY <1>2
  <2> QED
    BY <2>1, <2>2
<1> QED
  BY <1>3, <1>4

\* Every step keeps the invariant.
LEMMA NextInvariant ==
    ASSUME IInv, [Next]_vars
    PROVE  IInv'
<1>1. CASE \E s \in Spatial : ProducerNewRtpStream(s)
  BY <1>1, NewRtpStreamKeeps
<1>2. CASE \E s \in Spatial, score \in Scores : ProducerRtpStreamScore(s, score)
  BY <1>2, RtpStreamScoreKeeps
<1>3. CASE \E s \in Spatial : ProducerRtcpSenderReport(s)
  BY <1>3, SenderReportKeeps
<1>4. CASE \E s \in Spatial : KeyFrame(s) \/ DeltaFrame(s)
  BY <1>4, FramesArePackets, PacketKeeps
<1>5. CASE RequestKeyFrames \/ ReceiveKeyFrameRequest \/ \E s \in Spatial : LostKeyFrame(s)
  BY <1>5, KeyFrameRequestsKeep
<1>6. CASE TransportConnected
  <2>1. /\ ~ConsumerActive
        /\ UNCHANGED <<streams, externallyManagedBitrate, preferred, tsOffset, tsExtraOffsets,
                       tsExtraOffsetPacketCount, started, maxPacketTs, failed>>
        /\ syncRequired'
        /\ ConsumerActive' <=> ~paused /\ ~producerPaused
        /\ IF ~paused /\ ~producerPaused /\ Alive(streams)
           THEN MayChangeLayers(streams, preferred, FALSE) ELSE KeepLayers
    BY <1>6 DEF TransportConnected, ConsumerActive
  <2> QED
    BY <2>1, StartKeeps
<1>7. CASE Resume \/ ProducerResumed
  <2>1. ~ConsumerActive /\ UserOnResumed
    BY <1>7 DEF Resume, ProducerResumed, ConsumerActive
  <2>2. /\ UNCHANGED <<streams, externallyManagedBitrate, preferred, tsOffset, tsExtraOffsets,
                       tsExtraOffsetPacketCount, started, maxPacketTs, failed>>
        /\ ConsumerActive' <=> transportConnected /\ ~paused' /\ ~producerPaused'
    BY <2>1 DEF UserOnResumed, ConsumerActive
  <2>3. /\ ~syncRequired' => ~syncRequired
        /\ IF ConsumerActive' /\ Alive(streams)
           THEN MayChangeLayers(streams, preferred, FALSE) ELSE KeepLayers
    BY <2>1, <2>2 DEF UserOnResumed
  <2> QED
    BY <2>1, <2>2, <2>3, StartKeeps
<1>8. CASE TransportDisconnected
  <2>1. /\ ~ConsumerActive' /\ UpdateTargetLayers(NoLayers)
        /\ UNCHANGED <<streams, preferred, timeline, failed>>
    BY <1>8 DEF TransportDisconnected, ConsumerActive
  <2> QED
    BY <2>1, StopKeeps
<1>9. CASE Pause \/ ProducerPaused
  <2>1. ~ConsumerActive' /\ UserOnPaused
    BY <1>9 DEF Pause, ProducerPaused, ConsumerActive
  <2>2. /\ UNCHANGED <<streams, preferred, timeline, failed>>
        /\ UpdateTargetLayers(NoLayers) \/ (~IsActive /\ UNCHANGED chosen)
    BY <2>1 DEF UserOnPaused
  <2> QED
    BY <2>1, <2>2, StopKeeps
<1>10. CASE \E pair \in Preferable : SetPreferredLayers(pair)
  BY <1>10, SetPreferredLayersKeeps
<1>11. CASE SetExternallyManagedBitrate \/ AvailableBitrate \/ OnRtpStreamScore
  BY <1>11, BitrateKeeps
<1>12. CASE UNCHANGED vars
  <2>1. /\ asked' \subseteq Spatial
        /\ UNCHANGED <<streams, status, externallyManagedBitrate, preferred, target,
                       currentSpatialLayer, tsReferenceSpatialLayer, context, last,
                       timeline, unheard, failed>>
    BY <1>12 DEF vars, chosen, IInv, TypeOK
  <2> QED
    BY <2>1, AskedKeeps
<1> QED
  BY <1>1, <1>2, <1>3, <1>4, <1>5, <1>6, <1>7, <1>8, <1>9, <1>10, <1>11, <1>12 DEF Next

\* The inductive invariant holds in every state of the consumer.
THEOREM InvariantHolds == Spec => []IInv
<1>1. Init => IInv
  BY InitInvariant
<1>2. IInv /\ [Next]_vars => IInv'
  BY NextInvariant
<1> QED
  BY <1>1, <1>2, PTL DEF Spec

\* The types hold, and the assertions on the Sender Reports of a sync packet and on the
\* target layer of the codec never fail, for any number of layers, whatever the streams,
\* the bitrates and the order of the events.
THEOREM SimulcastTypeCorrect == Spec => []TypeOK
BY InvariantHolds, PTL DEF IInv

\* The consumer never aims at a stream that is dead or that it cannot switch to.
THEOREM TargetIsAlwaysLive == Spec => []TargetIsLive
BY InvariantHolds, PTL DEF IInv

\* A consumer that cannot send has no target and no current layer.
THEOREM IdleAlwaysHasNoLayers == Spec => []IdleHasNoLayers
BY InvariantHolds, PTL DEF IInv

\* With its own bitrate the consumer aims at the layers it would choose now: no event
\* that would change them is missed but a first report while nothing is current.
THEOREM TargetIsAlwaysBest == Spec => []TargetIsBest
BY InvariantHolds, PTL DEF IInv

\* The timestamps that are sent are those of the reference stream, but for the errors of
\* the two streams' own Sender Reports.
THEOREM OffsetIsAlwaysSkew == Spec => []OffsetIsSkew
BY InvariantHolds, PTL DEF IInv

\* The layer that was sent last changes by a packet only, or to none.
LEMMA OnlyPacketsSwitch ==
    ASSUME IInv, [Next]_vars, last'.layer # last.layer, last'.layer # None
    PROVE  \E s \in Spatial : KeyFrame(s) \/ DeltaFrame(s)
<1>1. \A pair : UpdateTargetLayers(pair) => last' = last \/ last' = NoPacket
  BY DEF UpdateTargetLayers
<1>2. \A st, pref : DistributeAvailableOutgoingBitrate(st, pref) => last' = last \/ last' = NoPacket
  BY <1>1 DEF DistributeAvailableOutgoingBitrate, chosen
<1>3. \A st, pref, force : MayChangeLayers(st, pref, force) => last' = last \/ last' = NoPacket
  BY <1>1, <1>2 DEF MayChangeLayers, chosen
<1>4. KeepLayers => last' = last
  BY DEF KeepLayers, chosen
<1>5. ~(last' = last \/ last' = NoPacket)
  BY DEF NoPacket
<1>6. ~ \E s \in Spatial : \/ ProducerNewRtpStream(s)
                           \/ \E score \in Scores : ProducerRtpStreamScore(s, score)
                           \/ ProducerRtcpSenderReport(s) \/ LostKeyFrame(s)
  <2>1. \A s \in Spatial : ~ProducerNewRtpStream(s)
    BY <1>3, <1>4, <1>5 DEF ProducerNewRtpStream
  <2>2. \A s \in Spatial, score \in Scores : ~ProducerRtpStreamScore(s, score)
    BY <1>3, <1>4, <1>5 DEF ProducerRtpStreamScore
  <2>3. \A s \in Spatial : ~ProducerRtcpSenderReport(s)
    BY <1>3, <1>4, <1>5 DEF ProducerRtcpSenderReport, chosen
  <2>4. \A s \in Spatial : ~LostKeyFrame(s)
    BY <1>5 DEF LostKeyFrame
  <2> QED
    BY <2>1, <2>2, <2>3, <2>4
<1>7. ~(TransportConnected \/ TransportDisconnected)
  BY <1>1, <1>3, <1>4, <1>5 DEF TransportConnected, TransportDisconnected
<1>8. ~(Pause \/ Resume \/ ProducerPaused \/ ProducerResumed)
  BY <1>1, <1>3, <1>4, <1>5
  DEF Pause, Resume, ProducerPaused, ProducerResumed, UserOnPaused, UserOnResumed, chosen
<1>9. ~ \E pair \in Preferable : SetPreferredLayers(pair)
  BY <1>3, <1>4, <1>5 DEF SetPreferredLayers
<1>10. ~(SetExternallyManagedBitrate \/ AvailableBitrate \/ OnRtpStreamScore)
  BY <1>2, <1>3, <1>5 DEF SetExternallyManagedBitrate, AvailableBitrate, OnRtpStreamScore, chosen
<1>11. ~(RequestKeyFrames \/ ReceiveKeyFrameRequest)
  BY <1>5 DEF RequestKeyFrames, ReceiveKeyFrameRequest, KeyFrameAsked
<1>12. ~UNCHANGED vars
  BY <1>5 DEF vars, chosen
<1> QED
  BY <1>6, <1>7, <1>8, <1>9, <1>10, <1>11, <1>12 DEF Next

\* The receiver gets one layer after the other: the first packet of another layer, or
\* after a break, is a key frame, and it is later than all that was sent, unless its own
\* timestamp is across a wrap from it: then the code's comparison of plain numbers errs.
THEOREM AlwaysSwitchesCleanly == Spec => SwitchesCleanly
<1> DEFINE Clean ==
      StartsLayer =>
        /\ last'.key
        /\ \A c \in 0 .. MaxTime :
             KeyFrameAt(last'.layer, c) /\ started /\ ~AcrossWrap(c) =>
               Ts!SeqHigherThan(maxPacketTs', maxPacketTs)
<1>1. ASSUME IInv, [Next]_vars
      PROVE  [Clean]_vars
  <2>1. SUFFICES ASSUME StartsLayer PROVE Clean
    OBVIOUS
  <2>2. last'.layer # last.layer /\ last'.layer # None
    BY <2>1 DEF StartsLayer
  <2>3. PICK s \in Spatial : KeyFrame(s) \/ DeltaFrame(s)
    BY <1>1, <2>2, OnlyPacketsSwitch
  <2>4. last'.key /\ s # currentSpatialLayer /\ last'.layer = s
    BY <1>1, <2>2, <2>3, FramesArePackets, SwitchIsKeyFrame
  <2>5. ASSUME NEW c \in 0 .. MaxTime, KeyFrameAt(last'.layer, c), started, ~AcrossWrap(c)
        PROVE  Ts!SeqHigherThan(maxPacketTs', maxPacketTs)
    BY <1>1, <2>2, <2>4, <2>5, SwitchIsLater
  <2> QED
    BY <2>4, <2>5
<1> QED
  BY <1>1, InvariantHolds, PTL DEF Spec, SwitchesCleanly
=============================================================================
