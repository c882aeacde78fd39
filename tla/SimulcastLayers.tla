-------------------------- MODULE SimulcastLayers --------------------------
(***************************************************************************)
(* How a SimulcastConsumer chooses its layers                              *)
(* (RTC/SimulcastConsumer.cpp): from the scores of the producer's streams  *)
(* when the bitrate is its own affair, from the bitrate it is offered when *)
(* the transport distributes it.  The operators take the producer's        *)
(* streams st, the preferred layers pref and the layer ref whose           *)
(* timestamps are the reference.                                           *)
(*                                                                         *)
(* A pair of layers is <<spatial, temporal>>.  Bitrates are small numbers: *)
(* rates[s][t] is what temporal layer t of stream s alone takes, 0 when    *)
(* it is not received.                                                     *)
(***************************************************************************)
EXTENDS Integers, FiniteSetsExt

CONSTANTS SpatialLayers, TemporalLayers

ASSUME LayersAssumption ==
    /\ SpatialLayers \in Nat \ {0}
    /\ TemporalLayers \in Nat \ {0}

Spatial == 0 .. SpatialLayers - 1
Temporal == 0 .. TemporalLayers - 1

\* No layer: -1 in the code.
None == -1
NoLayers == <<None, None>>
AnyLayers == {NoLayers} \cup (Spatial \X Temporal)

\* A producer stream: whether it was seen, its score (0 to 10) and its last
\* Sender Report.  Of a report only the difference between its RTP timestamp and
\* its NTP time counts; it is never 0 here, which stands for no report.
NoReport == 0
Absent == [seen |-> FALSE, score |-> 0, report |-> NoReport]

HasReport(st, s) == st[s].report # NoReport
Good(st, s) == st[s].score >= 7

\* Faulty: the reference's own report is not asked for.
CanSwitchToSpatialLayer_OwnReport(st, ref, s) ==
    ref = None \/ s = ref \/ HasReport(st, s)

CanSwitchToSpatialLayer(st, ref, s) ==
    \/ ref = None
    \/ s = ref
    \/ HasReport(st, ref) /\ HasReport(st, s)

Usable(st, ref, s) == st[s].score > 0 /\ CanSwitchToSpatialLayer(st, ref, s)

----------------------------------------------------------------------------
(* The choice by scores.                                                   *)

\* The layer after the streams 0 .. s were looked at: a good one at or above
\* the preferred one ends the search, a bad one that is worse than the choice
\* so far is skipped.
Chosen(st, pref, ref) ==
    LET chosen[s \in None .. SpatialLayers - 1] ==
          IF s = None THEN None
          ELSE LET before == chosen[s - 1] IN
               IF /\ Usable(st, ref, s)
                  /\ ~(before # None /\ before >= pref[1] /\ Good(st, before))
                  /\ \/ before = None
                     \/ st[s].score >= st[before].score
                     \/ Good(st, s)
               THEN s ELSE before
    IN chosen[SpatialLayers - 1]

RecalculateTargetLayers(st, pref, ref) ==
    LET s == Chosen(st, pref, ref) IN
    IF s = None THEN NoLayers
    ELSE <<s, CASE s = pref[1] -> pref[2]
                [] s < pref[1] -> TemporalLayers - 1
                [] s > pref[1] -> 0>>

----------------------------------------------------------------------------
(* The choice by bitrate.                                                  *)

\* GetBitrate(): a temporal layer with those below it.
Needed(rates, p) == MapThenSumSet(LAMBDA t : rates[p[1]][t], 0 .. p[2])

Before(p, q) == p[1] < q[1] \/ (p[1] = q[1] /\ p[2] < q[2])

\* The pairs UseAvailableBitrate() comes to when it has all it asks for.  Its
\* maxProducerScore stays 0, so that a bad layer is never skipped.
Options(st, pref, ref, rates) ==
    {p \in Spatial \X Temporal :
       /\ Usable(st, ref, p[1])
       /\ \A t \in 0 .. p[2] : rates[p[1]][t] # 0
       /\ ~ \E s \in pref[1] .. p[1] - 1 : Usable(st, ref, s) /\ Good(st, s)
       /\ p[1] = pref[1] /\ Good(st, p[1]) => p[2] <= pref[2]}

UseAvailableBitrate(st, pref, ref, rates, virtual) ==
    LET options == Options(st, pref, ref, rates)
        Affordable(p) == Needed(rates, p) <= virtual
        taken == {p \in options : Affordable(p) /\ \A q \in options : Before(q, p) => Affordable(q)}
    IN IF taken = {} THEN NoLayers
       ELSE CHOOSE p \in taken : \A q \in taken : q = p \/ Before(q, p)

\* IncreaseLayer(): one layer more than p.  The preferred pair itself ends the
\* search before its bitrate is looked at.
Higher(st, pref, ref, rates, p) ==
    LET Above(s) == IF s = p[1] THEN p[2] + 1 ELSE 0
        open == {s \in Spatial : s >= p[1] /\ Good(st, s) /\ CanSwitchToSpatialLayer(st, ref, s)}
    IN {<<s, Above(s)>> : s \in
          {r \in open : /\ Above(r) \in Temporal
                        /\ rates[r][Above(r)] # 0
                        /\ ~(r = pref[1] /\ pref[2] <= Above(r))
                        /\ \A q \in open : q < r => q < pref[1]}}

IncreaseLayer(st, pref, ref, rates, p, virtual) ==
    LET higher == Higher(st, pref, ref, rates, p) IN
    IF p = pref \/ higher = {} THEN p
    ELSE LET next == CHOOSE q \in higher : \A r \in higher : q[1] <= r[1] IN
         IF rates[next[1]][next[2]] <= virtual THEN next ELSE p
=============================================================================
