-------------------------- MODULE Producer_proofs --------------------------
(***************************************************************************)
(* The safety properties of KeyFrameRequestManager, and of a producer with *)
(* the inactivity timers of its streams, for any set of streams: its key   *)
(* frame requests are those of KeyFrameRequestManager, and no active       *)
(* stream goes unwatched.                                                  *)
(***************************************************************************)
EXTENDS Producer, TLAPS
-----------------------------------------------------------------------------
(***************************************************************************)
(* Key frame requests.                                                     *)
(***************************************************************************)
\* A pending request that will be repeated has not been repeated yet.
RetryIsFirst ==
    \A s \in Ssrcs : Pending(s) /\ pending[s] => repeats[s] = 0

IInv ==
    /\ TypeOK
    /\ NeedsWillRetry
    /\ RepeatedOnce
    /\ RetryIsFirst
    /\ WaitingIsRequested

\* Nothing is pending and nobody waits at the start.
LEMMA InitIInv == Init => IInv
<1> SUFFICES ASSUME Init PROVE IInv
  OBVIOUS
<1>1. DOMAIN pending = {} /\ unmet = {} /\ waiting = {} /\ streams = {}
         /\ givenUp = {} /\ paused = FALSE
  BY DEF Init
<1>2. repeats = [s \in Ssrcs |-> 0]
  BY DEF Init
<1>3. TypeOK
  BY <1>1, <1>2 DEF TypeOK
<1>4. NeedsWillRetry /\ RetryIsFirst /\ WaitingIsRequested
  BY <1>1 DEF NeedsWillRetry, RetryIsFirst, WaitingIsRequested, Pending
<1>5. RepeatedOnce
  BY <1>2 DEF RepeatedOnce
<1>6. QED
  BY <1>3, <1>4, <1>5 DEF IInv

\* Every step of the manager and of the producer preserves the invariant.
LEMMA NextIInv == IInv /\ [Next]_vars => IInv'
<1> SUFFICES ASSUME IInv, [Next]_vars
             PROVE  IInv'
  OBVIOUS
<1>a. TypeOK /\ NeedsWillRetry /\ RepeatedOnce /\ RetryIsFirst /\ WaitingIsRequested
  BY DEF IInv
<1>1. CASE PauseProducer
  <2>1. /\ paused' = TRUE
        /\ UNCHANGED <<streams, pending, unmet, repeats, waiting, givenUp>>
    BY <1>1 DEF PauseProducer
  <2>2. TypeOK'
    BY <1>a, <2>1 DEF TypeOK
  <2>3. NeedsWillRetry'
    BY <1>a, <2>1 DEF TypeOK, NeedsWillRetry, Pending
  <2>4. RepeatedOnce'
    BY <1>a, <2>1 DEF TypeOK, RepeatedOnce
  <2>5. RetryIsFirst'
    BY <1>a, <2>1 DEF TypeOK, RetryIsFirst, Pending
  <2>6. WaitingIsRequested'
    BY <1>a, <2>1 DEF TypeOK, WaitingIsRequested, Pending
  <2>7. QED
    BY <2>2, <2>3, <2>4, <2>5, <2>6 DEF IInv
<1>2. CASE ResumeProducer
  <2>1. /\ UNCHANGED streams
        /\ waiting' = streams
        /\ paused' = FALSE
        /\ DOMAIN pending' = DOMAIN pending \cup streams
        /\ \A r \in DOMAIN pending' :
             pending'[r] = IF r \in streams THEN TRUE ELSE pending[r]
        /\ unmet' = unmet \ streams
        /\ givenUp' = givenUp \ streams
        /\ repeats' = [r \in Ssrcs |-> IF r \in streams THEN 0 ELSE repeats[r]]
    BY <1>2 DEF ResumeProducer, ForceKeyFrameNeeded
  <2>2. TypeOK'
    BY <1>a, <2>1 DEF TypeOK
  <2>3. NeedsWillRetry'
    BY <1>a, <2>1 DEF TypeOK, NeedsWillRetry, Pending
  <2>4. RepeatedOnce'
    BY <1>a, <2>1 DEF TypeOK, RepeatedOnce
  <2>5. RetryIsFirst'
    BY <1>a, <2>1 DEF TypeOK, RetryIsFirst, Pending
  <2>6. WaitingIsRequested'
    BY <1>a, <2>1 DEF TypeOK, WaitingIsRequested, Pending
  <2>7. QED
    BY <2>2, <2>3, <2>4, <2>5, <2>6 DEF IInv
<1>3. ASSUME NEW s \in Ssrcs, RequestKeyFrame(s)
      PROVE  IInv'
  <2>1. /\ s \in streams
        /\ ~paused
        /\ UNCHANGED <<paused, streams>>
        /\ waiting' = waiting \cup {s}
        /\ DOMAIN pending' = DOMAIN pending \cup {s}
        /\ \A r \in DOMAIN pending' :
             pending'[r] = IF r = s THEN TRUE ELSE pending[r]
        /\ unmet' \subseteq unmet \cup {s}
        /\ givenUp' = givenUp \ {s}
        /\ repeats' = [repeats EXCEPT ![s] = 0]
    BY <1>3 DEF RequestKeyFrame, KeyFrameNeeded, SetPending
  <2>2. TypeOK'
    BY <1>a, <2>1 DEF TypeOK
  <2>3. NeedsWillRetry'
    BY <1>a, <2>1 DEF TypeOK, NeedsWillRetry, Pending
  <2>4. RepeatedOnce'
    BY <1>a, <2>1 DEF TypeOK, RepeatedOnce
  <2>5. RetryIsFirst'
    BY <1>a, <2>1 DEF TypeOK, RetryIsFirst, Pending
  <2>6. WaitingIsRequested'
    BY <1>a, <2>1 DEF TypeOK, WaitingIsRequested, Pending
  <2>7. QED
    BY <2>2, <2>3, <2>4, <2>5, <2>6 DEF IInv
<1>4. ASSUME NEW s \in Ssrcs, NEW keyFrame \in BOOLEAN, NewStream(s, keyFrame)
      PROVE  IInv'
  <2>1. CASE keyFrame \/ paused
    <3>1. /\ streams' = streams \cup {s}
          /\ UNCHANGED <<paused, pending, unmet, repeats, givenUp>>
          /\ waiting' \subseteq waiting \cup {s}
          /\ ~paused => waiting' = waiting
      BY <1>4, <2>1 DEF NewStream
    <3>2. TypeOK'
      BY <1>a, <3>1 DEF TypeOK
    <3>3. NeedsWillRetry'
      BY <1>a, <3>1 DEF TypeOK, NeedsWillRetry, Pending
    <3>4. RepeatedOnce'
      BY <1>a, <3>1 DEF TypeOK, RepeatedOnce
    <3>5. RetryIsFirst'
      BY <1>a, <3>1 DEF TypeOK, RetryIsFirst, Pending
    <3>6. WaitingIsRequested'
      BY <1>a, <3>1 DEF TypeOK, WaitingIsRequested, Pending
    <3>7. QED
      BY <3>2, <3>3, <3>4, <3>5, <3>6 DEF IInv
  <2>2. CASE ~(keyFrame \/ paused)
    <3>1. /\ streams' = streams \cup {s}
          /\ UNCHANGED paused
          /\ waiting' = waiting \cup {s}
          /\ DOMAIN pending' = DOMAIN pending \cup {s}
          /\ \A r \in DOMAIN pending' :
               pending'[r] = IF r = s THEN TRUE ELSE pending[r]
          /\ unmet' = unmet \ {s}
          /\ givenUp' = givenUp \ {s}
          /\ repeats' = [r \in Ssrcs |-> IF r = s THEN 0 ELSE repeats[r]]
      BY <1>4, <2>2 DEF NewStream, ForceKeyFrameNeeded
    <3>2. TypeOK'
      BY <1>a, <3>1 DEF TypeOK
    <3>3. NeedsWillRetry'
      BY <1>a, <3>1 DEF TypeOK, NeedsWillRetry, Pending
    <3>4. RepeatedOnce'
      BY <1>a, <3>1 DEF TypeOK, RepeatedOnce
    <3>5. RetryIsFirst'
      BY <1>a, <3>1 DEF TypeOK, RetryIsFirst, Pending
    <3>6. WaitingIsRequested'
      BY <1>a, <3>1 DEF TypeOK, WaitingIsRequested, Pending
    <3>7. QED
      BY <3>2, <3>3, <3>4, <3>5, <3>6 DEF IInv
  <2>3. QED
    BY <2>1, <2>2
<1>5. ASSUME NEW s \in Ssrcs, KeyFrame(s)
      PROVE  IInv'
  <2>1. /\ UNCHANGED <<paused, streams>>
        /\ waiting' = IF paused THEN waiting ELSE waiting \ {s}
        /\ DOMAIN pending' = DOMAIN pending \ {s}
        /\ \A r \in DOMAIN pending' : pending'[r] = pending[r]
        /\ unmet' = unmet \ {s}
        /\ givenUp' = givenUp \ {s}
        /\ repeats' = [repeats EXCEPT ![s] = 0]
    BY <1>5 DEF KeyFrame, KeyFrameReceived, DeletePending
  <2>2. TypeOK'
    BY <1>a, <2>1 DEF TypeOK
  <2>3. NeedsWillRetry'
    BY <1>a, <2>1 DEF TypeOK, NeedsWillRetry, Pending
  <2>4. RepeatedOnce'
    BY <1>a, <2>1 DEF TypeOK, RepeatedOnce
  <2>5. RetryIsFirst'
    BY <1>a, <2>1 DEF TypeOK, RetryIsFirst, Pending
  <2>6. WaitingIsRequested'
    BY <1>a, <2>1 DEF TypeOK, WaitingIsRequested, Pending
  <2>7. QED
    BY <2>2, <2>3, <2>4, <2>5, <2>6 DEF IInv
<1>6. ASSUME NEW s \in Ssrcs, OnKeyFrameRequestTimeout(s)
      PROVE  IInv'
  <2>1. CASE pending[s]
    <3>1. /\ s \in DOMAIN pending
          /\ DOMAIN pending' = DOMAIN pending
          /\ \A r \in DOMAIN pending' :
               pending'[r] = IF r = s THEN FALSE ELSE pending[r]
          /\ unmet' = unmet \ {s}
          /\ repeats' = [repeats EXCEPT ![s] = repeats[s] + 1]
          /\ UNCHANGED <<paused, streams, waiting, givenUp>>
      BY <1>6, <2>1 DEF OnKeyFrameRequestTimeout, SetPending, Pending
    <3>0. repeats[s] = 0
      BY <1>a, <2>1, <3>1 DEF RetryIsFirst, Pending
    <3>2. TypeOK'
      <4>1. repeats' \in [Ssrcs -> Nat]
        BY <1>a, <3>1, <3>0 DEF TypeOK
      <4>2. \A r \in DOMAIN pending' : pending'[r] \in BOOLEAN
        BY <1>a, <3>1 DEF TypeOK
      <4>3. QED
        BY <1>a, <3>1, <4>1, <4>2 DEF TypeOK
    <3>3. NeedsWillRetry'
      BY <1>a, <3>1 DEF TypeOK, NeedsWillRetry, Pending
    <3>4. RepeatedOnce'
      BY <1>a, <3>1, <3>0 DEF TypeOK, RepeatedOnce
    <3>5. RetryIsFirst'
      BY <1>a, <3>1 DEF TypeOK, RetryIsFirst, Pending
    <3>6. WaitingIsRequested'
      BY <1>a, <3>1 DEF TypeOK, WaitingIsRequested, Pending
    <3>7. QED
      BY <3>2, <3>3, <3>4, <3>5, <3>6 DEF IInv
  <2>2. CASE ~pending[s]
    <3>1. /\ s \in DOMAIN pending
          /\ DOMAIN pending' = DOMAIN pending \ {s}
          /\ \A r \in DOMAIN pending' : pending'[r] = pending[r]
          /\ givenUp' = givenUp \cup {s}
          /\ UNCHANGED <<paused, streams, waiting, unmet, repeats>>
      BY <1>6, <2>2 DEF OnKeyFrameRequestTimeout, DeletePending, Pending
    <3>2. TypeOK'
      BY <1>a, <3>1 DEF TypeOK
    <3>3. NeedsWillRetry'
      BY <1>a, <3>1, <2>2 DEF TypeOK, NeedsWillRetry, Pending
    <3>4. RepeatedOnce'
      BY <1>a, <3>1 DEF TypeOK, RepeatedOnce
    <3>5. RetryIsFirst'
      BY <1>a, <3>1 DEF TypeOK, RetryIsFirst, Pending
    <3>6. WaitingIsRequested'
      BY <1>a, <3>1 DEF TypeOK, WaitingIsRequested, Pending
    <3>7. QED
      BY <3>2, <3>3, <3>4, <3>5, <3>6 DEF IInv
  <2>3. QED
    BY <2>1, <2>2
<1>7. CASE UNCHANGED vars
  <2>1. /\ UNCHANGED <<paused, streams, pending, unmet, repeats, waiting, givenUp>>
    BY <1>7 DEF vars
  <2>2. TypeOK'
    BY <1>a, <2>1 DEF TypeOK
  <2>3. NeedsWillRetry'
    BY <1>a, <2>1 DEF TypeOK, NeedsWillRetry, Pending
  <2>4. RepeatedOnce'
    BY <1>a, <2>1 DEF TypeOK, RepeatedOnce
  <2>5. RetryIsFirst'
    BY <1>a, <2>1 DEF TypeOK, RetryIsFirst, Pending
  <2>6. WaitingIsRequested'
    BY <1>a, <2>1 DEF TypeOK, WaitingIsRequested, Pending
  <2>7. QED
    BY <2>2, <2>3, <2>4, <2>5, <2>6 DEF IInv
<1>8. QED
  BY <1>1, <1>2, <1>3, <1>4, <1>5, <1>6, <1>7 DEF Next

\* The invariant holds in every reachable state.
THEOREM Invariance == Spec => []IInv
  BY InitIInv, NextIInv, PTL DEF Spec

\* The fields keep their types.
THEOREM TypeCorrect == Spec => []TypeOK
  BY Invariance, PTL DEF IInv

\* A need that comes while a request is pending is always going to be repeated.
THEOREM NeedsRetryAlways == Spec => []NeedsWillRetry
  BY Invariance, PTL DEF IInv

\* The timer never sends a second request for the same need.
THEOREM RepeatedOnceAlways == Spec => []RepeatedOnce
  BY Invariance, PTL DEF IInv

\* A waiting consumer of an active producer always has its request pending,
\* unless that was given up.
THEOREM WaitingRequestedAlways == Spec => []WaitingIsRequested
  BY Invariance, PTL DEF IInv
-----------------------------------------------------------------------------
(***************************************************************************)
(* The producer.                                                           *)
(***************************************************************************)
\* Only streams that were seen are watched, or found inactive.
SeenOnly == inactive \cup checking \subseteq streams

PInv == IInv /\ SeenOnly /\ InactivityWatched
-----------------------------------------------------------------------------
\* A step of the producer is one of the requests alone, or changes none.
LEMMA ProducerStepsRequests ==
    ASSUME [ProducerNext]_producerVars
    PROVE  [Next]_vars
<1>1. CASE UNCHANGED producerVars
  BY <1>1 DEF producerVars
<1>2. CASE Pause \/ Resume
  BY <1>2 DEF Pause, Resume, Next
<1>3. ASSUME NEW s \in Ssrcs, NEW keyFrame \in BOOLEAN, FirstPacket(s, keyFrame)
      PROVE  Next
  BY <1>3 DEF FirstPacket, Next
<1>4. ASSUME NEW s \in Ssrcs, KeyFramePacket(s)
      PROVE  Next
  BY <1>4 DEF KeyFramePacket, Next
<1>5. ASSUME NEW s \in Ssrcs, Packet(s) \/ Inactivity(s)
      PROVE  UNCHANGED vars
  BY <1>5 DEF Packet, Inactivity
<1>6. ASSUME NEW s \in Ssrcs, RequestKeyFrame(s) \/ OnKeyFrameRequestTimeout(s)
      PROVE  Next
  BY <1>6 DEF Next
<1> QED
  BY <1>1, <1>2, <1>3, <1>4, <1>5, <1>6 DEF ProducerNext

\* Pauses, resumes, packets and timers keep every active stream watched.
LEMMA ProducerStepsWatch ==
    ASSUME PInv, [ProducerNext]_producerVars
    PROVE  SeenOnly' /\ InactivityWatched'
<1>1. /\ SeenOnly /\ InactivityWatched /\ paused \in BOOLEAN
  BY DEF PInv, IInv, TypeOK
<1>2. CASE UNCHANGED producerVars
  BY <1>1, <1>2 DEF producerVars, vars, activity, SeenOnly, InactivityWatched
<1>3. CASE Pause
  BY <1>1, <1>3 DEF Pause, PauseProducer, SeenOnly, InactivityWatched
<1>4. CASE Resume
  BY <1>1, <1>4 DEF Resume, ResumeProducer, SeenOnly, InactivityWatched
<1>5. ASSUME NEW s \in Ssrcs, NEW keyFrame \in BOOLEAN, FirstPacket(s, keyFrame)
      PROVE  SeenOnly' /\ InactivityWatched'
  <2>1. /\ s \notin streams /\ streams' = streams \cup {s} /\ paused' = paused
        /\ checking' = IF paused THEN checking ELSE checking \cup {s}
        /\ inactive' = inactive
    BY <1>5 DEF FirstPacket, NewStream
  <2> QED
    BY <1>1, <2>1 DEF SeenOnly, InactivityWatched
<1>6. ASSUME NEW s \in Ssrcs, Packet(s) \/ KeyFramePacket(s)
      PROVE  SeenOnly' /\ InactivityWatched'
  <2>1. /\ streams' = streams /\ paused' = paused
        /\ inactive' = inactive \ {s}
        /\ checking' = IF s \in inactive THEN checking \cup {s} ELSE checking
    BY <1>6 DEF Packet, KeyFramePacket, Active, KeyFrame, vars
  <2> QED
    BY <1>1, <2>1 DEF SeenOnly, InactivityWatched
<1>7. ASSUME NEW s \in Ssrcs, Inactivity(s)
      PROVE  SeenOnly' /\ InactivityWatched'
  BY <1>1, <1>7 DEF Inactivity, vars, SeenOnly, InactivityWatched
<1>8. ASSUME NEW s \in Ssrcs, RequestKeyFrame(s) \/ OnKeyFrameRequestTimeout(s),
             UNCHANGED activity
      PROVE  SeenOnly' /\ InactivityWatched'
  <2>1. streams' = streams /\ paused' = paused
    BY <1>8 DEF RequestKeyFrame, OnKeyFrameRequestTimeout
  <2> QED
    BY <1>1, <1>8, <2>1 DEF activity, SeenOnly, InactivityWatched
<1> QED
  BY <1>2, <1>3, <1>4, <1>5, <1>6, <1>7, <1>8 DEF ProducerNext

THEOREM ProducerInvariant == ProducerSpec => []PInv
<1>1. ProducerInit => PInv
  BY InitIInv DEF ProducerInit, Init, PInv, SeenOnly, InactivityWatched
<1>2. PInv /\ [ProducerNext]_producerVars => PInv'
  BY ProducerStepsRequests, ProducerStepsWatch, NextIInv DEF PInv
<1> QED
  BY <1>1, <1>2, PTL DEF ProducerSpec

\* Composed with the timers, too, no need for a key frame is forgotten.
THEOREM NeedsRetryInProducer == ProducerSpec => []NeedsWillRetry
  BY ProducerInvariant, PTL DEF PInv, IInv

\* No active stream of an active producer goes unwatched.
THEOREM InactivityWatchedAlways == ProducerSpec => []InactivityWatched
  BY ProducerInvariant, PTL DEF PInv
=============================================================================
