----------------------- MODULE KeyFrameRequestManager -----------------------
(***************************************************************************)
(* The key frame requests of a video Producer: RTC/Producer.cpp, that      *)
(* decides when one is needed, and RTC/KeyFrameRequestManager.cpp, that    *)
(* keeps one pending request per stream and repeats it when it times out.  *)
(*                                                                         *)
(* A pending request is the value of its retryOnTimeout flag; its timer of *)
(* one second runs as long as it exists.                                   *)
(***************************************************************************)
EXTENDS Naturals, FiniteSets

CONSTANT Ssrcs      \* the SSRCs of the streams of the producer

VARIABLES
    paused,     \* the producer is paused
    streams,    \* the streams seen so far
    pending,    \* mapSsrcPendingKeyFrameInfo: stream to retryOnTimeout
    \* What the properties talk about, not in the code:
    unmet,      \* streams with a need later than their last request
    repeats,    \* requests sent by the timer since the last need
    waiting,    \* streams with a consumer that waits for a key frame
    givenUp     \* streams whose last request was given up

vars == <<paused, streams, pending, unmet, repeats, waiting, givenUp>>
-----------------------------------------------------------------------------
Pending(s) == s \in DOMAIN pending

SetPending(s, retry) ==
    pending' = [r \in DOMAIN pending \cup {s} |->
                   IF r = s THEN retry ELSE pending[r]]

DeletePending(s) == pending' = [r \in DOMAIN pending \ {s} |-> pending[r]]

Init ==
    /\ paused = FALSE
    /\ streams = {}
    /\ pending = <<>>
    /\ unmet = {}
    /\ repeats = [s \in Ssrcs |-> 0]
    /\ waiting = {}
    /\ givenUp = {}
-----------------------------------------------------------------------------
(***************************************************************************)
(* The manager.                                                            *)
(***************************************************************************)
\* Faulty: a need during a pending request is dropped.
KeyFrameNeeded_Dropped(s) ==
    /\ IF Pending(s) THEN UNCHANGED pending ELSE SetPending(s, TRUE)
    /\ unmet' = IF Pending(s) THEN unmet \cup {s} ELSE unmet
    /\ repeats' = [repeats EXCEPT ![s] = 0]
    /\ givenUp' = givenUp \ {s}

\* A need is met by a request now, or by the timer of the pending one.
KeyFrameNeeded(s) ==
    /\ SetPending(s, TRUE)
    /\ unmet' = IF Pending(s) THEN unmet \cup {s} ELSE unmet
    /\ repeats' = [repeats EXCEPT ![s] = 0]
    /\ givenUp' = givenUp \ {s}

\* A request is sent to every stream of S, pending or not.
ForceKeyFrameNeeded(S) ==
    /\ pending' = [s \in DOMAIN pending \cup S |->
                     IF s \in S THEN TRUE ELSE pending[s]]
    /\ unmet' = unmet \ S
    /\ repeats' = [s \in Ssrcs |-> IF s \in S THEN 0 ELSE repeats[s]]
    /\ givenUp' = givenUp \ S

KeyFrameReceived(s) ==
    /\ DeletePending(s)
    /\ unmet' = unmet \ {s}
    /\ repeats' = [repeats EXCEPT ![s] = 0]
    /\ givenUp' = givenUp \ {s}

\* The request is repeated if someone needed it, and given up otherwise.
OnKeyFrameRequestTimeout(s) ==
    /\ Pending(s)
    /\ IF pending[s]
       THEN /\ SetPending(s, FALSE)
            /\ unmet' = unmet \ {s}
            /\ repeats' = [repeats EXCEPT ![s] = @ + 1]
            /\ UNCHANGED givenUp
       ELSE /\ DeletePending(s)
            /\ givenUp' = givenUp \cup {s}
            /\ UNCHANGED <<unmet, repeats>>
    /\ UNCHANGED <<paused, streams, waiting>>
-----------------------------------------------------------------------------
(***************************************************************************)
(* The producer.                                                           *)
(***************************************************************************)
\* A consumer that has just become active asks for a key frame.
RequestKeyFrame(s) ==
    /\ s \in streams
    /\ ~paused
    /\ KeyFrameNeeded(s)
    /\ waiting' = waiting \cup {s}
    /\ UNCHANGED <<paused, streams>>

PauseProducer ==
    /\ ~paused
    /\ paused' = TRUE
    /\ UNCHANGED <<streams, pending, unmet, repeats, waiting, givenUp>>

\* The consumers start anew, and key frames of all streams are forced.
ResumeProducer ==
    /\ paused
    /\ paused' = FALSE
    /\ ForceKeyFrameNeeded(streams)
    /\ waiting' = streams
    /\ UNCHANGED streams

\* The first packet of a stream.  Unless it is a key frame one is forced.  A
\* consumer that asks for one while it is told of the stream changes nothing:
\* the request was just sent, or the packet is the key frame (currentRtpPacket).
NewStream(s, keyFrame) ==
    /\ s \notin streams
    /\ streams' = streams \cup {s}
    /\ waiting' = IF keyFrame /\ ~paused THEN waiting ELSE waiting \cup {s}
    /\ IF keyFrame \/ paused THEN UNCHANGED <<pending, unmet, repeats, givenUp>>
                             ELSE ForceKeyFrameNeeded({s})
    /\ UNCHANGED paused

\* A later packet, that is a key frame; others change nothing.  A paused
\* producer does not forward it.
KeyFrame(s) ==
    /\ s \in streams
    /\ KeyFrameReceived(s)
    /\ waiting' = IF paused THEN waiting ELSE waiting \ {s}
    /\ UNCHANGED <<paused, streams>>
-----------------------------------------------------------------------------
Next ==
    \/ PauseProducer
    \/ ResumeProducer
    \/ \E s \in Ssrcs :
          \/ RequestKeyFrame(s)
          \/ \E keyFrame \in BOOLEAN : NewStream(s, keyFrame)
          \/ KeyFrame(s)
          \/ OnKeyFrameRequestTimeout(s)

\* The timer of a pending request fires, unless the request is deleted.
Spec ==
    /\ Init
    /\ [][Next]_vars
    /\ \A s \in Ssrcs : WF_vars(OnKeyFrameRequestTimeout(s))
-----------------------------------------------------------------------------
(***************************************************************************)
(* Properties.                                                             *)
(***************************************************************************)
\* The types; requests are pending for known streams only.
TypeOK ==
    /\ paused \in BOOLEAN
    /\ streams \subseteq Ssrcs
    /\ DOMAIN pending \subseteq streams
    /\ \A s \in DOMAIN pending : pending[s] \in BOOLEAN
    /\ unmet \subseteq Ssrcs
    /\ repeats \in [Ssrcs -> Nat]
    /\ waiting \subseteq streams
    /\ givenUp \subseteq streams

\* A need that came after the last request has a pending request that will be
\* repeated: a consumer that joins right after a request is not forgotten.
NeedsWillRetry == \A s \in unmet : Pending(s) /\ pending[s]

\* The timer repeats a request once per need at most: a peer that never answers
\* is not flooded.
RepeatedOnce == \A s \in Ssrcs : repeats[s] <= 1

\* While an active producer has a consumer waiting for a key frame, a request is
\* pending, or it was repeated and given up: no interleaving of new streams,
\* joining consumers, pauses and key frames lost to a pause forgets the request.
WaitingIsRequested ==
    ~paused => \A s \in waiting : Pending(s) \/ s \in givenUp

\* Every need is eventually met by a request or by a key frame.
NeedsAreMet == \A s \in Ssrcs : s \in unmet ~> s \notin unmet
=============================================================================
