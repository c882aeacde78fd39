------------------------------ MODULE Producer ------------------------------
(***************************************************************************)
(* A video Producer (RTC/Producer.cpp): its key frame requests, composed   *)
(* with the inactivity timers of its streams (RTC/RtpStreamRecv.cpp).  A   *)
(* timer fires when no packet came for 400 ms; that is any time here.      *)
(***************************************************************************)
EXTENDS KeyFrameRequestManager

VARIABLES
    inactive,   \* the streams that stopped sending; their score is 0
    checking    \* the streams whose inactivity timer runs

activity == <<inactive, checking>>
producerVars == <<vars, activity>>

ProducerInit ==
    /\ Init
    /\ inactive = {} /\ checking = {}
-----------------------------------------------------------------------------
\* Faulty: the timer of a stream that is active again is not restarted.
Active_Unchecked(s) ==
    /\ inactive' = inactive \ {s}
    /\ UNCHANGED checking

\* RtpStreamRecv::ReceivePacket(): a stream that was inactive is checked again,
\* paused or not.
Active(s) ==
    /\ inactive' = inactive \ {s}
    /\ checking' = IF s \in inactive THEN checking \cup {s} ELSE checking

FirstPacket(s, keyFrame) ==
    /\ NewStream(s, keyFrame)
    /\ checking' = IF paused THEN checking ELSE checking \cup {s}
    /\ UNCHANGED inactive

Packet(s) ==
    /\ s \in inactive
    /\ Active(s)
    /\ UNCHANGED vars

KeyFramePacket(s) ==
    /\ KeyFrame(s)
    /\ Active(s)

\* RtpStreamRecv::OnTimer()
Inactivity(s) ==
    /\ s \in checking
    /\ inactive' = inactive \cup {s}
    /\ checking' = checking \ {s}
    /\ UNCHANGED vars

Pause ==
    /\ PauseProducer
    /\ checking' = {}
    /\ UNCHANGED inactive

\* Streams that are inactive are not checked before their next packet.
Resume ==
    /\ ResumeProducer
    /\ checking' = checking \cup (streams \ inactive)
    /\ UNCHANGED inactive

ProducerNext ==
    \/ Pause
    \/ Resume
    \/ \E s \in Ssrcs :
          \/ \E keyFrame \in BOOLEAN : FirstPacket(s, keyFrame)
          \/ Packet(s)
          \/ KeyFramePacket(s)
          \/ Inactivity(s)
          \/ RequestKeyFrame(s) /\ UNCHANGED activity
          \/ OnKeyFrameRequestTimeout(s) /\ UNCHANGED activity

\* The timer of a pending request fires, unless the request is deleted.
ProducerSpec ==
    /\ ProducerInit
    /\ [][ProducerNext]_producerVars
    /\ \A s \in Ssrcs : WF_producerVars(OnKeyFrameRequestTimeout(s) /\ UNCHANGED activity)
-----------------------------------------------------------------------------
(***************************************************************************)
(* Properties.                                                             *)
(***************************************************************************)
\* A stream that counts as active is watched unless the producer is paused,
\* whatever the order of pauses, resumes, packets and timeouts: the consumers are
\* told when its packets stop.  An inactive one is not, but for its next packet.
InactivityWatched ==
    /\ ~paused => streams \ inactive \subseteq checking
    /\ checking \cap inactive = {}
=============================================================================
