---------------------------- MODULE RtpStreamRecv ----------------------------
(***************************************************************************)
(* A received stream (RTC/RtpStreamRecv.cpp on RTC/RtpStream.cpp): which   *)
(* packets it accepts and gives to its NackGenerator.                      *)
(*                                                                         *)
(* The stream uses NACK.  Its inactivity timer is modelled in Producer;    *)
(* scores, jitter and statistics are left out.                             *)
(***************************************************************************)
EXTENDS NackGenerator

CONSTANTS
    MaxDropout,         \* 3000 in the code
    MaxMisorder,        \* 1500
    NoSeq               \* RtpSeqMod + 1, that no sequence number equals

ASSUME RecvAssumption ==
    /\ MaxDropout \in Nat \ {0} /\ MaxMisorder \in Nat \ {0}
    /\ MaxDropout + MaxMisorder < SeqModulus
    /\ NoSeq \notin Seqs

VARIABLES
    rtpStarted,         \* RtpStream::started
    maxSeq, badSeq

stream == <<rtpStarted, maxSeq, badSeq>>
recvVars == <<vars, stream>>

RecvInit ==
    /\ Init
    /\ rtpStarted = FALSE /\ maxSeq = 0 /\ badSeq = 0
-----------------------------------------------------------------------------
(***************************************************************************)
(* RtpStream::UpdateSeq(): an accepted packet is in order, late, or the    *)
(* second of two in a row that are far off; the first of them is bad.      *)
(***************************************************************************)
InOrder(seq) ==
    /\ Wrap(seq - maxSeq) < MaxDropout
    /\ maxSeq' = seq
    /\ UNCHANGED badSeq

Late(seq) ==
    /\ Wrap(seq - maxSeq) > SeqModulus - MaxMisorder
    /\ UNCHANGED <<maxSeq, badSeq>>

FarOff(seq) == Wrap(seq - maxSeq) \in MaxDropout .. SeqModulus - MaxMisorder

\* InitSeq()
Resync(seq) ==
    /\ FarOff(seq) /\ seq = badSeq
    /\ maxSeq' = seq /\ badSeq' = NoSeq

Bad(seq) ==
    /\ FarOff(seq) /\ seq # badSeq
    /\ badSeq' = Wrap(seq + 1)
    /\ UNCHANGED maxSeq

\* The first packet of the stream sets the sequence numbers.
Accepted(seq) ==
    IF rtpStarted
    THEN InOrder(seq) \/ Late(seq) \/ Resync(seq)
    ELSE maxSeq' = seq /\ badSeq' = NoSeq
-----------------------------------------------------------------------------
\* ReceivePacket() of the stream.
ReceiveMedia(seq, keyFrame) ==
    /\ Accepted(seq)
    /\ rtpStarted' = TRUE
    /\ ReceivePacket(seq, keyFrame)

\* ReceiveRtxPacket().  There is none before the first media packet.
ReceiveRtx(seq, keyFrame) ==
    /\ rtpStarted
    /\ Accepted(seq)
    /\ ReceivePacket(seq, keyFrame)
    /\ UNCHANGED rtpStarted

ReceiveBad(seq) ==
    /\ rtpStarted
    /\ Bad(seq)
    /\ UNCHANGED <<vars, rtpStarted>>

\* A key frame is requested for a consumer, or since the stream is new.
RequestKeyFrame ==
    /\ KeyFramesRequestable
    /\ Reset
    /\ UNCHANGED stream

NackTick == Tick /\ UNCHANGED stream

RecvNext ==
    /\ ~asserted
    /\ \/ \E seq \in Seqs, keyFrame \in BOOLEAN :
             ReceiveMedia(seq, keyFrame) \/ ReceiveRtx(seq, keyFrame)
       \/ \E seq \in Seqs : ReceiveBad(seq)
       \/ RequestKeyFrame
       \/ NackTick

\* Time passes.
RecvSpec == RecvInit /\ [][RecvNext]_recvVars /\ WF_recvVars(NackTick)
-----------------------------------------------------------------------------
(***************************************************************************)
(* Properties.                                                             *)
(***************************************************************************)
\* RtpStream.cpp, UpdateSeq(): after two sequential packets far off, "re-sync
\* (i.e., pretend this was the first packet)".  The NackGenerator then goes on
\* from that packet, too, or from none.
ResyncedAsFirst ==
    [][(rtpStarted /\ maxSeq' # maxSeq /\ badSeq' = NoSeq /\ badSeq # NoSeq) =>
          ~started' \/ lastSeq' = maxSeq']_recvVars
=============================================================================
