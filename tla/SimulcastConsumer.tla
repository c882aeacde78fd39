------------------------- MODULE SimulcastConsumer -------------------------
(***************************************************************************)
(* A SimulcastConsumer (RTC/SimulcastConsumer.cpp on RTC/Consumer.cpp): it *)
(* forwards one of several streams of the same video, switches between     *)
(* them on key frames and keeps what it sends one stream with one RTP      *)
(* timeline.                                                               *)
(*                                                                         *)
(* A packet of stream s captured at time c has the RTP timestamp           *)
(* Base[s] + c, and the Sender Reports of s are off by Skew[s].  Packets of *)
(* all capture times come in any order.  Timestamps and their offsets are  *)
(* unsigned integers that wrap (uint32_t), some of which the code compares *)
(* as the numbers they are.                                                *)
(*                                                                         *)
(* Sequence numbers are the subject of SeqManager, the answers to key      *)
(* frame requests of Producer; here a layer that was asked for one sends   *)
(* one in the end.                                                         *)
(***************************************************************************)
EXTENDS SimulcastLayers

CONSTANTS
    Base,               \* RTP timestamp of each stream at time 0
    Skew,               \* error of the Sender Reports of each stream
    Preferable,         \* the layers that may be preferred
    Scores,             \* the scores a stream may have
    Rates,              \* the bitrates of the layers that may be seen
    MaxBitrate,         \* bound: the bitrate on offer
    CleanAfter,         \* 200 packets in the code
    TsModulus,          \* 2^32 in the code
    MaxTime             \* bound: the capture times

\* Unsigned timestamps, and SeqManager<uint32_t>::IsSeqHigherThan().
Ts == INSTANCE SeqNumbers WITH SeqModulus <- TsModulus

ASSUME ConsumerAssumption ==
    /\ Base \in [Spatial -> Nat \ {0}]
    /\ Skew \in [Spatial -> Int] /\ \A s \in Spatial : Base[s] + Skew[s] > 0
    /\ Preferable # {} /\ Preferable \subseteq Spatial \X Temporal
    /\ 10 \in Scores /\ Scores \subseteq 0 .. 10
    /\ Rates \subseteq [Spatial -> [Temporal -> Nat]]
    /\ MaxBitrate \in Nat /\ CleanAfter \in Nat /\ MaxTime \in Nat
    /\ TsModulus \in Nat /\ TsModulus > 3

VARIABLES
    streams,            \* producerRtpStreams
    transportConnected, paused, producerPaused,
    externallyManagedBitrate,
    preferred, target,  \* pairs of layers
    currentSpatialLayer, tsReferenceSpatialLayer,
    context,            \* target and current temporal layer of the encodingContext
    syncRequired, tsOffset,
    tsExtraOffsets, tsExtraOffsetPacketCount,
    started, maxPacketTs,   \* of the RtpStream that is sent
    asked,              \* layers asked for a key frame that has not come
    last,               \* the layer sent last, if one is current, and its first packet
    unheard,            \* a first Sender Report was ignored
    failed              \* an assertion failed: the process is gone

status == <<transportConnected, paused, producerPaused>>
chosen == <<target, currentSpatialLayer, tsReferenceSpatialLayer, context, asked, last>>
timeline == <<syncRequired, tsOffset, tsExtraOffsets, tsExtraOffsetPacketCount, started, maxPacketTs>>
vars == <<streams, status, externallyManagedBitrate, preferred, chosen,
          timeline, unheard, failed>>

NoPacket == [layer |-> None, key |-> FALSE]

Init ==
    /\ streams = [s \in Spatial |-> Absent]
    /\ transportConnected = FALSE /\ paused \in BOOLEAN /\ producerPaused = FALSE
    /\ externallyManagedBitrate \in BOOLEAN
    /\ preferred \in Preferable
    /\ target = NoLayers
    /\ currentSpatialLayer = None /\ tsReferenceSpatialLayer = None
    /\ context = [target |-> None, current |-> None]
    /\ syncRequired = FALSE /\ tsOffset = 0
    /\ tsExtraOffsets = <<>> /\ tsExtraOffsetPacketCount = 0
    /\ started = FALSE /\ maxPacketTs = 0
    /\ asked = {} /\ last = NoPacket
    /\ unheard = FALSE /\ failed = FALSE

\* Consumer::IsActive(), and SimulcastConsumer::IsActive() on top of it.
ConsumerActive == transportConnected /\ ~paused /\ ~producerPaused
Alive(st) == \E s \in Spatial : st[s].score > 0
IsActive == ConsumerActive /\ Alive(streams)

----------------------------------------------------------------------------
(* Choosing the layers, for the streams st and the preferred layers pref   *)
(* that the caller has just set.                                           *)

\* Faulty: a key frame is asked for only when nothing is sent.
UpdateTargetLayers_FirstOnly(pair) ==
    /\ target' = pair
    /\ IF pair = NoLayers
       THEN /\ currentSpatialLayer' = None
            /\ context' = [target |-> None, current |-> None]
            /\ last' = NoPacket
            /\ UNCHANGED <<tsReferenceSpatialLayer, asked>>
       ELSE /\ tsReferenceSpatialLayer' =
                 IF tsReferenceSpatialLayer = None THEN pair[1] ELSE tsReferenceSpatialLayer
            /\ context' = IF pair[1] = currentSpatialLayer
                          THEN [context EXCEPT !.target = pair[2]] ELSE context
            /\ asked' = IF currentSpatialLayer = None THEN asked \cup {pair[1]} ELSE asked
            /\ UNCHANGED <<currentSpatialLayer, last>>

UpdateTargetLayers(pair) ==
    /\ target' = pair
    /\ IF pair = NoLayers
       THEN /\ currentSpatialLayer' = None
            /\ context' = [target |-> None, current |-> None]
            /\ last' = NoPacket
            /\ UNCHANGED <<tsReferenceSpatialLayer, asked>>
       ELSE /\ tsReferenceSpatialLayer' =
                 IF tsReferenceSpatialLayer = None THEN pair[1] ELSE tsReferenceSpatialLayer
            /\ IF pair[1] = currentSpatialLayer
               THEN /\ context' = [context EXCEPT !.target = pair[2]]
                    /\ UNCHANGED asked
               ELSE /\ asked' = asked \cup {pair[1]}
                    /\ UNCHANGED context
            /\ UNCHANGED <<currentSpatialLayer, last>>

\* WebRtcTransport::DistributeAvailableOutgoingBitrate() for this consumer:
\* its share, then layer by layer what is left, then ApplyLayers().  What the
\* other consumers take makes share and rest any number; by the losses the
\* virtual bitrate is a little more or less than the real one.
DistributedLayers(st, pref, ref, rates, share, rest, bonus) ==
    LET Raised(p, left) == IncreaseLayer(st, pref, ref, rates, p, left + bonus)
        Cost(p, q) == IF p = q THEN 0 ELSE rates[q[1]][q[2]]
        raised[n \in 0 .. SpatialLayers * TemporalLayers] ==
          IF n = 0 THEN [pair |-> UseAvailableBitrate(st, pref, ref, rates, share + bonus),
                           left |-> rest]
          ELSE LET p == raised[n - 1]
                   q == IF p.left <= 0 THEN p.pair ELSE Raised(p.pair, p.left)
               IN [pair |-> q, left |-> p.left - Cost(p.pair, q)]
    IN raised[SpatialLayers * TemporalLayers].pair

DistributeAvailableOutgoingBitrate(st, pref) ==
    \E pair \in {DistributedLayers(st, pref, tsReferenceSpatialLayer, rates, share, rest, bonus) :
                   rates \in Rates, share, rest \in 0 .. MaxBitrate, bonus \in {-1, 0, 1}} :
      IF pair = target THEN UNCHANGED chosen ELSE UpdateTargetLayers(pair)

\* Faulty: only a change of the spatial layer counts.
MayChangeLayers_SpatialOnly(st, pref, force) ==
    LET new == RecalculateTargetLayers(st, pref, tsReferenceSpatialLayer) IN
    /\ unheard' = FALSE
    /\ IF new[1] = target[1] THEN UNCHANGED chosen
       ELSE IF ~externallyManagedBitrate THEN UpdateTargetLayers(new)
       ELSE DistributeAvailableOutgoingBitrate(st, pref)

MayChangeLayers(st, pref, force) ==
    LET new == RecalculateTargetLayers(st, pref, tsReferenceSpatialLayer) IN
    /\ unheard' = FALSE
    /\ IF new = target THEN UNCHANGED chosen
       ELSE IF ~externallyManagedBitrate THEN UpdateTargetLayers(new)
       ELSE IF new[1] # target[1] \/ force THEN DistributeAvailableOutgoingBitrate(st, pref)
       ELSE UNCHANGED chosen

KeepLayers == UNCHANGED <<chosen, unheard>>

----------------------------------------------------------------------------
(* What the producer tells.                                                *)

\* ProducerNewRtpStream(): a stream starts with a score of 10.
ProducerNewRtpStream(s) ==
    /\ ~streams[s].seen
    /\ streams' = [streams EXCEPT ![s] = [seen |-> TRUE, score |-> 10, report |-> NoReport]]
    /\ IF ConsumerActive THEN MayChangeLayers(streams', preferred, FALSE) ELSE KeepLayers
    /\ UNCHANGED <<status, externallyManagedBitrate, preferred, timeline, failed>>

\* Faulty: the death of a stream is left to the next distribution of bitrate.
ProducerRtpStreamScore_LocalOnly(s, score) ==
    /\ streams[s].seen /\ score # streams[s].score
    /\ streams' = [streams EXCEPT ![s].score = score]
    /\ IF ConsumerActive /\ ~externallyManagedBitrate
       THEN MayChangeLayers(streams', preferred, FALSE)
       ELSE KeepLayers
    /\ UNCHANGED <<status, externallyManagedBitrate, preferred, timeline, failed>>

ProducerRtpStreamScore(s, score) ==
    /\ streams[s].seen /\ score # streams[s].score
    /\ streams' = [streams EXCEPT ![s].score = score]
    /\ IF /\ ConsumerActive
          /\ ~externallyManagedBitrate \/ score = 0 \/ streams[s].score = 0
       THEN MayChangeLayers(streams', preferred, FALSE)
       ELSE KeepLayers
    /\ UNCHANGED <<status, externallyManagedBitrate, preferred, timeline, failed>>

\* Only the first report of a stream is looked at, and only when the current
\* stream has one.
ProducerRtcpSenderReport(s) ==
    /\ streams[s].seen
    /\ streams' = [streams EXCEPT ![s].report = Base[s] + Skew[s]]
    /\ IF HasReport(streams, s) THEN KeepLayers
       ELSE IF /\ currentSpatialLayer # None
               /\ HasReport(streams', currentSpatialLayer)
               /\ IsActive
       THEN MayChangeLayers(streams', preferred, FALSE)
       ELSE /\ unheard' = (unheard \/ currentSpatialLayer = None)
            /\ UNCHANGED chosen
    /\ UNCHANGED <<status, externallyManagedBitrate, preferred, timeline, failed>>

----------------------------------------------------------------------------
(* What the transport and the application tell.                            *)

\* The transport connects, or the consumer is made on a connected one.
TransportConnected ==
    /\ ~transportConnected
    /\ transportConnected' = TRUE /\ syncRequired' = TRUE
    /\ IF ~paused /\ ~producerPaused /\ Alive(streams) THEN MayChangeLayers(streams, preferred, FALSE) ELSE KeepLayers
    /\ UNCHANGED <<streams, preferred, paused, producerPaused,
                   externallyManagedBitrate, tsOffset,
                   tsExtraOffsets, tsExtraOffsetPacketCount, started, maxPacketTs, failed>>

TransportDisconnected ==
    /\ transportConnected
    /\ transportConnected' = FALSE
    /\ UpdateTargetLayers(NoLayers)
    /\ UNCHANGED <<streams, paused, producerPaused, externallyManagedBitrate, preferred,
                   timeline, unheard, failed>>

\* Faulty: whether the consumer was active is asked after the pause.
UserOnPaused_ActiveAfter ==
    /\ IF transportConnected /\ ~paused' /\ ~producerPaused' /\ Alive(streams)
       THEN UpdateTargetLayers(NoLayers) ELSE UNCHANGED chosen
    /\ UNCHANGED <<streams, transportConnected, externallyManagedBitrate, preferred,
                   timeline, unheard, failed>>

\* UserOnPaused() and UserOnResumed(), by the consumer or by its producer.
UserOnPaused ==
    /\ IF IsActive THEN UpdateTargetLayers(NoLayers) ELSE UNCHANGED chosen
    /\ UNCHANGED <<streams, transportConnected, externallyManagedBitrate, preferred,
                   timeline, unheard, failed>>

UserOnResumed ==
    /\ IF transportConnected /\ ~paused' /\ ~producerPaused' /\ Alive(streams)
       THEN syncRequired' = TRUE /\ MayChangeLayers(streams, preferred, FALSE)
       ELSE UNCHANGED syncRequired /\ KeepLayers
    /\ UNCHANGED <<streams, preferred, transportConnected,
                   externallyManagedBitrate, tsOffset,
                   tsExtraOffsets, tsExtraOffsetPacketCount, started, maxPacketTs, failed>>

Pause == ~paused /\ paused' = TRUE /\ UNCHANGED producerPaused /\ UserOnPaused
Resume == paused /\ paused' = FALSE /\ UNCHANGED producerPaused /\ UserOnResumed
ProducerPaused == ~producerPaused /\ producerPaused' = TRUE /\ UNCHANGED paused /\ UserOnPaused
ProducerResumed == producerPaused /\ producerPaused' = FALSE /\ UNCHANGED paused /\ UserOnResumed

SetPreferredLayers(pair) ==
    /\ pair # preferred
    /\ preferred' = pair
    /\ IF IsActive THEN MayChangeLayers(streams, pair, TRUE) ELSE KeepLayers
    /\ UNCHANGED <<streams, status, externallyManagedBitrate, timeline, failed>>

\* Only WebRtcTransport does this, when a consumer first supports REMB.
SetExternallyManagedBitrate ==
    /\ ~externallyManagedBitrate
    /\ externallyManagedBitrate' = TRUE
    /\ UNCHANGED <<streams, status, preferred, chosen, timeline, unheard, failed>>

\* The REMB client tells how much bitrate there is.
AvailableBitrate ==
    /\ externallyManagedBitrate /\ ConsumerActive
    /\ DistributeAvailableOutgoingBitrate(streams, preferred)
    /\ UNCHANGED <<streams, preferred, status, externallyManagedBitrate,
                   timeline, unheard, failed>>

\* The score of the stream that is sent changes, by a Receiver Report.
OnRtpStreamScore ==
    /\ IsActive /\ ~externallyManagedBitrate
    /\ MayChangeLayers(streams, preferred, FALSE)
    /\ UNCHANGED <<streams, preferred, status, externallyManagedBitrate, timeline,
                   failed>>

\* RequestKeyFrames() by the application, RequestKeyFrameForCurrentSpatialLayer()
\* by a PLI or FIR of the remote peer.
KeyFrameAsked(layers) ==
    /\ IsActive
    /\ asked' = asked \cup (layers \ {None})
    /\ UNCHANGED <<streams, status, externallyManagedBitrate, preferred, target,
                   currentSpatialLayer, tsReferenceSpatialLayer, context, last,
                   timeline, unheard, failed>>

RequestKeyFrames == KeyFrameAsked({target[1], currentSpatialLayer})
ReceiveKeyFrameRequest == KeyFrameAsked({currentSpatialLayer})

----------------------------------------------------------------------------
(* SendRtpPacket().  A packet has its spatial layer, its timestamp, its    *)
(* temporal layer, whether that one may be switched up to with it (y), and *)
(* whether its picture comes after a later one (late); a key frame is of   *)
(* temporal layer 0.                                                       *)

\* The packet starts the forwarding of the target layer.
Switches(s, key) == s = target[1] /\ currentSpatialLayer # s /\ key

\* Packets of other layers, and those before the awaited key frame, are dropped.
Forwarded(s, key) ==
    /\ IsActive /\ target # NoLayers
    /\ \/ Switches(s, key)
       \/ s = currentSpatialLayer /\ (syncRequired => key)

\* Faulty: the offset of the layer before stays when the reference is back.
NewOffset_Kept(s) ==
    IF s = tsReferenceSpatialLayer THEN tsOffset
    ELSE Ts!Wrap(streams[s].report - streams[tsReferenceSpatialLayer].report)

\* The offset of stream s to the reference, from their Sender Reports.
NewOffset(s) ==
    IF s = tsReferenceSpatialLayer THEN 0
    ELSE Ts!Wrap(streams[s].report - streams[tsReferenceSpatialLayer].report)

\* The Sender Reports that the assertions of a sync packet ask for.
ReportsThere(s) ==
    \/ s = tsReferenceSpatialLayer
    \/ HasReport(streams, tsReferenceSpatialLayer) /\ HasReport(streams, s)

\* What takes the timestamp out to the one after maxPacketTs.
ToNext(out) == Ts!Wrap(maxPacketTs - out + 1)

\* Faulty: a key frame may have the timestamp of the last packet.
SyncExtraOffsets_Equal(ts, out) ==
    IF out < maxPacketTs THEN [t \in {ts} |-> ToNext(out)] ELSE <<>>

\* A key frame that would not be later than what was sent, as the numbers are,
\* gets an extra offset.
SyncExtraOffsets(ts, out) ==
    IF out <= maxPacketTs THEN [t \in {ts} |-> ToNext(out)] ELSE <<>>

\* While there are extra offsets each timestamp has its own; one that is new
\* and too low as a number gets one now.
ExtraOffsets(extras, ts, out) ==
    IF extras # <<>> /\ ts \notin DOMAIN extras /\ out < maxPacketTs
    THEN [t \in {ts} \cup DOMAIN extras |-> IF t = ts THEN ToNext(out) ELSE extras[t]]
    ELSE extras

ExtraOffset(extras, ts) == IF ts \in DOMAIN extras THEN extras[ts] ELSE 0

\* What the codec lets through (VP8::PayloadDescriptorHandler::Process()).
Passes(ctx, tl, y, late) == late \/ (tl <= ctx.target /\ (tl <= ctx.current \/ y))

\* The current temporal layer after that: never above the target.
WithTemporal(ctx, tl) == [ctx EXCEPT !.current = Min({Max({@, tl}), ctx.target})]

\* RtpStream::ReceivePacket() of the stream that is sent.
ReceivePacket(ts) ==
    /\ started' = TRUE
    /\ maxPacketTs' = IF ~started \/ Ts!SeqHigherThan(ts, maxPacketTs) THEN ts ELSE maxPacketTs

SendRtpPacket(s, ts, key, tl, y, late) ==
    /\ Forwarded(s, key)
    /\ asked' = IF key THEN asked \ {s} ELSE asked
    /\ currentSpatialLayer' = s
    /\ LET switches == s # currentSpatialLayer
           sync == switches \/ syncRequired
           offset == IF sync THEN NewOffset(s) ELSE tsOffset
           out == Ts!Wrap(ts - offset)
           before == IF sync THEN SyncExtraOffsets(ts, out) ELSE tsExtraOffsets
           count == IF sync THEN 0 ELSE tsExtraOffsetPacketCount
           ctx == IF switches THEN [target |-> target[2], current |-> tl] ELSE context
           extras == ExtraOffsets(before, ts, out)
           extra == ExtraOffset(extras, ts)
           counted == count + (IF extra = 0 THEN 0 ELSE 1)
       IN /\ failed' = (failed \/ (sync /\ ~ReportsThere(s)) \/ ctx.target = None)
          /\ syncRequired' = FALSE /\ tsOffset' = offset
          /\ IF Passes(ctx, tl, y, late)
             THEN /\ context' = WithTemporal(ctx, tl)
                  /\ IF counted > CleanAfter
                     THEN tsExtraOffsets' = <<>> /\ tsExtraOffsetPacketCount' = 0
                     ELSE tsExtraOffsets' = extras /\ tsExtraOffsetPacketCount' = counted
                  /\ ReceivePacket(Ts!Wrap(out + extra))
                  /\ last' = IF last.layer = s THEN last ELSE [layer |-> s, key |-> key]
             ELSE /\ context' = ctx
                  /\ tsExtraOffsets' = before /\ tsExtraOffsetPacketCount' = count
                  /\ UNCHANGED <<started, maxPacketTs, last>>
    /\ UNCHANGED <<streams, status, externallyManagedBitrate, preferred,
                   target, tsReferenceSpatialLayer, unheard>>

----------------------------------------------------------------------------

\* A key frame that is not forwarded is not asked for any more either.
LostKeyFrame(s) ==
    /\ s \in asked /\ ~Forwarded(s, TRUE)
    /\ asked' = asked \ {s}
    /\ UNCHANGED <<streams, status, externallyManagedBitrate, preferred, target,
                   currentSpatialLayer, tsReferenceSpatialLayer, context, last,
                   timeline, unheard, failed>>

KeyFrameAt(s, c) == SendRtpPacket(s, Ts!Wrap(Base[s] + c), TRUE, 0, TRUE, FALSE)
KeyFrame(s) == \E c \in 0 .. MaxTime : KeyFrameAt(s, c)
DeltaFrame(s) ==
    \E ts \in {Ts!Wrap(Base[s] + c) : c \in 0 .. MaxTime},
       tl \in Temporal, y, late \in BOOLEAN :
      SendRtpPacket(s, ts, FALSE, tl, y, late)

Next ==
    \/ \E s \in Spatial :
         \/ ProducerNewRtpStream(s)
         \/ \E score \in Scores : ProducerRtpStreamScore(s, score)
         \/ ProducerRtcpSenderReport(s)
         \/ KeyFrame(s) \/ DeltaFrame(s) \/ LostKeyFrame(s)
    \/ TransportConnected \/ TransportDisconnected
    \/ Pause \/ Resume \/ ProducerPaused \/ ProducerResumed
    \/ \E pair \in Preferable : SetPreferredLayers(pair)
    \/ SetExternallyManagedBitrate \/ AvailableBitrate
    \/ OnRtpStreamScore
    \/ RequestKeyFrames \/ ReceiveKeyFrameRequest

\* A layer that was asked for a key frame sends one.
AnswersKeyFrameRequest(s) == s \in asked /\ (KeyFrame(s) \/ LostKeyFrame(s))

Spec == Init /\ [][Next]_vars /\ \A s \in Spatial : WF_vars(AnswersKeyFrameRequest(s))

----------------------------------------------------------------------------

\* The types, and the assertions on the Sender Reports of a sync packet and on the
\* target layer of the codec, which hold whatever was switched when.
TypeOK ==
    /\ streams \in [Spatial -> [seen : BOOLEAN, score : 0 .. 10, report : Nat]]
    /\ preferred \in Spatial \X Temporal
    /\ target \in AnyLayers
    /\ currentSpatialLayer \in Spatial \cup {None}
    /\ tsReferenceSpatialLayer \in Spatial \cup {None}
    /\ context \in [target : Temporal \cup {None}, current : Temporal \cup {None}]
    /\ asked \subseteq Spatial
    /\ tsExtraOffsetPacketCount \in 0 .. CleanAfter
    /\ maxPacketTs \in Ts!Seqs
    /\ started \in BOOLEAN
    /\ ~failed

\* The target layer is a stream that is alive and can be switched to, also when
\* the bitrate decides: the death of a stream is never left to a later event.
TargetIsLive ==
    target # NoLayers =>
      Usable(streams, tsReferenceSpatialLayer, target[1])

\* A consumer that is paused, or whose producer or transport is, has no layers:
\* whatever happened in the meantime it starts again with a key frame.
IdleHasNoLayers ==
    ~ConsumerActive => target = NoLayers /\ currentSpatialLayer = None

\* With its own bitrate the consumer aims at the layers it would choose now: no
\* score, stream, preference or report is missed, except a first Sender Report
\* that comes while no layer is current.
TargetIsBest ==
    ConsumerActive /\ ~externallyManagedBitrate /\ ~unheard =>
      target = RecalculateTargetLayers(streams, preferred, tsReferenceSpatialLayer)

\* What the comment of ProducerRtcpSenderReport() says of the reports it ignores:
\* "we know we won't be able to switch".
IgnoredReportsChangeNothing ==
    ConsumerActive /\ ~externallyManagedBitrate =>
      target = RecalculateTargetLayers(streams, preferred, tsReferenceSpatialLayer)

\* Whichever layer is sent and whatever was sent before, its timestamps are those
\* of the reference but for the errors of the two streams' Sender Reports.
OffsetIsSkew ==
    LET Clock(s) == Base[s] + Skew[s] IN
    currentSpatialLayer # None /\ ~syncRequired =>
      tsOffset = Ts!Wrap(Clock(currentSpatialLayer) - Clock(tsReferenceSpatialLayer))

\* A packet of another layer, or the first after a break.
StartsLayer == last'.layer # last.layer /\ last'.layer # None

\* Without an extra offset the timestamp of a packet captured at time c would be
\* more than half of all timestamps above maxPacketTs, as the numbers are: it is
\* from before a wrap that the sent stream has passed, or far ahead.
AcrossWrap(c) ==
    Ts!Wrap(Base[last'.layer] + c - tsOffset') - maxPacketTs > Ts!MaxValue \div 2

\* The receiver gets one layer after the other: a packet of another layer, or the
\* first after a break, is a key frame, and it is later than all that was sent
\* (the new maxPacketTs), unless the timestamps wrapped in between.
SwitchesCleanly ==
    [][StartsLayer =>
         /\ last'.key
         /\ \A c \in 0 .. MaxTime :
              KeyFrameAt(last'.layer, c) /\ started /\ ~AcrossWrap(c) =>
                Ts!SeqHigherThan(maxPacketTs', maxPacketTs)]_vars

\* What the comment of the extra offset says: that a key frame whose timestamp "is
\* lower than the last sent" gets one.  The code compares the numbers alone, so
\* that around the wrap an earlier one is sent as it is: no run checks this.
AlwaysLater ==
    [][StartsLayer /\ started => Ts!SeqHigherThan(maxPacketTs', maxPacketTs)]_vars

\* A layer that is aimed at becomes the current one, unless another is chosen: the
\* current layer always comes to be the target's, or the target changes for ever.
SwitchCompletes ==
    []<>(currentSpatialLayer = target[1]) \/ []<><<target[1]' # target[1]>>_target
=============================================================================
