--------------------------- MODULE SctpAssociation ---------------------------
(***************************************************************************)
(* The SCTP association of a transport (RTC/SctpAssociation.cpp): its      *)
(* state, its outgoing streams and how it puts the messages of the peer    *)
(* together again from what usrsctp hands over.                            *)
(*                                                                         *)
(* usrsctp is external.  It hands over a message in one or more parts, the *)
(* parts of a message in order, those of different streams in any order,   *)
(* and it may never hand over the rest of a message that its sender gave   *)
(* up.  It has one request for the streams in flight at a time and refuses *)
(* to add streams meanwhile.                                               *)
(*                                                                         *)
(* A message is a number; its bytes are counted in units, and a buffer is  *)
(* the sequence of the units it holds.                                     *)
(***************************************************************************)
EXTENDS Integers, Sequences, FiniteSets

CONSTANTS
    MaxSctpStreams,     \* 65535
    OsIncrement,        \* 32
    InitialOs,          \* the OS the transport was created with
    IsDataChannel,
    MaxSctpMessageSize,
    ConsumerStreams,    \* streams the data consumers use
    PeerStreams,        \* streams the peer sends messages on
    PeerUnordered,      \* whether it sends unordered messages, too
    PeerMessageSize,    \* bound: units of its longest message
    MaxMessages,        \* bound: messages the peer sends
    NoMessage

ASSUME SctpAssumption ==
    /\ MaxSctpStreams \in Nat /\ OsIncrement \in Nat \ {0}
    /\ InitialOs \in 1 .. MaxSctpStreams
    /\ IsDataChannel \in BOOLEAN /\ PeerUnordered \in BOOLEAN
    /\ MaxSctpMessageSize \in Nat \ {0}
    /\ ConsumerStreams \subseteq 0 .. MaxSctpStreams - 1
    /\ PeerStreams \subseteq 0 .. MaxSctpStreams - 1
    /\ PeerMessageSize \in Nat \ {0}
    /\ MaxMessages \in Nat
    /\ NoMessage \notin 1 .. MaxMessages

VARIABLES
    state, os, desiredOs,
    \* usrsctp:
    request,            \* the request in flight: to add streams, or to reset some
    resetPending,       \* outgoing streams to be reset with the next request
    refused,            \* since it connected, a request to add streams was refused
    \* The message being put together:
    messageBuffer, lastSsnReceived,
    delivered,          \* the message given to the listener in this step
    \* The peer:
    sent,               \* how many messages it began to send
    nextSsn,            \* per stream
    current,            \* per stream, the message whose end did not come yet
    \* What the properties talk about, not in the code:
    series              \* the parts of the last message, nothing else in between

association == <<state, os, desiredOs, request, resetPending, refused>>
reassembly == <<messageBuffer, lastSsnReceived, delivered, series>>
peer == <<sent, nextSsn, current>>
vars == <<association, reassembly, peer>>

Nothing == [message |-> NoMessage, ssn |-> 0, units |-> 0]
NoSeries == [units |-> <<>>, fresh |-> FALSE, ssn |-> 0, outcome |-> "none"]

Init ==
    /\ state = "new" /\ os = InitialOs /\ desiredOs = 0
    /\ request = "none" /\ resetPending = {} /\ refused = FALSE
    /\ messageBuffer = <<>> /\ lastSsnReceived = 0 /\ delivered = <<>>
    /\ sent = 0
    /\ nextSsn = [s \in PeerStreams |-> 0]
    /\ current = [s \in PeerStreams |-> Nothing]
    /\ series = NoSeries
-----------------------------------------------------------------------------
(***************************************************************************)
(* Outgoing streams.                                                       *)
(***************************************************************************)
\* Faulty: forgets the limit.
AdditionalOs_Fixed(n) == OsIncrement

\* How many streams are added to n of them.
AdditionalOs(n) ==
    IF MaxSctpStreams - n >= OsIncrement THEN OsIncrement ELSE MaxSctpStreams - n

\* usrsctp_setsockopt(SCTP_ADD_STREAMS).
RequestStreams ==
    IF request = "none"
    THEN /\ request' = "add"
         /\ UNCHANGED refused
    ELSE /\ refused' = TRUE
         /\ UNCHANGED request

\* Faulty: asks again for what was asked for.
AddOutgoingStreams_Again(n, st, force) ==
    /\ desiredOs' = IF AdditionalOs(n) = 0 THEN desiredOs ELSE n + AdditionalOs(n)
    /\ IF AdditionalOs(n) # 0 /\ st = "connected"
       THEN RequestStreams
       ELSE UNCHANGED <<request, refused>>

\* With n streams in state st.  Until it is connected the association defers
\* the request.
AddOutgoingStreams(n, st, force) ==
    LET next == n + AdditionalOs(n)
        asks == AdditionalOs(n) # 0 /\ (force \/ next # desiredOs)
    IN  /\ desiredOs' = IF asks THEN next ELSE desiredOs
        /\ IF asks /\ st = "connected"
           THEN RequestStreams
           ELSE UNCHANGED <<request, refused>>

\* A data consumer on a stream was created.
HandleDataConsumer(streamId) ==
    /\ IF streamId > os - 1
       THEN AddOutgoingStreams(os, state, FALSE)
       ELSE UNCHANGED <<desiredOs, request, refused>>
    /\ delivered' = <<>>
    /\ UNCHANGED <<state, os, resetPending, messageBuffer, lastSsnReceived,
                   series, peer>>

\* A reset of outgoing streams waits for the request in flight; one of an
\* incoming stream is refused meanwhile.
ResetSctpStream(streams, direction) ==
    LET known == {s \in streams : direction = "incoming" \/ s <= os - 1}
    IN  IF state # "connected" \/ known = {}
        THEN UNCHANGED <<request, resetPending>>
        ELSE IF request = "none"
        THEN /\ request' = "reset"
             /\ UNCHANGED resetPending
        ELSE /\ resetPending' = IF direction = "outgoing"
                                THEN resetPending \cup known ELSE resetPending
             /\ UNCHANGED request

DataProducerClosed(streamId) ==
    /\ ResetSctpStream({streamId}, IF IsDataChannel THEN "outgoing" ELSE "incoming")
    /\ delivered' = <<>>
    /\ UNCHANGED <<state, os, desiredOs, refused, messageBuffer, lastSsnReceived,
                   series, peer>>

DataConsumerClosed(streamId) ==
    /\ ResetSctpStream({streamId}, "outgoing")
    /\ delivered' = <<>>
    /\ UNCHANGED <<state, os, desiredOs, refused, messageBuffer, lastSsnReceived,
                   series, peer>>
-----------------------------------------------------------------------------
(***************************************************************************)
(* The state of the association.                                           *)
(***************************************************************************)
Run ==
    /\ state = "new"
    /\ state' \in {"connecting", "failed"}
    /\ delivered' = <<>>
    /\ UNCHANGED <<os, desiredOs, request, resetPending, refused,
                   messageBuffer, lastSsnReceived, series, peer>>

\* SCTP_COMM_UP and SCTP_RESTART with the streams agreed on.  The state is still
\* the former one when the streams wanted are asked for.
Up(streams) ==
    /\ os' = streams
    /\ IF desiredOs > streams
       THEN AddOutgoingStreams(streams, state, TRUE)
       ELSE UNCHANGED <<desiredOs, request, refused>>
    /\ state' = "connected"

CommUp(streams) ==
    /\ state = "connecting"
    /\ Up(streams)
    /\ delivered' = <<>>
    /\ UNCHANGED <<resetPending, messageBuffer, lastSsnReceived, series, peer>>

\* The peer begins anew.
Restart(streams) ==
    /\ state = "connected"
    /\ Up(streams)
    /\ nextSsn' = [s \in PeerStreams |-> 0]
    /\ current' = [s \in PeerStreams |-> Nothing]
    /\ delivered' = <<>>
    /\ UNCHANGED <<resetPending, messageBuffer, lastSsnReceived, series, sent>>

\* SCTP_COMM_LOST, SCTP_SHUTDOWN_COMP and SCTP_SHUTDOWN_EVENT, or
\* SCTP_CANT_STR_ASSOC.
Down ==
    /\ \/ state \in {"connecting", "connected"} /\ state' = "closed"
       \/ state = "connecting" /\ state' = "failed"
    /\ delivered' = <<>>
    /\ UNCHANGED <<os, desiredOs, request, resetPending, refused,
                   messageBuffer, lastSsnReceived, series, peer>>

\* usrsctp sends the resets that waited, as one request.
AfterRequest ==
    IF resetPending = {}
    THEN request' = "none" /\ UNCHANGED resetPending
    ELSE request' = "reset" /\ resetPending' = {}

\* SCTP_STREAM_CHANGE_EVENT, the peer having granted, denied or failed the
\* request.
StreamsChanged(granted) ==
    /\ state = "connected" /\ request = "add"
    /\ os' = IF granted THEN os + AdditionalOs(os) ELSE os
    /\ refused' = (refused \/ ~granted)
    /\ AfterRequest
    /\ delivered' = <<>>
    /\ UNCHANGED <<state, desiredOs, messageBuffer, lastSsnReceived, series, peer>>

\* SCTP_STREAM_RESET_EVENT for the streams of a request of ours.
ResetAnswered ==
    /\ state = "connected" /\ request = "reset"
    /\ AfterRequest
    /\ delivered' = <<>>
    /\ UNCHANGED <<state, os, desiredOs, refused, messageBuffer, lastSsnReceived,
                   series, peer>>

\* SCTP_STREAM_RESET_EVENT for a stream of the peer, which numbers its messages
\* from 0 again.
PeerResets(streamId) ==
    /\ state = "connected"
    /\ nextSsn[streamId] > 0
    /\ IF IsDataChannel THEN ResetSctpStream({streamId}, "outgoing")
                        ELSE UNCHANGED <<request, resetPending>>
    /\ nextSsn' = [nextSsn EXCEPT ![streamId] = 0]
    /\ current' = [current EXCEPT ![streamId] = Nothing]
    /\ delivered' = <<>>
    /\ UNCHANGED <<state, os, desiredOs, refused, messageBuffer, lastSsnReceived,
                   series, sent>>
-----------------------------------------------------------------------------
(***************************************************************************)
(* Messages.                                                               *)
(***************************************************************************)
\* Faulty: keeps what is left of another message.
BufferFor_KeepsOther(ssn) == messageBuffer

\* What the buffer holds of the message with this SSN: "buffer discarded" when
\* it is of another.
BufferFor(ssn) == IF ssn # lastSsnReceived THEN <<>> ELSE messageBuffer

\* Faulty: checks the part alone.
Exceeds_PartOnly(buffer, part) == Len(part) > MaxSctpMessageSize

Exceeds(buffer, part) == Len(buffer) + Len(part) > MaxSctpMessageSize

\* OnUsrSctpReceiveSctpData()
Receive(ssn, part, eor) ==
    LET buffer == BufferFor(ssn)
    IN  IF Exceeds(buffer, part)
        THEN /\ messageBuffer' = buffer
             /\ lastSsnReceived' = 0
             /\ delivered' = <<>>
        ELSE /\ messageBuffer' = IF eor THEN <<>> ELSE buffer \o part
             /\ lastSsnReceived' = ssn
             /\ delivered' = IF eor THEN buffer \o part ELSE <<>>

Units(message, from, n) ==
    [i \in 1 .. n |-> [message |-> message, unit |-> from + i]]

\* What becomes of a part, as its receiver and the log see it.
Outcome(ssn, part, eor) ==
    IF Exceeds(BufferFor(ssn), part) THEN "refused"
    ELSE IF eor THEN "delivered" ELSE "buffered"

\* A message with this SSN can be told from the part that came before: that one
\* ended a message that was delivered, or had another SSN.  After a part refused
\* as too long an SSN of 0 is not enough, since 0 is then taken for the last one.
Apart(ssn) ==
    \/ series.outcome \in {"none", "delivered"}
    \/ ssn # series.ssn /\ (series.outcome = "refused" => ssn # 0)

\* The series goes on with a part of the message it is of.  A new one is fresh
\* when it can be told from what came before.
SeriesWith(message, ssn, part, eor) ==
    LET s == series.units
        goesOn == s # <<>> /\ s[1].message = message
    IN  [units |-> IF goesOn THEN s \o part ELSE part,
         fresh |-> IF goesOn THEN series.fresh ELSE Apart(ssn),
         ssn |-> ssn,
         outcome |-> Outcome(ssn, part, eor)]

\* usrsctp hands over the first n units of a new message.  The SSN of unordered
\* messages is 0.
NewMessage(streamId, ordered, n, eor) ==
    LET ssn == IF ordered THEN nextSsn[streamId] ELSE 0
        part == Units(sent + 1, 0, n)
    IN  /\ state = "connected"
        /\ current[streamId] = Nothing
        /\ sent < MaxMessages
        /\ sent' = sent + 1
        /\ nextSsn' = [nextSsn EXCEPT ![streamId] = IF ordered THEN @ + 1 ELSE @]
        /\ current' = [current EXCEPT ![streamId] =
                          IF eor THEN Nothing
                          ELSE [message |-> sent + 1, ssn |-> ssn, units |-> n]]
        /\ Receive(ssn, part, eor)
        /\ series' = SeriesWith(sent + 1, ssn, part, eor)
        /\ UNCHANGED association

\* It hands over the next n units of a message.
NextPart(streamId, n, eor) ==
    LET m == current[streamId]
        part == Units(m.message, m.units, n)
    IN  /\ state = "connected"
        /\ m # Nothing
        /\ m.units + n <= PeerMessageSize
        /\ current' = [current EXCEPT ![streamId] =
                          IF eor THEN Nothing ELSE [m EXCEPT !.units = @ + n]]
        /\ Receive(m.ssn, part, eor)
        /\ series' = SeriesWith(m.message, m.ssn, part, eor)
        /\ UNCHANGED <<association, sent, nextSsn>>

\* The sender gives up the rest of a message: usrsctp does not say so, the event
\* is not subscribed to.
GivenUp(streamId) ==
    /\ state = "connected"
    /\ current[streamId] # Nothing
    /\ current' = [current EXCEPT ![streamId] = Nothing]
    /\ delivered' = <<>>
    /\ UNCHANGED <<association, messageBuffer, lastSsnReceived, series, sent, nextSsn>>
-----------------------------------------------------------------------------
Next ==
    \/ Run
    \/ \E streams \in 1 .. InitialOs : CommUp(streams) \/ Restart(streams)
    \/ Down
    \/ \E s \in ConsumerStreams : HandleDataConsumer(s) \/ DataConsumerClosed(s)
    \/ \E s \in PeerStreams : DataProducerClosed(s) \/ PeerResets(s) \/ GivenUp(s)
    \/ \E granted \in BOOLEAN : StreamsChanged(granted)
    \/ ResetAnswered
    \/ \E s \in PeerStreams, n \in 1 .. PeerMessageSize, eor \in BOOLEAN :
          \/ \E ordered \in {TRUE, ~PeerUnordered} : NewMessage(s, ordered, n, eor)
          \/ NextPart(s, n, eor)

Spec == Init /\ [][Next]_vars
-----------------------------------------------------------------------------
(***************************************************************************)
(* Properties.                                                             *)
(***************************************************************************)
PeerMessages ==
    {Nothing} \cup [message : 1 .. MaxMessages, ssn : 0 .. MaxMessages - 1,
                    units : 1 .. PeerMessageSize]

\* The types of the fields; neither number of streams passes its limit, however
\* often streams are added.
TypeOK ==
    /\ state \in {"new", "connecting", "connected", "failed", "closed"}
    /\ os \in 1 .. MaxSctpStreams
    /\ desiredOs \in 0 .. MaxSctpStreams
    /\ request \in {"none", "add", "reset"}
    /\ resetPending \subseteq 0 .. MaxSctpStreams - 1
    /\ refused \in BOOLEAN
    /\ lastSsnReceived \in 0 .. MaxMessages
    /\ sent \in 0 .. MaxMessages
    /\ nextSsn \in [PeerStreams -> 0 .. MaxMessages]
    /\ current \in [PeerStreams -> PeerMessages]

\* The buffer of maxSctpMessageSize bytes is never written past its end, whatever
\* parts of whatever messages are put into it.
BufferFits == Len(messageBuffer) <= MaxSctpMessageSize

\* A message whose parts come with nothing in between is put together and
\* delivered as it was sent, unless it is too long, if the part before its first
\* one ended a message that was delivered or had another SSN: what is left of
\* messages given up, too long, or cut off by a reset or a restart does not get
\* into it.  Left out is SSN 0 after a part refused as too long: the rest of that
\* message is then kept under SSN 0, and does get into the next one.
SeriesDelivered ==
    [][(/\ series' # series /\ series'.fresh
        /\ Len(series'.units) <= MaxSctpMessageSize) =>
            series'.units = IF delivered' = <<>> THEN messageBuffer' ELSE delivered']_vars

\* While streams are being added no data consumer makes the association ask for
\* them once more, which usrsctp would refuse.
AskedOnce ==
    [][\A s \in ConsumerStreams :
          HandleDataConsumer(s) /\ request = "add" /\ desiredOs > os =>
            refused' = refused]_vars

\* SctpAssociation.cpp, on SCTP_COMM_UP: "Increase if requested before
\* connected."  Once connected, more streams that are wanted have been asked for.
WantedStreamsRequested ==
    state = "connected" /\ desiredOs > os => request = "add" \/ refused

\* SctpAssociation.hpp: lastSsnReceived is "valid for us since no SCTP I-DATA
\* support", enough to tell the parts of messages apart: what is delivered is one
\* whole message.
WholeMessages ==
    \A i \in 1 .. Len(delivered) :
        delivered[i] = [message |-> delivered[Len(delivered)].message, unit |-> i]
=============================================================================
