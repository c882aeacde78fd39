-------------------------- MODULE WebRtcTransport --------------------------
(***************************************************************************)
(* The connectivity of a WebRtcTransport: ICE (IceServer), DTLS            *)
(* (RTC/DtlsTransport.cpp), the parent RTC/Transport.cpp that tells its    *)
(* consumers whether the transport is connected, the state of its SCTP     *)
(* association, and the TCP connections under the ICE tuples.              *)
(*                                                                         *)
(* The worker runs one event loop: a step is one event (a packet, a timer, *)
(* a closed connection, a request of the application) with every callback  *)
(* it makes before it returns.  A write on a TCP connection whose peer is  *)
(* gone fails at once and closes the connection in the middle of the       *)
(* handler that writes, so the handlers are written as operators from the  *)
(* state before to the state after, composed in the order of the calls.    *)
(*                                                                         *)
(* OpenSSL, usrsctp and the peer are not modelled: what they answer comes  *)
(* with the step, as its parameters.                                       *)
(***************************************************************************)
EXTENDS IceServer

CONSTANTS
    Consumers,      \* ids of Consumers and DataConsumers
    DataConsumers,  \* those that are DataConsumers
    EnableSctp      \* whether the transport was created with SCTP

ASSUME DataConsumersAssumption == DataConsumers \subseteq Consumers
ASSUME EnableSctpAssumption == EnableSctp \in BOOLEAN

VARIABLES
    open,              \* the TCP connections that exist, by address
    broken,            \* those whose peer is gone, the worker not knowing
    iceSelectedTuple,  \* the tuple the transport sends on
    dtlsRole,          \* the role the transport wants to run DTLS in
    connected,         \* the application called connect()
    dtls,              \* the DtlsTransport
    rtcpTimer,         \* the RTCP timer is active
    consumers,         \* "none", or what a consumer was told of the transport
    sctp,              \* the state of the SctpAssociation
    toldSctp,          \* the DataConsumers told that SCTP is connected
    aborted            \* an MS_ASSERT failed: the process is gone

vars == <<ice, open, broken, iceSelectedTuple, dtlsRole, connected, dtls,
          rtcpTimer, consumers, sctp, toldSctp, aborted>>

World ==
    [ice |-> ice, open |-> open, broken |-> broken,
     iceSelectedTuple |-> iceSelectedTuple, dtlsRole |-> dtlsRole,
     connected |-> connected, dtls |-> dtls, rtcpTimer |-> rtcpTimer,
     consumers |-> consumers, sctp |-> sctp, toldSctp |-> toldSctp,
     aborted |-> aborted]

\* The event is over: w is the state it leaves.
Become(w) ==
    /\ ~aborted
    /\ ice' = w.ice
    /\ open' = w.open
    /\ broken' = w.broken
    /\ iceSelectedTuple' = w.iceSelectedTuple
    /\ dtlsRole' = w.dtlsRole
    /\ connected' = w.connected
    /\ dtls' = w.dtls
    /\ rtcpTimer' = w.rtcpTimer
    /\ consumers' = w.consumers
    /\ sctp' = w.sctp
    /\ toldSctp' = w.toldSctp
    /\ aborted' = w.aborted

\* What the code under the transport answers during a step comes as parameters:
\*   read      the state once OpenSSL has read data and sent what it has to send,
\*   verified  the certificate matches the fingerprint and there is an SRTP
\*             profile,
\*   timeout   the timeout OpenSSL asks for,
\*   sctpOk    the usrsctp calls succeed,
\*   what      the notification of usrsctp.
Timeouts == {"none", "short", "long"}
-----------------------------------------------------------------------------
(***************************************************************************)
(* Transport: what it tells its consumers.                                 *)
(***************************************************************************)
IsConnected(w) == w.iceSelectedTuple # NoTuple /\ w.dtls.state = "connected"

Existing(w) == {c \in Consumers : w.consumers[c] # "none"}

\* TransportConnected() or TransportDisconnected() on every consumer.
TellConsumers(w, what) ==
    [w EXCEPT !.consumers =
        [c \in Consumers |-> IF w.consumers[c] = "none" THEN "none" ELSE what]]

Disconnected(w) ==
    [TellConsumers(w, "disconnected") EXCEPT !.rtcpTimer = FALSE]
-----------------------------------------------------------------------------
(***************************************************************************)
(* Sending on a tuple, and the TCP connections.                            *)
(***************************************************************************)
\* Faulty: leaves the pointer of the transport alone when ICE disconnects.
TupleRemoved_KeepsPointer(w, t) ==
    LET removed == RemoveTuple(w.ice, t)
        w1 == [w EXCEPT !.ice = removed]
    IN  IF IceUp(w.ice) /\ ~IceUp(removed) THEN Disconnected(w1)
        ELSE [w1 EXCEPT !.iceSelectedTuple = removed.selected]

\* IceServer::RemoveTuple() with the callbacks OnIceServerSelectedTuple() and
\* OnIceServerDisconnected().
TupleRemoved(w, t) ==
    LET removed == RemoveTuple(w.ice, t)
        disconnects == IceUp(w.ice) /\ ~IceUp(removed)
        w1 == [w EXCEPT !.ice = removed,
                        !.iceSelectedTuple = IF removed.selected # w.ice.selected
                                             THEN removed.selected ELSE @]
    IN  IF disconnects THEN Disconnected(w1) ELSE w1

\* Faulty: a deleted connection can still report an error.
ConnectionClosed_Reports(w, c) == TupleRemoved([w EXCEPT !.open = @ \ {c}], c)

\* TcpServer::OnTcpConnectionClosed(): the connection object is deleted.
ConnectionClosed(w, c) ==
    TupleRemoved([w EXCEPT !.open = @ \ {c}, !.broken = @ \ {c}], c)

\* A failed TCP write closes the connection.  A write on a connection that was
\* deleted finds it closed and does nothing.
SendOn(w, t) == IF t \in w.broken THEN ConnectionClosed(w, t) ELSE w

\* OnDtlsTransportSendData(), and SendRtpPacket() and SendRtcpPacket().
SendOnSelected(w) ==
    IF w.iceSelectedTuple = NoTuple THEN w ELSE SendOn(w, w.iceSelectedTuple)
-----------------------------------------------------------------------------
(***************************************************************************)
(* Transport::Connected() and SctpAssociation::Run().                      *)
(***************************************************************************)
\* Run() sends an SCTP INIT through DTLS, which is connected by then.
RunSctp(w, sctpOk) ==
    IF w.sctp # "new" THEN [w EXCEPT !.aborted = TRUE]
    ELSE IF sctpOk THEN [SendOnSelected(w) EXCEPT !.sctp = "connecting"]
    ELSE [w EXCEPT !.sctp = "failed", !.toldSctp = {}]

Connected(w, sctpOk) ==
    LET told == [TellConsumers(w, "connected") EXCEPT !.rtcpTimer = TRUE]
    IN  IF EnableSctp THEN RunSctp(told, sctpOk) ELSE told
-----------------------------------------------------------------------------
(***************************************************************************)
(* DtlsTransport.                                                          *)
(***************************************************************************)
IsRunning(d) == d.state \in {"connecting", "connected"}

\* Faulty: leaves the timer running.
Reset_KeepsTimer(d) ==
    IF IsRunning(d)
    THEN [d EXCEPT !.state = "new", !.localRole = "none", !.handshakeDone = FALSE]
    ELSE d

Reset(d) ==
    IF IsRunning(d)
    THEN [d EXCEPT !.state = "new", !.localRole = "none",
                   !.handshakeDone = FALSE, !.timer = FALSE]
    ELSE d

DtlsFailed(w) == [w EXCEPT !.dtls = [Reset(w.dtls) EXCEPT !.state = "failed"]]

DtlsClosed(w) ==
    Disconnected([w EXCEPT !.dtls = [Reset(w.dtls) EXCEPT !.state = "closed"]])

\* A timeout of half a minute or more gives the handshake up.
SetTimeout(w, timeout) ==
    CASE ~IsRunning(w.dtls) -> [w EXCEPT !.aborted = TRUE]
      [] IsRunning(w.dtls) /\ timeout = "none" -> w
      [] IsRunning(w.dtls) /\ timeout = "short" -> [w EXCEPT !.dtls.timer = TRUE]
      [] IsRunning(w.dtls) /\ timeout = "long" -> DtlsFailed(w)

\* The handshake is done and the remote fingerprint is known.
ProcessHandshake(w, verified, sctpOk) ==
    IF verified THEN Connected([w EXCEPT !.dtls.state = "connected"], sctpOk)
                ELSE DtlsFailed(w)

\* The client sends its first flight at once.
Run(w, role) ==
    LET started == [w EXCEPT !.dtls = [Reset(w.dtls) EXCEPT
                                          !.localRole = role,
                                          !.state = "connecting"]]
    IN  IF w.dtls.localRole = role THEN w
        ELSE IF role = "server" THEN started
        ELSE SetTimeout(SendOnSelected(started), "short")

\* Faulty: never changes the role of a running DTLS.
MayRunDtlsTransport_OnlyIdle(w) ==
    LET role == IF w.dtlsRole = "auto" THEN "server" ELSE w.dtlsRole
    IN  IF w.dtls.localRole = "none" /\ IceUp(w.ice)
        THEN Run([w EXCEPT !.dtlsRole = role], role)
        ELSE w

\* WebRtcTransport::MayRunDtlsTransport(): before connect() the role is "auto"
\* and the first ICE tuple makes it "server".
MayRunDtlsTransport(w) ==
    LET role == IF w.dtlsRole = "auto" THEN "server" ELSE w.dtlsRole
    IN  IF w.dtls.localRole # w.dtlsRole /\ IceUp(w.ice)
        THEN Run([w EXCEPT !.dtlsRole = role], role)
        ELSE w

\* Notifications of usrsctp.
SctpNotified(w, what) ==
    CASE what = "up" ->
            [w EXCEPT !.sctp = "connected", !.toldSctp = Existing(w) \cap DataConsumers]
      [] what \in {"closed", "failed"} ->
            [w EXCEPT !.sctp = what, !.toldSctp = {}]

\* What usrsctp may notify in this state.
SctpNotifications(w) ==
    CASE w.sctp = "connecting" -> {"up", "closed", "failed"}
      [] w.sctp = "connected" -> {"closed"}
      [] OTHER -> {}
-----------------------------------------------------------------------------
Init ==
    /\ IceInit
    /\ open = {}
    /\ broken = {}
    /\ iceSelectedTuple = NoTuple
    /\ dtlsRole = "auto"
    /\ connected = FALSE
    /\ dtls = [state |-> "new", localRole |-> "none", handshakeDone |-> FALSE,
               timer |-> FALSE, fingerprint |-> FALSE]
    /\ rtcpTimer = FALSE
    /\ consumers = [c \in Consumers |-> "none"]
    /\ sctp = "new"
    /\ toldSctp = {}
    /\ aborted = FALSE
-----------------------------------------------------------------------------
(***************************************************************************)
(* Requests of the application.                                            *)
(***************************************************************************)
\* TRANSPORT_CONNECT; a second one is refused.
Connect(remoteRole, verified, sctpOk) ==
    LET w == [World EXCEPT !.connected = TRUE, !.dtls.fingerprint = TRUE,
                           !.dtlsRole = IF remoteRole = "client"
                                        THEN "server" ELSE "client"]
        handshaken == dtls.handshakeDone /\ dtls.state # "connected"
        processed == IF handshaken THEN ProcessHandshake(w, verified, sctpOk)
                     ELSE w
    IN  /\ ~connected
        /\ Become(IF handshaken /\ ~verified THEN processed
                  ELSE MayRunDtlsTransport(processed))

\* TRANSPORT_RESTART_ICE.
RestartIceRequest ==
    /\ ice.credential < MaxCredential
    /\ Become([World EXCEPT !.ice = RestartCredentials(ice)])

\* Faulty: a DataConsumer learns of the association only from its next change.
Consume_NoSctp(c) ==
    /\ consumers[c] = "none"
    /\ c \in DataConsumers => EnableSctp
    /\ Become([World EXCEPT
          !.consumers[c] = IF IsConnected(World) THEN "connected" ELSE "disconnected"])

\* TRANSPORT_CONSUME and TRANSPORT_CONSUME_DATA.
Consume(c) ==
    /\ consumers[c] = "none"
    /\ c \in DataConsumers => EnableSctp
    /\ Become([World EXCEPT
          !.consumers[c] = IF IsConnected(World) THEN "connected" ELSE "disconnected",
          !.toldSctp = IF c \in DataConsumers /\ sctp = "connected"
                       THEN @ \cup {c} ELSE @])

\* CONSUMER_CLOSE and DATA_CONSUMER_CLOSE, or their producer is closed.
CloseConsumer(c) ==
    /\ consumers[c] # "none"
    /\ Become([World EXCEPT !.consumers[c] = "none", !.toldSctp = @ \ {c}])
-----------------------------------------------------------------------------
(***************************************************************************)
(* Packets.                                                                *)
(***************************************************************************)
Receives(t) == t \in TcpTuples => t \in open

\* A STUN Binding Request, answered before its tuple is handled.
StunRequest(t, key, useCandidate) ==
    LET replied == SendOn([World EXCEPT !.ice = Authenticate(ice, key)], t)
        handled == HandleTuple(replied.ice, t, useCandidate)
        w == [replied EXCEPT !.ice = handled,
                             !.iceSelectedTuple =
                                IF handled.selected # replied.ice.selected
                                THEN handled.selected ELSE @]
    IN  /\ Receives(t)
        /\ Become(IF ~Accepts(ice, key) THEN replied
                  ELSE IF handled.state # replied.ice.state
                  THEN MayRunDtlsTransport(w) ELSE w)

\* DTLS data is taken from valid tuples only.
DtlsSources == {t \in Tuples : Receives(t) /\ HasTuple(ice, t)}

\* It selects its tuple.
DtlsInput(t) ==
    [World EXCEPT !.ice = ForceSelectedTuple(ice, t),
                  !.iceSelectedTuple = IF t # ice.selected THEN t ELSE @]

\* A DTLS that runs has OpenSSL read the data, which may have something to send.
DtlsRead(t) ==
    {DtlsInput(t)} \cup (IF IsRunning(dtls) THEN {SendOnSelected(DtlsInput(t))} ELSE {})

\* Data that neither ends the handshake nor the session nor makes usrsctp notify
\* anything.  The timer is set for all data, also once the handshake is done.
DtlsProgress(read, timeout) ==
    Become(IF IsRunning(dtls) THEN SetTimeout(read, timeout) ELSE read)

\* OpenSSL has reported the end of the handshake.
Handshaken(read) ==
    [read EXCEPT !.dtls.handshakeDone = TRUE, !.dtls.timer = FALSE]

\* Faulty: does not wait for the remote fingerprint.
DtlsHandshakeDone_NoFingerprint(read, verified, sctpOk, timeout) ==
    LET w == ProcessHandshake(Handshaken(read), verified, sctpOk)
    IN  /\ IsRunning(dtls)
        /\ ~dtls.handshakeDone
        /\ Become(IF verified THEN SetTimeout(w, timeout) ELSE w)

\* The data completes the handshake.  Unless the certificate is refused the
\* timer, just stopped, is set again when OpenSSL still has a timeout.
DtlsHandshakeDone(read, verified, sctpOk, timeout) ==
    LET done == Handshaken(read)
        w == IF dtls.fingerprint THEN ProcessHandshake(done, verified, sctpOk) ELSE done
    IN  /\ IsRunning(dtls)
        /\ ~dtls.handshakeDone
        /\ Become(IF dtls.fingerprint /\ ~verified THEN w ELSE SetTimeout(w, timeout))

\* A close alert or a fatal error.
DtlsShutdown(read) ==
    /\ IsRunning(dtls)
    /\ Become(IF dtls.state = "connected" THEN DtlsClosed(read) ELSE DtlsFailed(read))

\* Application data, which is SCTP, and what usrsctp makes of it; lost when the
\* timeout gives DTLS up.
DtlsApplicationData(read, timeout, what) ==
    LET w == SetTimeout(read, timeout)
    IN  /\ IsRunning(dtls)
        /\ dtls.handshakeDone
        /\ EnableSctp
        /\ what \in SctpNotifications(World)
        /\ Become(IF IsRunning(w.dtls) THEN SctpNotified(w, what) ELSE w)

\* RTP or RTCP leaves for the peer, on behalf of a consumer or a producer.
SendMedia ==
    /\ IsConnected(World)
    /\ Become(SendOnSelected(World))
-----------------------------------------------------------------------------
(***************************************************************************)
(* Timers and TCP connections.                                             *)
(***************************************************************************)
\* Nothing is done when the handshake ended before the timer fired.
DtlsTimer(timeout) ==
    LET w == [World EXCEPT !.dtls.timer = FALSE]
    IN  /\ dtls.timer
        /\ Become(IF dtls.handshakeDone THEN w
                  ELSE SetTimeout(SendOnSelected(w), timeout))

\* The timer sends the reports and starts itself again.
RtcpTimer ==
    LET w == [World EXCEPT !.rtcpTimer = FALSE]
    IN  /\ rtcpTimer
        /\ Become([(IF IsConnected(World) THEN SendOnSelected(w) ELSE w)
                      EXCEPT !.rtcpTimer = TRUE])

\* usrsctp gives the association up.
SctpTimer(what) ==
    /\ what \in SctpNotifications(World) \ {"up"}
    /\ Become(SctpNotified(World, what))

TcpAccept(c) ==
    /\ c \notin open
    /\ Become([World EXCEPT !.open = @ \cup {c}])

\* The peer resets the connection; the worker learns it from its next write
\* or from its next read, whichever comes first.
TcpPeerGone(c) ==
    /\ c \in open \ broken
    /\ Become([World EXCEPT !.broken = @ \cup {c}])

\* The read callback reports the end of the connection.
TcpReadClosed(c) ==
    /\ c \in open
    /\ Become(ConnectionClosed(World, c))

\* MS_ABORT() ended the process.
Gone == aborted /\ UNCHANGED vars
-----------------------------------------------------------------------------
Next ==
    \/ \E role \in {"client", "server", "auto"}, verified, sctpOk \in BOOLEAN :
          Connect(role, verified, sctpOk)
    \/ RestartIceRequest
    \/ \E c \in Consumers : Consume(c) \/ CloseConsumer(c)
    \/ \E t \in Tuples, key \in Credentials, useCandidate \in BOOLEAN :
          StunRequest(t, key, useCandidate)
    \/ \E t \in DtlsSources : \E read \in DtlsRead(t) :
          \/ \E timeout \in Timeouts :
                \/ DtlsProgress(read, timeout)
                \/ \E verified, sctpOk \in BOOLEAN :
                      DtlsHandshakeDone(read, verified, sctpOk, timeout)
                \/ \E what \in {"up", "closed", "failed"} :
                      DtlsApplicationData(read, timeout, what)
          \/ DtlsShutdown(read)
    \/ SendMedia
    \/ \E timeout \in Timeouts : DtlsTimer(timeout)
    \/ RtcpTimer
    \/ \E what \in {"closed", "failed"} : SctpTimer(what)
    \/ \E c \in TcpTuples : TcpAccept(c) \/ TcpPeerGone(c) \/ TcpReadClosed(c)
    \/ Gone

Spec == Init /\ [][Next]_vars
-----------------------------------------------------------------------------
(***************************************************************************)
(* Properties.                                                             *)
(***************************************************************************)
DtlsStates == {"new", "connecting", "connected", "failed", "closed"}
SctpStates == {"new", "connecting", "connected", "failed", "closed"}

DtlsRecords ==
    [state : DtlsStates, localRole : {"none", "client", "server"},
     handshakeDone : BOOLEAN, timer : BOOLEAN, fingerprint : BOOLEAN]

\* The types of the transport's fields.
TypeOK ==
    /\ IceTypeOK
    /\ open \subseteq TcpTuples
    /\ broken \subseteq open
    /\ iceSelectedTuple \in Tuples \cup {NoTuple}
    /\ dtlsRole \in {"auto", "client", "server"}
    /\ connected \in BOOLEAN
    /\ dtls \in DtlsRecords
    /\ rtcpTimer \in BOOLEAN
    /\ consumers \in [Consumers -> {"none", "disconnected", "connected"}]
    /\ sctp \in SctpStates
    /\ toldSctp \subseteq DataConsumers
    /\ aborted \in BOOLEAN

\* The transport sends on the tuple the ICE server selected, after any order of
\* callbacks, failed writes inside a handler included: iceSelectedTuple never
\* dangles into a tuple the server has erased.
SelectedTupleAgrees == iceSelectedTuple = ice.selected

\* DTLS is connected, and with it media may flow, only after the application
\* gave the remote fingerprint and the handshake was done, in whatever order
\* the two came.
ConnectedOnlyVerified ==
    dtls.state = "connected" =>
        connected /\ dtls.fingerprint /\ dtls.handshakeDone

\* While ICE is up a running DTLS has the role the transport wants, also when
\* connect() changed the role of a handshake already on its way.
RunsInWantedRole ==
    IsRunning(dtls) /\ IceUp(ice) => dtls.localRole = dtlsRole

\* A DTLS that failed, was closed or was reset for another role leaves no timer
\* active, although every datum may set it, the one that ends the handshake and
\* those after it included.  When the timer fires the assertion of SetTimeout(),
\* "invalid DTLS state", then holds.
DtlsTimerOfRunning == dtls.timer => IsRunning(dtls)

\* The DataConsumers that believe SCTP connected are all those that exist while
\* the association is connected, and none otherwise, whether they were created
\* before or after it connected.
SctpAwareness ==
    toldSctp = IF sctp = "connected" THEN Existing(World) \cap DataConsumers ELSE {}
-----------------------------------------------------------------------------
(***************************************************************************)
(* What the code says of itself and does not keep.                         *)
(***************************************************************************)
\* include/RTC/Consumer.hpp: "The parent Consumer just checks whether Consumer
\* and Producer are not paused and the transport connected."  A consumer of a
\* connected transport, on a connection that exists, should believe it connected.
ConsumersKnowConnected ==
    IsConnected(World) /\ Receives(iceSelectedTuple) =>
        \A c \in Consumers : consumers[c] # "disconnected"

\* The same, the other way: a consumer believes the transport connected only
\* while it is.
ConsumersKnowDisconnected ==
    ~IsConnected(World) => \A c \in Consumers : consumers[c] # "connected"

\* SctpAssociation::Run() asserts that it is in its "new" state.
SctpRunsOnce == ~aborted

\* include/RTC/IceServer.hpp: "These callbacks are guaranteed to be called
\* before ProcessStunPacket() returns, so the given pointers are still usable."
\* The TCP connection of a stored tuple should then exist.
StoredTuplesUsable ==
    \A t \in Stored(ice) : t \in TcpTuples => t \in open
=============================================================================
