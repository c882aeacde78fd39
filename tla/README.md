# The mediasoup worker in TLA+

The C++ worker (`src/`, `include/`) is a single-threaded process: libuv runs one
event loop, and everything happens inside the callbacks of that loop - a request
read from the channel, a UDP datagram, data on a TCP connection, a timer. There
is no concurrency inside a callback, but a callback calls through many layers,
and those layers call back; the hard part of this program is the *order* of
events and of the callbacks within one event, and the raw pointers between
entities that are deleted at any time.

## 1. The system

| component | source | state it keeps | operations | talks to |
|---|---|---|---|---|
| Worker | `Worker.cpp` | routers by id | create and close routers, dispatch requests | Channel, Router |
| Channel | `Channel/*`, `handles/UnixStreamSocket.cpp` | receive buffer, message boundaries | read netstrings, answer requests, notify | Worker |
| Router | `RTC/Router.cpp` | transports, observers, six maps of pointers between producers, consumers and observers | create and close entities, relay packets, pauses, scores | Transport, RtpObserver |
| Transport | `RTC/Transport.cpp`, `RTC/RtpListener.cpp`, `RTC/SctpListener.cpp` | its producers and consumers, the listener tables, RTCP timer | produce, consume, connected/disconnected, close | Router, Producer, Consumer, SctpAssociation |
| WebRtcTransport | `RTC/WebRtcTransport.cpp` | selected tuple, DTLS role, connect() done | connect, restart ICE, packets from sockets | IceServer, DtlsTransport, sockets |
| IceServer | `RTC/IceServer.cpp` | state, list of valid tuples, selected tuple, new and old credentials | STUN requests, remove tuple, force tuple, restart | WebRtcTransport |
| DtlsTransport | `RTC/DtlsTransport.cpp` | state, role, handshake done, fingerprint, timer | run, process data, set fingerprint, timeout, reset | WebRtcTransport, OpenSSL |
| SctpAssociation | `RTC/SctpAssociation.cpp` | state, streams, reassembly buffer | run, notifications, messages | Transport, usrsctp |
| Producer | `RTC/Producer.cpp` | streams by SSRC, paused, key frame manager | receive RTP, pause, resume, request key frame | Transport, RtpStreamRecv |
| KeyFrameRequestManager | `RTC/KeyFrameRequestManager.cpp` | pending requests with a timer and a retry flag | needed, forced, received, timeout | Producer |
| RtpStreamRecv | `RTC/RtpStreamRecv.cpp`, `RTC/RtpStream.cpp` | highest sequence number and cycles, bad sequence number, score, inactivity | receive, RTX, pause, scores | Producer, NackGenerator |
| NackGenerator | `RTC/NackGenerator.cpp` | last number, list of missing packets, last key frame, timer | receive packet, timer, reset | RtpStreamRecv |
| Consumers | `RTC/{Simple,Simulcast,Svc,Pipe}Consumer.cpp`, `RTC/Consumer.cpp` | transport connected, producer paused, current and target layers, SeqManager | packets, layers, scores, pause | Transport, RtpStreamSend |
| SeqManager | `RTC/SeqManager.cpp` | base, highest input and output, dropped numbers | sync, drop, input | Consumers |
| RtpStreamSend | `RTC/RtpStreamSend.cpp` | circular retransmission buffer | send, NACK, RTX | Consumers |
| AudioLevelObserver | `RTC/AudioLevelObserver.cpp` | volumes by producer, silence, timer | add, remove, packets, update | Router |
| TCP and UDP | `handles/*`, `RTC/TcpConnection.cpp`, `RTC/TcpServer.cpp`, `RTC/UdpSocket.cpp`, `RTC/PortManager.cpp` | connections, framing buffer, ports in use | accept, read, write, close | WebRtcTransport |
| Rates | `RTC/RateCalculator.cpp`, `RTC/RembClient.cpp`, `RTC/RembServer/*` | windows of samples, estimates | packets, reports | Transport |
| Formats, SRTP, codecs, settings | `RTC/RTCP/*`, `RTC/RtpDictionaries/*`, `RTC/Codecs/*`, `RTC/SrtpSession.cpp`, `Utils/*` | little or none | parse, serialise, encrypt | all |

**What is hard, and what makes each part correct.**

* *ICE, DTLS, SCTP and the transport* are four state machines that see the same
  network in different orders. ICE may lose its last tuple while DTLS stays
  connected, `connect()` may come before, during or after the handshake, a write
  on a dead TCP connection closes it in the middle of the handler that writes.
  Correct means: the pointers to the selected tuple agree, nothing is connected
  unverified, timers run only where their handlers may, and consumers know
  whether the transport is connected.
* *The router* relates everything with maps of raw pointers, in which a closed
  entity must not survive in whatever order entities are closed. Correct means:
  the maps are exact, their assertions hold, and what entities know of each other
  (paused or not) agrees.
* *Key frame requests* race timeouts, late answers, pauses and new consumers.
  Correct means: no need is forgotten, no peer is flooded.
* *Lists of sequence numbers* (NACK, renumbering, retransmission) live on 16-bit
  numbers that wrap, with losses, reordering and duplicates. Correct means: the
  list is exactly what is missing; the numbers sent are contiguous; a NACK is
  answered with a packet of the number it asks for, and never with an old one (the
  code fails the last: section 2).
* *SCTP messages* of several streams are put together in one buffer, told apart
  by the last SSN only, and outgoing streams are added by a protocol that has one
  request in flight. Correct means: the buffer never overflows, what remains of an
  abandoned message never gets into the next, streams are asked for once.
* *A simulcast consumer* shows one of several streams and switches on key frames
  that come whenever they come, while streams die, scores change and the bitrate
  is handed around. Correct means: it aims at the layers it should, gets there,
  and what it sends is one stream with one timeline.

`PROJECT.json` lists all of these hazards at the line where they bite.

## 2. The modules

| module | models | checked by | proved in |
|---|---|---|---|
| `IceServer` | `IceServer.cpp` | `MCWebRtcTransport` | `WebRtcTransport_proofs` |
| `WebRtcTransport` (extends `IceServer`) | `WebRtcTransport.cpp`, `DtlsTransport.cpp`, the life cycle of `SctpAssociation.cpp`, `Transport::Connected/Disconnected`, the TCP connections under the tuples | `MCWebRtcTransport` | `WebRtcTransport_proofs` |
| `Router` | `Router.cpp`, `RtpListener.cpp`, `SctpListener.cpp`, the requests of `Transport.cpp`, the table of `AudioLevelObserver.cpp` | `MCRouter` | `Router_proofs` |
| `KeyFrameRequestManager` | `KeyFrameRequestManager.cpp` and its caller `Producer.cpp` | `MCProducer` | `Producer_proofs` |
| `Producer` (extends `KeyFrameRequestManager`) | the inactivity of the producer's streams (`RtpStreamRecv.cpp`), pauses of both | `MCProducer` | `Producer_proofs` |
| `SeqNumbers` | the order of wrapped sequence numbers | through the next four | |
| `NackGenerator` | `NackGenerator.cpp` | `MCRtpStreamRecv` | `RtpStreamRecv_proofs` |
| `RtpStreamRecv` (extends `NackGenerator`) | `RtpStream::UpdateSeq`, the received stream that owns the generator | `MCRtpStreamRecv` | `RtpStreamRecv_proofs` |
| `SeqManager` | `SeqManager.cpp`, as the consumers use it | `MCSeqManager` | `SeqManager_proofs` |
| `RtpStreamSend` | the retransmission buffer, NACKs and RTX of `RtpStreamSend.cpp` | `MCRtpStreamSend` | `RtpStreamSend_proofs` |
| `RetransmissionCache` | the abstract specification that `RtpStreamSend` implements | `MCRtpStreamSend` | `RtpStreamSend_proofs` |
| `SctpAssociation` | `SctpAssociation.cpp`: streams, resets, reassembly | `MCSctpAssociation` | `SctpAssociation_proofs` |
| `SimulcastLayers` | how `SimulcastConsumer.cpp` chooses layers (pure operators) | `MCSimulcastConsumer` | `SimulcastConsumer_proofs` |
| `SimulcastConsumer` (extends `SimulcastLayers`) | `SimulcastConsumer.cpp` on `Consumer.cpp` | `MCSimulcastConsumer` | `SimulcastConsumer_proofs` |

Conventions. One step is one event of the loop with all its callbacks. Where a
handler calls into layers that change state in the middle of it
(`WebRtcTransport`), the handlers are operators from a record of the state to the
next, composed in the order of the calls, and the action assigns the result.
Variables carry the names of the fields; variables that are not in the code and
serve the properties only are grouped under a comment that says so. Operators
marked `Faulty:` are deliberately wrong variants of the operator that follows
them, each breaking one property; they are in no specification.

Some modules end with statements that a comment or an assertion of the code makes
and the code does not keep. Four of them are checked by runs that show the
violation (section 3). The others are stated and commented in the modules but in
no run; putting one into a configuration of its module shows how it fails:
`ConsumersKnowDisconnected`, `SctpRunsOnce` and `StoredTuplesUsable`
(`WebRtcTransport`), `DroppedCounted` and `DroppedStay` (`SeqManager`, with
`Droppable` before the wrap and with `Repeats = TRUE`, checked on the module itself
because `MCSeqManager` assumes the opposite), `AnswersAreRecent` and
`FullBufferGivesUpOldest` (`RtpStreamSend`), `WholeMessages` (`SctpAssociation`) and
`AlwaysLater` (`SimulcastConsumer`).

### IceServer

`ice` is a record of the fields of the class. The list of tuples is a sequence
(its order decides who succeeds a removed selected tuple). `ProcessStunPacket` is
the whole handler: authentication with new and old credentials (`Authenticate`
retires the old ones at the first request with the new), the response signed with
the credentials of the request, and `HandleTuple` with all its cases. The
assertions of `HandleTuple` are `HandleTupleAsserts`. Credentials are numbered by
the restart that made them. Whether a STUN message parses, and the response to
malformed ones, are left out: such messages change nothing.

### WebRtcTransport

State: `ice`, the transport's own pointer `iceSelectedTuple`, the DTLS record
(state, role, handshake done, timer, fingerprint known), `rtcpTimer`, what each
consumer was last told, `sctp`, which DataConsumers were told SCTP is connected,
and the TCP connections (`open`, and `broken`: the peer is gone and the worker
does not know). OpenSSL, usrsctp and the peer answer arbitrarily: their answers
are parameters of the steps. That includes the timeout OpenSSL reports: the worker
sets its timer for it after every datum, also after the one that ends the handshake
and those that follow, and a timer that fires then does nothing. A TCP connection is named by the address of its
object, so that it may be accepted again after it was deleted; a write through a
pointer to a deleted one is modelled as doing nothing (in the program it is a use
after free: `StoredTuplesUsable` says that no stored tuple is such a pointer, and
does not hold). SRTP sessions, bitrates and closing the transport are left out.

### Router

A producer or consumer is the pair of its transport and its id: ids are unique per
transport, and the router has to make producer ids unique. `DataProducers` and
`DataConsumers` share the code's structure and are ids in the same sets; SSRCs,
MIDs and SCTP stream ids are keys of one listener table per transport. The
assertions and the `map::at()` calls of the code are collected in `failed`.
Left out: RIDs, the pause flag of consumers, and closing a whole router, which
deletes every entity without calling any of these handlers. Adding a paused
producer to an observer enters it into the observer's table; the code does that
too, and no packet of a paused producer reaches the observer.

### KeyFrameRequestManager and Producer

`pending` maps a stream to the flag `retryOnTimeout`; a pending entry has its timer
running. `unmet`, `repeats`, `waiting` and `givenUp` are for the properties. A
consumer that asks for a key frame while it is being told that the stream has
appeared needs no step of its own: the request has just been sent or the packet at
hand is the key frame, and the code returns early. `Producer` adds which streams
are inactive and whose inactivity timer runs: a packet, a pause and a resume touch
both the requests and the timers in one step.

### NackGenerator and RtpStreamRecv

Sequence numbers have a small modulus; `SeqLowerThan` and `SeqHigherThan` are the
comparisons of the code, with its integer promotions where they matter:
`lastSeq + 1` is an `int`, so that 0 after 65535 is not "the expected packet".
`missing` and `excused` say which packets were skipped and which of them the code
has a documented reason to give up. Time passes in ticks of which the timer counts
`TimerInterval`; rtt is the default or, after a reset, 0: this code updates it
nowhere. `RtpStreamRecv` decides which packets get there: in order, late, or the
second of two that are far off, which resynchronises the stream; the code extends
the numbers by cycles, which only the statistics use, and these, scores and jitter
are left out.

### SeqManager

`Expected` is the number each packet of a renumbered stream should have. Packets of
the time before the last `Sync()` that come late are left out (the code renumbers
them into numbers already used); a duplicate of a sent packet is sent again with
the same number.

### RtpStreamSend and RetransmissionCache

`buffer` maps every sequence number to a storage item or to nothing, as the array
of pointers does; `bufferStartIdx` and `bufferSize` are those of the code. A packet
is its index in the stream, so that the model knows packets of different cycles
apart although they share a slot; the code sees the wrapped number and the
timestamp. From the timestamp it computes the age of a stored packet, in 32 bits:
the product with 1000 overflows (every 47.7 s at 90 kHz), so that `Age` counts
modulo `AgeModulus` and a packet of an earlier cycle may pass for a recent one
(`AnswersAreRecent` states otherwise). A NACK has one item; RTX encoding of a stored packet is modelled, since
it changes the packet in place. Sending a packet may fail in the middle of an
answer and disconnect the transport, which clears the buffer under the loop; what
follows is undefined and the model ends in `crashed`.

`RetransmissionCache` says what all this is for, without slots: a set of at most
`StorageSize` packets of different sequence numbers, from which packets leave only
for one with their number, for lack of room or all at once, and of which none is
resent twice within an RTT. `RtpStreamSend` maps to it by `Stored` (the packets of
the slots in use) and `Resent`.

### SctpAssociation

usrsctp is external and answers as it may: it hands over parts of messages, in
order within a message and in any order between streams; it may never hand over
the rest of a message; it has one request for streams in flight. A message is a
number, its bytes a few units. `series` is, for the properties, the last parts that
came of one message with nothing in between, and what became of the last of them.
`SeriesDelivered` says that such a message is delivered as it was sent when it can
be told from what came before (`Apart`): the part before ended a message that was
delivered, or had another SSN. That one exception remains is the code's doing: of a
message that is too long the last SSN is forgotten but the rest is kept, as if it had
SSN 0, and gets into a message with SSN 0 that follows.

### SimulcastLayers and SimulcastConsumer

`RecalculateTargetLayers`, `UseAvailableBitrate` and `IncreaseLayer` are pure
operators on the scores, Sender Reports and bitrates of the streams. The module on
top has the handlers: streams that appear and die, scores, first and later Sender
Reports, pauses of consumer and producer, connections, preferences, the transport
that takes over the bitrate, and `SendRtpPacket` with the switch at a key frame,
the offset of timestamps computed from the reports, the extra offset that keeps
them growing and its removal, and the temporal filter of VP8 with its clamp to the
target and without effect on pictures that come late. A packet has a capture time;
its timestamp is that of its stream's clock and wraps. The code compares timestamps
in two ways, and so does the model: the highest one sent is updated with regard to
the wrap (`ReceivePacket`), but whether an extra offset is needed is decided by the
plain numbers (`SyncExtraOffsets`, `ExtraOffsets`). Sequence numbers are
left to `SeqManager` and the retries of key frame requests to `Producer`.

## 3. The runs

| run | instance | shows |
|---|---|---|
| `webrtc_transport` | 1 UDP and 2 TCP tuples (the TCP ones symmetric), 2 restarts, a DataConsumer, SCTP | Both pointers to the selected tuple agree and the assertions of the ICE server hold in every order, failed writes inside handlers included; nothing is connected before fingerprint and handshake; DTLS runs in the wanted role while ICE is up; its timer, set for every datum and not only in handshakes, never outlives the DTLS it is for; DataConsumers know the SCTP state; retired credentials stay retired. |
| `router` | 2 transports, an audio, a video and a data producer, 2 consumer ids on either transport, 1 observer, 4 keys | All maps are exact, every assertion and `at()` succeeds, listeners lead to living producers, consumers know whether their producer is paused, observers are ready for every packet they may get. |
| `producer` | 3 streams | No need for a key frame is forgotten and every one is eventually met; every active stream of an active producer is watched. |
| `rtp_stream_recv` | modulus 14, age 4, list of 2, 2 tries, dropout 4, misorder 3 | The list is exactly the recent missing packets without those given up for a reason, never exceeds its limit, no assertion fails, and every item eventually leaves. |
| `seq_manager` | modulus 32, 12 packets from 28, up to 2 lost in a row or late, drops after the wrap | In the range where the code counts drops right (below), numbers sent are contiguous and distinct. |
| `rtp_stream_send` | modulus 6, 3 storage items, NACKs of 2, 9 packets, RTX, packets resent up to an age of 2 which overflows at 5 | Slots and items stay paired, a slot holds a packet with its number, packets in order keep the start at the oldest, and the buffer implements `RetransmissionCache`. |
| `sctp_association` | at most 3 streams, added up to 2 at a time; 3 messages of up to 3 units on 2 streams, ordered or not, where 2 units fit | The buffer never overflows, a message whose parts come in a row is delivered whole if it can be told from what came before, streams are asked for once. |
| `simulcast_consumer` | 2 spatial and 2 temporal layers, scores dead, bad and good, reports off by one, two bitrate tables, two-bit timestamps that wrap between two capture times | The consumer aims at the layers it would choose now, at none when idle, never at a dead stream; it gets there; every switch starts with a key frame, later than all that was sent unless the timestamps wrapped in between, with timestamps right but for the error of the reports. |
| `webrtc_reconnect` | 1 UDP and 1 TCP tuple | *Violated.* ICE disconnects and connects again while DTLS stays up: nobody calls `Transport::Connected()` again, consumers stay inactive and the RTCP timer stopped. |
| `sctp_streams` | streams wanted before the association connects | *Violated.* On `SCTP_COMM_UP` the streams wanted are asked for before the state is "connected", so the call defers them once more and for good. |
| `recv_resync` | that of `rtp_stream_recv` | *Violated.* A stream that resynchronises to lower numbers does not reset its NackGenerator, which takes all packets for old ones. |
| `simulcast_reports` | that of `simulcast_consumer` | *Violated.* A first Sender Report that makes a better layer switchable is ignored while no layer is current. |

**Why these bounds are enough.** A selected tuple can be lost, succeeded, and
lost again with three tuples; two kinds of tuple are all the code distinguishes.
Credentials matter in three generations (current, old, retired), which two
restarts make. With two transports a consumer can be on its producer's transport
or on the other, which is all that closing distinguishes; two ids on one transport,
or one id on two, exercise the uniqueness checks. Three streams have more than any
pairwise interaction of `Producer`, which never relates two streams. The
limits of `NackGenerator` and `RtpStreamRecv` are shrunk together, keeping their
order (list < age < half of the numbers, and gaps that exceed the list but are
accepted), so that each limit is reached within a few packets and the numbers wrap
several times. `Watched` is one number, since liveness of one is that of all. In
the passing run of `SeqManager` drops are confined to where the code counts them
right, which `DropsInRange` states and TLC confirms as an assumption of
`MCSeqManager`. Outside of it the code is wrong in three ways. It counts the drops
before a packet in the order of integers, not of sequence numbers (line 92). It
erases dropped numbers half the range old (lines 76-78) and the numbers sent jump by
as many as were erased: `MaxIndex` stays below half the numbers, and ends the run,
hence no deadlock check. And the same lines erase a drop that is *new* when a packet
from before it comes late: seen from two numbers or more before, and in half of the
cases from the one before, the dropped number is more than half the range ahead,
which the code takes for old, and a number is skipped. `MaxLate = 3` shows it, on
`SeqManager` itself, without the assumption; the run has `MaxLate = 2`, and drops
where the number just before one is harmless. `RtpStreamSend` fills its three items,
reuses them, wraps once and a half and has packets of two cycles for the same slot. `SctpAssociation` has two streams
that interleave, a message that does not fit, and streams up to the limit, where
the last increment is cut. `SimulcastConsumer` has one switch up and one down; with
two capture times a key frame can be earlier than, at or later than what was sent,
and four timestamps, of which each stream uses two on either side of the wrap, let
every comparison be right and wrong;
`CleanAfter` of one packet makes the end of the extra offset happen.

**Fairness.** `ProducerSpec`: weak fairness of the timer of each key frame request.
A timer of libuv fires unless it is stopped or restarted; it is stopped when the
key frame comes and restarted by a forced request, and either meets the need that
`NeedsAreMet` is about. `RecvSpec`: weak fairness of `NackTick`, the passing of
time. Packets may come for ever between two ticks, but every tick comes.
`SimulcastConsumer`: weak fairness of `AnswersKeyFrameRequest`, that a layer that
was asked for a key frame sends one in the end; `KeyFrameRequestManager` repeats
the request for that, and a sender that never answers leaves the consumer waiting
with good reason. `SwitchCompletes` then says that the current layer comes to be the
target's again and again, or the target changes for ever. There is no fairness on requests, packets or peers anywhere. Three of
the violated properties are invariants and one (`recv_resync`) an action property:
none depends on fairness.

## 4. The proofs

The theorems hold for every value of the constants that satisfies the named
assumptions of the modules: any tuples, entities, streams and numbers of restarts
or packets, any modulus of the sequence numbers and any limits in the order of
those of the code. `NackAssumption` is the strongest of them: list <= age and
list + age within half of the numbers, as 1000 and 5000 of 65536 are. Only
`SeqManager_proofs` states a hypothesis beyond them, in the theorems that need it.

* **`WebRtcTransport_proofs`** has two parts. The first is about the operators of
  `IceServer` on the record of the ICE server and proves `IceTypeOK`,
  `IceTuplesConsistent`, `IceStoredOnce`, `IceResponseMatches` and the action
  property `IceRetiredForGood`. `IceTuplesConsistent` alone is not inductive:
  removing the selected tuple picks the first of those left, and that the list is
  empty exactly when ICE is disconnected needs that erasing one entry erases the
  tuple, i.e. that no tuple is stored twice. `IceGood` is the conjunction, with one
  lemma per operation; these apply to the handlers of `WebRtcTransport` too. The
  second part proves all eight properties of the run `webrtc_transport`;
  `DtlsTimerOfRunning` rests on `Reset` stopping the timer, on every way to stop
  running going through it, and on `SetTimeout` being reached by a running DTLS only.
  A step is a composition of operators on the record of the state, so the invariant is proved
  operator by operator, about any record: `Core` holds between any two calls of a
  handler, in particular when a failing write re-enters `RemoveTuple`; `RoleOK` only
  at the end of a step, since `connect()` changes the wanted role before DTLS is run
  in it. `Keeps` says what a write that may lose tuples leaves alone, and lets each
  handler be treated without looking into the writes it makes. The strengthening is
  that a DTLS that does not run is reset, that a fingerprint means that `connect()`
  was called, and what the first part shows of the ICE server.
* **`Producer_proofs`** proves `TypeOK`, `NeedsWillRetry`, `RepeatedOnce` and
  `WaitingIsRequested` of `KeyFrameRequestManager`. The strengthening relates
  `repeats` to the retry flag (a stream with a flag that is set has not been
  repeated since its last need) and bounds `waiting` and `unmet` by the known
  streams. It then shows that every step of the composition is one of the manager's
  or leaves it alone, so that this invariant carries over, and that active streams
  are watched (streams inactive or watched must have been seen).
* **`Router_proofs`** proves `TypeOK` and all properties of `Router`.
  `MapsAgree` alone does not say that the map of ids leads *back* to each producer
  (`Keyed`), which closing one needs; that `map::at()` and the assertions never
  fail (`NeverFails`) needs the observers' relation, and `ListenerRoutes` needs
  that keys are claimed free. `RouterGood` is the conjunction. Closing a producer
  and closing a transport share the lemma `ClosedGood`, about closing any set of
  producers with their consumers and others; every other action has a lemma of its
  own.
* **`RtpStreamRecv_proofs`** proves that the NACK list is exact and bounded and
  that the assertion holds. The code compares numbers on a circle, and never with
  more than a local view of it. `Ahead(a, b)`, the distance from a to b, turns this
  into arithmetic: the strengthening `MissingIsRecent` says that all that is listed
  is behind `lastSeq` by at most the age, and a packet that does not overflow the
  list is ahead by little (`StepIsShort`); then cleaning leaves exactly what is
  recent (`CleanLeavesRecent`), and the gap is recent, new and not lower than the
  key frame that is remembered (`GapIsNew`). The limit follows from counting the
  gap. A packet that overflows the list may be ahead by one more than half of the
  circle, where this fails; the code throws the list away then.
* **`RtpStreamSend_proofs`** proves the invariants of the buffer and, as
  `SendImplementsCache`, that it implements `RetransmissionCache`. The invariant
  pairs slots in use with items one to one; that the search for the next slot
  ends, and ends at a slot in use, is the well-foundedness of the distances. For
  `InOrderKeepsOldest` the distance of two slots is that of their packets as long
  as these lie within a cycle (`DistanceIs`), so that the nearest slot after that
  of the oldest packet is that of the next one (`NextIsOldest`).
* **`SctpAssociation_proofs`** proves all properties of the run
  `sctp_association`. For `SeriesDelivered` the invariant says that messages have
  numbers of their own (`Numbered`) and that a message which goes on where its
  fresh series ended finds that series in the buffer under its SSN
  (`SeriesInBuffer`), and what is left in the buffer, and under which SSN, after a
  part that was buffered, delivered or refused (`BuffersOK`); `AskedOnce` needs that
  what is wanted beyond what there is is always one increment (`WantedIsNext`).
* **`SeqManager_proofs`** proves, for any width of the numbers, that any stream
  of which nothing is dropped is renumbered right for ever
  (`NeverWrongWithoutDrops`) and never uses a number again within a cycle
  (`NeverReusedWithoutDrops`): the assumption is that what is lost in a row and how
  late packets come stay together below half the range. With drops both are lemmas
  under the hypothesis `DropsInRange` (`ContiguousInRange`, `DistinctInRange`),
  outside of which they are false (section 3); no theorem covers drops in general,
  as the code does not keep the property there.
  The invariant says where the code stands: there is a greatest index sent, which
  `maxInput` and `maxOutput` belong to, and it is the last one seen or close to a
  drop (`AtTop`), so that every packet that may come is less than half the range
  from it and the comparisons of the code tell which is higher (`ArrivingNear`,
  `Ahead`). The code counts numbers and the property indices; they agree since
  no two drops have the same number (`CountNumbers`), and the numbers expected grow
  with the index by at most as much (`ExpectedGrows`).
* **`SimulcastConsumer_proofs`** proves all safety properties of the run
  `simulcast_consumer`. The choice of layers is a recursive function over the
  layers; what it computes is proved without induction over an operator: from the
  well-foundedness of the naturals follows an induction over a *set*
  (`RangeInduction`), with which such functions exist (`RecursionExists`) and their
  invariants hold, first of all that the choice by scores is a best usable stream
  (`ChosenIsBest`). `TargetIsBest` rests on which events can change the choice:
  none when fewer streams are usable and the chosen one still is (`SameLastChoice`),
  which is why a dying reference stream or an ignored report need no new decision.
  All events but packets end in the same few operators and share
  `SettlingKeepsInvariant`; a packet is treated once, by what it leaves
  (`PacketValues`); that the extra offset takes a timestamp to the one after the
  highest sent is arithmetic modulo `TsModulus` (`SwitchIsLater`). The strengthening
  is that a report tells the clock of its stream (`StreamsMatch`), that a target has a reference stream and a current layer is that
  or both have reports, and that it is the layer sent last (`LayersMatch`).

Some theorems state properties that no run lists, as they follow from what the run
of the module checks or were checked on the way: `IceTypeOK`, `IceStoredOnce`,
`IceResponseMatches`, `RepeatedOnce`, `WaitingIsRequested`, `ProducerIdsUnique` and
the `TypeOK` of `KeyFrameRequestManager` and `Router`.

**Only model-checked.** The liveness properties `NeedsAreMet`, `ItemsLeave` and
`SwitchCompletes`, which the prover does not reach. Every safety property of the
passing runs is a theorem. That the violated properties fail, and why, is shown by
their runs alone.

## 5. What is not modelled

Listed with reasons as components in `PROJECT.json`. External code (OpenSSL,
usrsctp, libsrtp, libuv) appears only as the answers it may give; most of the
lines of the repository are vendored dependencies of that kind (`src/devps`,
`include/json.hpp`) and no part of the worker's own logic. Parsing and serialising
of packets and JSON have no state. Key frame requests that a consumer makes while
it is being told that the transport is connected belong to `Producer` and are
modelled there, not in `WebRtcTransport`. The estimators of `RembServer` are
arithmetic on doubles, and so are the scores, jitter and loss statistics of the
streams: their values decide nothing but layers, and `SimulcastConsumer` takes any
score at any time. `SvcConsumer` shares the layer switching of `SimulcastConsumer`
in a simpler form (one stream, no timestamps to align) and differs in the filter of
VP9, which is left out; `SimpleConsumer` and `PipeConsumer` have only what `Router`,
`WebRtcTransport` and `SeqManager` model.

## 6. What comes next

In this order:

1. *TCP framing, Channel and PortManager*: the loops over a receive buffer that
   call out and may be deleted meanwhile; pools at their limits.
2. *AudioLevelObserver*: volumes and silences over the table `Router` models.
3. *Plain and pipe transports*: the tuple that is learned or set, once.
4. *SvcConsumer* with the filter of VP9.
5. *Proofs*: of the above, as they are modelled; an abstract specification of the
   renumbering that `SeqManager` implements.
