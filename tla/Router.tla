------------------------------- MODULE Router -------------------------------
(***************************************************************************)
(* The entities of a router and the maps that relate them (RTC/Router.cpp, *)
(* and the requests of RTC/Transport.cpp that create and close them).      *)
(*                                                                         *)
(* Transports own producers and consumers; the router knows which consumer *)
(* consumes which producer and which RTP observer listens to it; every     *)
(* transport has a listener that finds the producer of a packet.  All maps *)
(* hold raw pointers, so closing an entity must take it out of every one.  *)
(* The pointer of a producer or consumer is the pair of its transport and  *)
(* its id, which is unique in the transport.                               *)
(*                                                                         *)
(* DataProducers and DataConsumers live in maps of their own with the same *)
(* rules, less pausing and observers: here they are those ids.  The tables *)
(* of RtpListener and SctpListener are one table of keys per transport: an *)
(* SSRC, a MID or an SCTP stream id.  RIDs are left out.                   *)
(***************************************************************************)
EXTENDS Naturals, FiniteSets, Functions

CONSTANTS
    Transports,     \* ids of transports
    Producers,      \* ids of Producers and DataProducers
    AudioProducers, \* the ids of audio Producers
    DataProducers,  \* the ids of DataProducers
    Consumers,      \* ids of Consumers and DataConsumers
    DataConsumers,  \* the ids of DataConsumers
    RtpObservers,   \* ids of AudioLevelObservers
    Ssrcs,          \* SSRCs a packet may have
    Mids,           \* MIDs it may have
    StreamIds,      \* SCTP streams
    NoProducer      \* a null pointer

ASSUME ProducersAssumption ==
    /\ AudioProducers \subseteq Producers
    /\ DataProducers \subseteq Producers
    /\ AudioProducers \cap DataProducers = {}
ASSUME ConsumersAssumption == DataConsumers \subseteq Consumers
ASSUME KeysAssumption ==
    /\ Ssrcs \cap Mids = {}
    /\ Ssrcs \cap StreamIds = {}
    /\ Mids \cap StreamIds = {}

ProducerObjects == Transports \X Producers
ConsumerObjects == Transports \X Consumers
Keys == Ssrcs \cup Mids \cup StreamIds

ASSUME NoProducerAssumption == NoProducer \notin ProducerObjects

VARIABLES
    transports,            \* the transports that exist
    producers,             \* the producers: paused, and the keys they declare
    consumers,             \* the consumers: what they know of their producer
    listener,              \* per transport, key to producer
    mapProducers,          \* id to producer
    producerConsumers,     \* producer to its consumers
    consumerProducer,      \* consumer to its producer
    producerRtpObservers,  \* producer to the observers it was added to
    rtpObservers,          \* the observers: paused, and the producers they count
    failed                 \* an MS_ASSERT failed or map::at() threw

vars == <<transports, producers, consumers, listener, mapProducers,
          producerConsumers, consumerProducer, producerRtpObservers,
          rtpObservers, failed>>
-----------------------------------------------------------------------------
With(f, x, v) == [y \in DOMAIN f \cup {x} |-> IF y = x THEN v ELSE f[y]]
Without(f, S) == Restrict(f, DOMAIN f \ S)

ProducersOf(t) == {x \in DOMAIN producers : x[1] = t}
ConsumersOf(t) == {y \in DOMAIN consumers : y[1] = t}

\* The keys a producer may declare in its parameters.
Declarable(p) ==
    IF p \in DataProducers THEN {{s} : s \in StreamIds}
                           ELSE (SUBSET (Ssrcs \cup Mids)) \ {{}}
-----------------------------------------------------------------------------
(***************************************************************************)
(* The listener of a transport.                                            *)
(***************************************************************************)
NoKeys == [k \in Keys |-> NoProducer]

Claim(table, x, keys) ==
    [k \in Keys |-> IF k \in keys /\ table[k] = NoProducer THEN x ELSE table[k]]

Release(table, x) == [k \in Keys |-> IF table[k] = x THEN NoProducer ELSE table[k]]

\* The MID is looked at only when the SSRC is unknown, and teaches the SSRC.
Lookup(table, ssrc, mid) ==
    IF table[ssrc] # NoProducer THEN table[ssrc] ELSE table[mid]
-----------------------------------------------------------------------------
Init ==
    /\ transports = {}
    /\ producers = <<>>
    /\ consumers = <<>>
    /\ listener = [t \in Transports |-> NoKeys]
    /\ mapProducers = <<>>
    /\ producerConsumers = <<>>
    /\ consumerProducer = <<>>
    /\ producerRtpObservers = <<>>
    /\ rtpObservers = <<>>
    /\ failed = FALSE
-----------------------------------------------------------------------------
(***************************************************************************)
(* Producers.                                                              *)
(***************************************************************************)
CreateTransport(t) ==
    /\ t \notin transports
    /\ transports' = transports \cup {t}
    /\ UNCHANGED <<producers, consumers, listener, mapProducers,
                   producerConsumers, consumerProducer, producerRtpObservers,
                   rtpObservers, failed>>

\* A producer that another one of the transport or of the router excludes.
Refused(t, p, keys) ==
    \/ \E k \in keys : listener[t][k] # NoProducer
    \/ p \in DOMAIN mapProducers

\* TRANSPORT_PRODUCE and TRANSPORT_PRODUCE_DATA.
Produce(t, p, keys) ==
    LET x == <<t, p>> IN
    /\ t \in transports
    /\ x \notin DOMAIN producers
    /\ ~Refused(t, p, keys)
    /\ producers' = With(producers, x, [paused |-> FALSE, keys |-> keys])
    /\ listener' = [listener EXCEPT ![t] = Claim(@, x, keys)]
    /\ mapProducers' = With(mapProducers, p, x)
    /\ producerConsumers' = With(producerConsumers, x, {})
    /\ producerRtpObservers' = With(producerRtpObservers, x, {})
    /\ failed' = (x \in DOMAIN producerConsumers)
    /\ UNCHANGED <<transports, consumers, consumerProducer, rtpObservers>>

\* Faulty: leaves the keys claimed before the request failed.
ProduceRefused_Leaks(t, p, keys) ==
    /\ t \in transports
    /\ <<t, p>> \notin DOMAIN producers
    /\ Refused(t, p, keys)
    /\ listener' = [listener EXCEPT ![t] = Claim(@, <<t, p>>, keys)]
    /\ UNCHANGED <<transports, producers, consumers, mapProducers,
                   producerConsumers, consumerProducer, producerRtpObservers,
                   rtpObservers, failed>>

\* The request fails half way: the keys claimed so far are released and the
\* new producer is deleted.
ProduceRefused(t, p, keys) ==
    LET x == <<t, p>> IN
    /\ t \in transports
    /\ x \notin DOMAIN producers
    /\ Refused(t, p, keys)
    /\ listener' = [listener EXCEPT ![t] = Release(Claim(@, x, keys), x)]
    /\ UNCHANGED <<transports, producers, consumers, mapProducers,
                   producerConsumers, consumerProducer, producerRtpObservers,
                   rtpObservers, failed>>

\* The consumers of the producers in S are closed with them.
ConsumersOfAll(S) == UNION {producerConsumers[x] : x \in S}

\* What OnTransportProducerClosed() asserts, for each of S.
ClosingAsserts(S) ==
    /\ S \subseteq DOMAIN producerConsumers
    /\ S \subseteq DOMAIN producerRtpObservers
    /\ \A x \in S : x[2] \in DOMAIN mapProducers
    /\ ConsumersOfAll(S) \subseteq DOMAIN consumerProducer

\* Every observer a producer of S was added to forgets it.
ObserversWithout(S) ==
    [o \in DOMAIN rtpObservers |->
        [rtpObservers[o] EXCEPT
            !.dBovs = @ \ {x \in S : o \in producerRtpObservers[x]}]]

\* Faulty: the observers still count a closed producer.
CloseProducer_KeepsObserved(x) ==
    /\ x \in DOMAIN producers
    /\ producers' = Without(producers, {x})
    /\ consumers' = Without(consumers, producerConsumers[x])
    /\ listener' = [listener EXCEPT ![x[1]] = Release(@, x)]
    /\ mapProducers' = Without(mapProducers, {x[2]})
    /\ producerConsumers' = Without(producerConsumers, {x})
    /\ consumerProducer' = Without(consumerProducer, producerConsumers[x])
    /\ producerRtpObservers' = Without(producerRtpObservers, {x})
    /\ failed' = ~ClosingAsserts({x})
    /\ UNCHANGED <<transports, rtpObservers>>

\* PRODUCER_CLOSE and DATA_PRODUCER_CLOSE.
CloseProducer(x) ==
    /\ x \in DOMAIN producers
    /\ producers' = Without(producers, {x})
    /\ consumers' = Without(consumers, producerConsumers[x])
    /\ listener' = [listener EXCEPT ![x[1]] = Release(@, x)]
    /\ mapProducers' = Without(mapProducers, {x[2]})
    /\ producerConsumers' = Without(producerConsumers, {x})
    /\ consumerProducer' = Without(consumerProducer, producerConsumers[x])
    /\ producerRtpObservers' = Without(producerRtpObservers, {x})
    /\ rtpObservers' = ObserversWithout({x})
    /\ failed' = ~ClosingAsserts({x})
    /\ UNCHANGED transports

\* Faulty: a resumed producer is not given back to its observers.
SetPaused_NoReinsert(x, paused) ==
    /\ producers' = [producers EXCEPT ![x].paused = paused]
    /\ consumers' = [y \in DOMAIN consumers |->
                        IF y \in producerConsumers[x]
                        THEN [producerPaused |-> paused] ELSE consumers[y]]
    /\ rtpObservers' = [o \in DOMAIN rtpObservers |->
                           [rtpObservers[o] EXCEPT !.dBovs = @ \ {x}]]
    /\ UNCHANGED <<transports, listener, mapProducers, producerConsumers,
                   consumerProducer, producerRtpObservers, failed>>

\* What its consumers and observers learn when a producer is paused or resumed.
SetPaused(x, paused) ==
    /\ producers' = [producers EXCEPT ![x].paused = paused]
    /\ consumers' = [y \in DOMAIN consumers |->
                        IF y \in producerConsumers[x]
                        THEN [producerPaused |-> paused] ELSE consumers[y]]
    /\ rtpObservers' =
          [o \in DOMAIN rtpObservers |->
              IF o \notin producerRtpObservers[x] THEN rtpObservers[o]
              ELSE [rtpObservers[o] EXCEPT
                       !.dBovs = IF paused THEN @ \ {x} ELSE @ \cup {x}]]
    /\ UNCHANGED <<transports, listener, mapProducers, producerConsumers,
                   consumerProducer, producerRtpObservers, failed>>

\* PRODUCER_PAUSE.
PauseProducer(x) ==
    /\ x \in DOMAIN producers
    /\ x[2] \notin DataProducers
    /\ ~producers[x].paused
    /\ SetPaused(x, TRUE)

\* PRODUCER_RESUME.
ResumeProducer(x) ==
    /\ x \in DOMAIN producers
    /\ producers[x].paused
    /\ SetPaused(x, FALSE)
-----------------------------------------------------------------------------
(***************************************************************************)
(* Consumers.                                                              *)
(***************************************************************************)
\* Faulty: a consumer starts as if its producer were active.
Consume_Unpaused(t, c, p) ==
    LET x == mapProducers[p]
        y == <<t, c>>
    IN  /\ t \in transports
        /\ y \notin DOMAIN consumers
        /\ (c \in DataConsumers) = (p \in DataProducers)
        /\ p \in DOMAIN mapProducers
        /\ consumers' = With(consumers, y, [producerPaused |-> FALSE])
        /\ producerConsumers' = [producerConsumers EXCEPT ![x] = @ \cup {y}]
        /\ consumerProducer' = With(consumerProducer, y, x)
        /\ UNCHANGED <<transports, producers, listener, mapProducers,
                       producerRtpObservers, rtpObservers, failed>>

\* TRANSPORT_CONSUME and TRANSPORT_CONSUME_DATA; the producer may be on any
\* transport of the router.
Consume(t, c, p) ==
    LET x == mapProducers[p]
        y == <<t, c>>
    IN  /\ t \in transports
        /\ y \notin DOMAIN consumers
        /\ (c \in DataConsumers) = (p \in DataProducers)
        /\ p \in DOMAIN mapProducers
        /\ consumers' = With(consumers, y,
                             [producerPaused |-> producers[x].paused])
        /\ producerConsumers' = [producerConsumers EXCEPT ![x] = @ \cup {y}]
        /\ consumerProducer' = With(consumerProducer, y, x)
        /\ failed' = (x \notin DOMAIN producerConsumers
                         \/ y \in DOMAIN consumerProducer)
        /\ UNCHANGED <<transports, producers, listener, mapProducers,
                       producerRtpObservers, rtpObservers>>

\* CONSUMER_CLOSE and DATA_CONSUMER_CLOSE.
CloseConsumer(y) ==
    LET x == consumerProducer[y] IN
    /\ y \in DOMAIN consumers
    /\ consumers' = Without(consumers, {y})
    /\ producerConsumers' = [producerConsumers EXCEPT ![x] = @ \ {y}]
    /\ consumerProducer' = Without(consumerProducer, {y})
    /\ failed' = ~(y \in DOMAIN consumerProducer /\ x \in DOMAIN producerConsumers)
    /\ UNCHANGED <<transports, producers, listener, mapProducers,
                   producerRtpObservers, rtpObservers>>

\* Faulty: deletes the transport's consumers without telling the router.
CloseTransport_Silent(t) ==
    LET closed == ProducersOf(t)
        orphans == ConsumersOfAll(closed)
        own == ConsumersOf(t) \ orphans
    IN  /\ t \in transports
        /\ transports' = transports \ {t}
        /\ producers' = Without(producers, closed)
        /\ consumers' = Without(consumers, orphans \cup own)
        /\ listener' = [listener EXCEPT ![t] = NoKeys]
        /\ mapProducers' = Without(mapProducers, {x[2] : x \in closed})
        /\ producerConsumers' = Without(producerConsumers, closed)
        /\ consumerProducer' = Without(consumerProducer, orphans)
        /\ producerRtpObservers' = Without(producerRtpObservers, closed)
        /\ rtpObservers' = ObserversWithout(closed)
        /\ failed' = ~ClosingAsserts(closed)

\* TRANSPORT_CLOSE: the producers are closed first, with their consumers, also
\* those on this transport; then the consumers that are left.
CloseTransport(t) ==
    LET closed == ProducersOf(t)
        orphans == ConsumersOfAll(closed)
        own == ConsumersOf(t) \ orphans
    IN  /\ t \in transports
        /\ transports' = transports \ {t}
        /\ producers' = Without(producers, closed)
        /\ consumers' = Without(consumers, orphans \cup own)
        /\ listener' = [listener EXCEPT ![t] = NoKeys]
        /\ mapProducers' = Without(mapProducers, {x[2] : x \in closed})
        /\ producerConsumers' = [x \in DOMAIN producerConsumers \ closed |->
                                    producerConsumers[x] \ own]
        /\ consumerProducer' = Without(consumerProducer, orphans \cup own)
        /\ producerRtpObservers' = Without(producerRtpObservers, closed)
        /\ rtpObservers' = ObserversWithout(closed)
        /\ failed' = ~(/\ ClosingAsserts(closed)
                       /\ own \subseteq DOMAIN consumerProducer
                       /\ \A y \in own :
                             consumerProducer[y] \in DOMAIN producerConsumers)
-----------------------------------------------------------------------------
(***************************************************************************)
(* RTP observers.                                                          *)
(***************************************************************************)
\* ROUTER_CREATE_AUDIO_LEVEL_OBSERVER.
CreateRtpObserver(o) ==
    /\ o \notin DOMAIN rtpObservers
    /\ rtpObservers' = With(rtpObservers, o, [paused |-> FALSE, dBovs |-> {}])
    /\ UNCHANGED <<transports, producers, consumers, listener, mapProducers,
                   producerConsumers, consumerProducer, producerRtpObservers,
                   failed>>

\* RTP_OBSERVER_CLOSE.
CloseRtpObserver(o) ==
    /\ o \in DOMAIN rtpObservers
    /\ rtpObservers' = Without(rtpObservers, {o})
    /\ producerRtpObservers' = [x \in DOMAIN producerRtpObservers |->
                                   producerRtpObservers[x] \ {o}]
    /\ UNCHANGED <<transports, producers, consumers, listener, mapProducers,
                   producerConsumers, consumerProducer, failed>>

\* RTP_OBSERVER_PAUSE and RTP_OBSERVER_RESUME.
PauseRtpObserver(o, paused) ==
    /\ o \in DOMAIN rtpObservers
    /\ rtpObservers[o].paused # paused
    /\ rtpObservers' = [rtpObservers EXCEPT ![o].paused = paused]
    /\ UNCHANGED <<transports, producers, consumers, listener, mapProducers,
                   producerConsumers, consumerProducer, producerRtpObservers,
                   failed>>

\* RTP_OBSERVER_ADD_PRODUCER, refused unless it is audio.
AddProducer(o, p) ==
    LET x == mapProducers[p] IN
    /\ o \in DOMAIN rtpObservers
    /\ p \in DOMAIN mapProducers
    /\ p \in AudioProducers
    /\ rtpObservers' = [rtpObservers EXCEPT ![o].dBovs = @ \cup {x}]
    /\ producerRtpObservers' = [producerRtpObservers EXCEPT ![x] = @ \cup {o}]
    /\ UNCHANGED <<transports, producers, consumers, listener, mapProducers,
                   producerConsumers, consumerProducer, failed>>

\* RTP_OBSERVER_REMOVE_PRODUCER.
RemoveProducer(o, p) ==
    LET x == mapProducers[p] IN
    /\ o \in DOMAIN rtpObservers
    /\ p \in DOMAIN mapProducers \ DataProducers
    /\ rtpObservers' = [rtpObservers EXCEPT ![o].dBovs = @ \ {x}]
    /\ producerRtpObservers' = [producerRtpObservers EXCEPT ![x] = @ \ {o}]
    /\ UNCHANGED <<transports, producers, consumers, listener, mapProducers,
                   producerConsumers, consumerProducer, failed>>
-----------------------------------------------------------------------------
(***************************************************************************)
(* An RTP packet goes to the consumers and observers of its producer; an   *)
(* observer looks the producer up with at().                               *)
(***************************************************************************)
ReceiveRtpPacket(t, ssrc, mid) ==
    LET x == Lookup(listener[t], ssrc, mid) IN
    /\ t \in transports
    /\ x # NoProducer
    /\ listener' = [listener EXCEPT ![t][ssrc] = x]
    /\ failed' = /\ ~producers[x].paused
                 /\ \/ x \notin DOMAIN producerConsumers
                    \/ \E o \in producerRtpObservers[x] :
                          ~rtpObservers[o].paused /\ x \notin rtpObservers[o].dBovs
    /\ UNCHANGED <<transports, producers, consumers, mapProducers,
                   producerConsumers, consumerProducer, producerRtpObservers,
                   rtpObservers>>
-----------------------------------------------------------------------------
Request ==
    \/ \E t \in Transports :
          \/ CreateTransport(t) \/ CloseTransport(t)
          \/ \E p \in Producers : \E keys \in Declarable(p) :
                Produce(t, p, keys) \/ ProduceRefused(t, p, keys)
          \/ \E c \in Consumers, p \in Producers : Consume(t, c, p)
    \/ \E x \in ProducerObjects :
          CloseProducer(x) \/ PauseProducer(x) \/ ResumeProducer(x)
    \/ \E y \in ConsumerObjects : CloseConsumer(y)
    \/ \E o \in RtpObservers :
          \/ CreateRtpObserver(o) \/ CloseRtpObserver(o)
          \/ \E paused \in BOOLEAN : PauseRtpObserver(o, paused)
          \/ \E p \in Producers : AddProducer(o, p) \/ RemoveProducer(o, p)

Next ==
    /\ ~failed
    /\ \/ Request
       \/ \E t \in Transports, ssrc \in Ssrcs, mid \in Mids :
             ReceiveRtpPacket(t, ssrc, mid)

Spec == Init /\ [][Next]_vars
-----------------------------------------------------------------------------
(***************************************************************************)
(* Properties.                                                             *)
(***************************************************************************)
\* The types of the router's maps.
TypeOK ==
    /\ transports \subseteq Transports
    /\ DOMAIN producers \subseteq ProducerObjects
    /\ \A x \in DOMAIN producers :
          producers[x] \in [paused : BOOLEAN, keys : SUBSET Keys]
    /\ DOMAIN consumers \subseteq ConsumerObjects
    /\ \A y \in DOMAIN consumers : consumers[y] \in [producerPaused : BOOLEAN]
    /\ listener \in [Transports -> [Keys -> ProducerObjects \cup {NoProducer}]]
    /\ mapProducers \in [DOMAIN mapProducers -> ProducerObjects]
    /\ producerConsumers \in [DOMAIN producerConsumers -> SUBSET ConsumerObjects]
    /\ consumerProducer \in [DOMAIN consumerProducer -> ProducerObjects]
    /\ producerRtpObservers \in
          [DOMAIN producerRtpObservers -> SUBSET RtpObservers]
    /\ DOMAIN rtpObservers \subseteq RtpObservers
    /\ \A o \in DOMAIN rtpObservers :
          rtpObservers[o] \in [paused : BOOLEAN, dBovs : SUBSET ProducerObjects]
    /\ failed \in BOOLEAN

\* The maps of the router hold exactly the producers and consumers that exist,
\* and the two maps between them are each other's inverse, after any order of
\* closing consumers, producers and transports: no pointer dangles and every
\* entity can still be closed.
MapsAgree ==
    /\ DOMAIN producerConsumers = DOMAIN producers
    /\ DOMAIN producerRtpObservers = DOMAIN producers
    /\ DOMAIN consumerProducer = DOMAIN consumers
    /\ \A x \in DOMAIN producers :
          x[1] \in transports /\ x[2] \in DOMAIN mapProducers
    /\ \A p \in DOMAIN mapProducers :
          mapProducers[p] \in DOMAIN producers /\ mapProducers[p][2] = p
    /\ \A y \in DOMAIN consumers :
          /\ y[1] \in transports
          /\ consumerProducer[y] \in DOMAIN producers
          /\ y \in producerConsumers[consumerProducer[y]]
    /\ \A x \in DOMAIN producers : \A y \in producerConsumers[x] :
          y \in DOMAIN consumers /\ consumerProducer[y] = x

\* A producer id names one producer in the whole router, although each
\* transport only checks its own.
ProducerIdsUnique ==
    \A x1, x2 \in DOMAIN producers : x1[2] = x2[2] => x1 = x2

\* Every key of a listener leads to a living producer of that transport, and
\* every key a producer declared leads to it, also after a refused request, a
\* learned SSRC or a closed neighbour.
ListenerRoutes ==
    /\ \A t \in Transports : \A k \in Keys :
          listener[t][k] # NoProducer =>
              /\ listener[t][k] \in DOMAIN producers
              /\ listener[t][k][1] = t
    /\ \A x \in DOMAIN producers : \A k \in producers[x].keys :
          listener[x[1]][k] = x

\* A consumer knows whether its producer is paused, whenever it was created.
PausedAgrees ==
    \A y \in DOMAIN consumers :
        consumers[y].producerPaused = producers[consumerProducer[y]].paused

\* An observer is ready for the packets of every active producer it was added
\* to, and counts no producer it was not added to.
ObserversReady ==
    /\ \A x \in DOMAIN producers : \A o \in producerRtpObservers[x] :
          /\ o \in DOMAIN rtpObservers
          /\ ~producers[x].paused => x \in rtpObservers[o].dBovs
    /\ \A o \in DOMAIN rtpObservers : \A x \in rtpObservers[o].dBovs :
          x \in DOMAIN producers /\ o \in producerRtpObservers[x]

\* No MS_ASSERT of the router and no map::at() ever fails.
NeverFails == ~failed
=============================================================================
