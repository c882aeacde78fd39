---------------------------- MODULE Router_proofs ----------------------------
(***************************************************************************)
(* The maps of Router stay exact for any sets of transports, producers,    *)
(* consumers, observers and keys.                                          *)
(***************************************************************************)
EXTENDS Router, TLAPS

\* The map of producers by id leads back to every producer.
Keyed == \A x \in DOMAIN producers : mapProducers[x[2]] = x

RouterGood ==
    /\ TypeOK
    /\ MapsAgree
    /\ Keyed
    /\ ListenerRoutes
    /\ PausedAgrees
    /\ ObserversReady
    /\ NeverFails

\* Claim() takes the free keys of a table and no other.
LEMMA ClaimFacts ==
  ASSUME NEW table \in [Keys -> ProducerObjects \cup {NoProducer}],
         NEW x \in ProducerObjects, NEW keys \in SUBSET Keys,
         \A k \in keys : table[k] = NoProducer
  PROVE  /\ Claim(table, x, keys) \in [Keys -> ProducerObjects \cup {NoProducer}]
         /\ \A k \in keys : Claim(table, x, keys)[k] = x
         /\ \A k \in Keys \ keys : Claim(table, x, keys)[k] = table[k]
BY DEF Claim

\* Release() frees the keys of one producer.
LEMMA ReleaseFacts ==
  ASSUME NEW table \in [Keys -> ProducerObjects \cup {NoProducer}], NEW x
  PROVE  /\ Release(table, x) \in [Keys -> ProducerObjects \cup {NoProducer}]
         /\ \A k \in Keys : table[k] = x => Release(table, x)[k] = NoProducer
         /\ \A k \in Keys : table[k] # x => Release(table, x)[k] = table[k]
BY DEF Release

\* The keys claimed by a request that fails are all released.
LEMMA ClaimReleased ==
  ASSUME NEW table \in [Keys -> ProducerObjects \cup {NoProducer}],
         NEW x \in ProducerObjects, NEW keys,
         \A k \in Keys : table[k] # x
  PROVE  Release(Claim(table, x, keys), x) = table
BY NoProducerAssumption DEF Release, Claim

\* What a producer declares are keys.
LEMMA DeclarableKeys ==
  ASSUME NEW p, NEW keys \in Declarable(p)
  PROVE  keys \in SUBSET Keys
BY DEF Declarable, Keys

\* There is nothing at the start.
LEMMA InitGood == Init => RouterGood
<1> SUFFICES ASSUME Init PROVE RouterGood
  OBVIOUS
<1>1. /\ transports = {} /\ DOMAIN producers = {} /\ DOMAIN consumers = {}
      /\ DOMAIN mapProducers = {} /\ DOMAIN producerConsumers = {}
      /\ DOMAIN consumerProducer = {} /\ DOMAIN producerRtpObservers = {}
      /\ DOMAIN rtpObservers = {} /\ failed = FALSE
      /\ listener = [t \in Transports |-> NoKeys]
  BY DEF Init
<1>2. /\ mapProducers = [y \in {} |-> y] /\ producerConsumers = [y \in {} |-> y]
      /\ consumerProducer = [y \in {} |-> y] /\ producerRtpObservers = [y \in {} |-> y]
  BY DEF Init
<1>3. TypeOK
  BY <1>1, <1>2 DEF TypeOK, NoKeys
<1>4. MapsAgree /\ Keyed /\ PausedAgrees /\ ObserversReady /\ NeverFails
  BY <1>1 DEF MapsAgree, Keyed, PausedAgrees, ObserversReady, NeverFails
<1>5. ListenerRoutes
  BY <1>1 DEF ListenerRoutes, NoKeys
<1>6. QED
  BY <1>3, <1>4, <1>5 DEF RouterGood

\* A new transport has nothing yet.
LEMMA CreateTransportGood ==
  ASSUME RouterGood, NEW t \in Transports, CreateTransport(t)
  PROVE  RouterGood'
BY DEF RouterGood, CreateTransport, TypeOK, MapsAgree, Keyed, ListenerRoutes,
       PausedAgrees, ObserversReady, NeverFails

\* A new producer is in every map, and its keys were free.
LEMMA ProduceGood ==
  ASSUME RouterGood, NEW t \in Transports, NEW p \in Producers,
         NEW keys \in Declarable(p), Produce(t, p, keys)
  PROVE  RouterGood'
<1> DEFINE x == <<t, p>>
<1>1. /\ TypeOK /\ MapsAgree /\ Keyed /\ ListenerRoutes /\ PausedAgrees
      /\ ObserversReady /\ NeverFails
  BY DEF RouterGood
<1>2. /\ t \in transports /\ x \notin DOMAIN producers
      /\ p \notin DOMAIN mapProducers
      /\ \A k \in keys : listener[t][k] = NoProducer
      /\ x \in ProducerObjects /\ x[1] = t /\ x[2] = p
      /\ keys \in SUBSET Keys
  BY DeclarableKeys DEF Produce, Refused, ProducerObjects
<1>3. /\ DOMAIN producers' = DOMAIN producers \cup {x}
      /\ producers'[x] = [paused |-> FALSE, keys |-> keys]
      /\ \A y \in DOMAIN producers : producers'[y] = producers[y]
  <2>1. producers' = With(producers, x, [paused |-> FALSE, keys |-> keys])
    BY DEF Produce
  <2>2. QED
    BY <1>2, <2>1 DEF With
<1>4. /\ DOMAIN mapProducers' = DOMAIN mapProducers \cup {p}
      /\ mapProducers'[p] = x
      /\ \A q \in DOMAIN mapProducers : mapProducers'[q] = mapProducers[q]
      /\ mapProducers' = [q \in DOMAIN mapProducers' |-> mapProducers'[q]]
  <2>1. mapProducers' = With(mapProducers, p, x)
    BY DEF Produce
  <2>2. QED
    BY <1>2, <2>1 DEF With
<1>5. /\ DOMAIN producerConsumers = DOMAIN producers
      /\ DOMAIN producerRtpObservers = DOMAIN producers
  BY <1>1 DEF MapsAgree
<1>6. /\ DOMAIN producerConsumers' = DOMAIN producers'
      /\ producerConsumers'[x] = {}
      /\ \A y \in DOMAIN producers : producerConsumers'[y] = producerConsumers[y]
      /\ producerConsumers' = [y \in DOMAIN producerConsumers' |-> producerConsumers'[y]]
  <2>1. producerConsumers' = With(producerConsumers, x, {})
    BY DEF Produce
  <2>2. QED
    BY <1>2, <1>3, <1>5, <2>1 DEF With
<1>7. /\ DOMAIN producerRtpObservers' = DOMAIN producers'
      /\ producerRtpObservers'[x] = {}
      /\ \A y \in DOMAIN producers :
            producerRtpObservers'[y] = producerRtpObservers[y]
      /\ producerRtpObservers' =
            [y \in DOMAIN producerRtpObservers' |-> producerRtpObservers'[y]]
  <2>1. producerRtpObservers' = With(producerRtpObservers, x, {})
    BY DEF Produce
  <2>2. QED
    BY <1>2, <1>3, <1>5, <2>1 DEF With
<1>8. /\ listener' \in [Transports -> [Keys -> ProducerObjects \cup {NoProducer}]]
      /\ \A s \in Transports \ {t} : listener'[s] = listener[s]
      /\ \A k \in keys : listener'[t][k] = x
      /\ \A k \in Keys \ keys : listener'[t][k] = listener[t][k]
  <2>1. listener[t] \in [Keys -> ProducerObjects \cup {NoProducer}]
    BY <1>1 DEF TypeOK
  <2>2. listener' = [listener EXCEPT ![t] = Claim(listener[t], x, keys)]
    BY DEF Produce
  <2>3. QED
    BY <1>1, <1>2, <2>1, <2>2, ClaimFacts DEF TypeOK
<1>9. /\ transports' = transports /\ consumers' = consumers
      /\ consumerProducer' = consumerProducer /\ rtpObservers' = rtpObservers
      /\ failed' \in BOOLEAN /\ ~failed'
  <2>1. failed' = (x \in DOMAIN producerConsumers)
    BY DEF Produce
  <2>2. ~(x \in DOMAIN producerConsumers)
    BY <1>2, <1>5
  <2>3. failed' \in BOOLEAN
    BY <2>1
  <2>4. ~failed'
    BY <2>1, <2>2
  <2>5. QED
    BY <2>3, <2>4 DEF Produce
<1>10. TypeOK'
  <2>1. /\ DOMAIN producers' \subseteq ProducerObjects
        /\ \A y \in DOMAIN producers' :
              producers'[y] \in [paused : BOOLEAN, keys : SUBSET Keys]
    <3>1. producers'[x] \in [paused : BOOLEAN, keys : SUBSET Keys]
      BY <1>2, <1>3
    <3>2. \A y \in DOMAIN producers :
             producers'[y] \in [paused : BOOLEAN, keys : SUBSET Keys]
      BY <1>1, <1>3 DEF TypeOK
    <3>3. DOMAIN producers' \subseteq ProducerObjects
      BY <1>1, <1>2, <1>3 DEF TypeOK
    <3>4. QED
      BY <1>3, <3>1, <3>2, <3>3
  <2>2. mapProducers' \in [DOMAIN mapProducers' -> ProducerObjects]
    BY <1>1, <1>2, <1>4 DEF TypeOK
  <2>3. producerConsumers' \in [DOMAIN producerConsumers' -> SUBSET ConsumerObjects]
    BY <1>1, <1>3, <1>5, <1>6 DEF TypeOK
  <2>4. producerRtpObservers' \in [DOMAIN producerRtpObservers' -> SUBSET RtpObservers]
    BY <1>1, <1>3, <1>5, <1>7 DEF TypeOK
  <2>5. QED
    BY <1>1, <1>8, <1>9, <2>1, <2>2, <2>3, <2>4 DEF TypeOK
<1>11. MapsAgree'
  <2>1. /\ DOMAIN producerConsumers' = DOMAIN producers'
        /\ DOMAIN producerRtpObservers' = DOMAIN producers'
        /\ DOMAIN consumerProducer' = DOMAIN consumers'
    BY <1>1, <1>6, <1>7, <1>9 DEF MapsAgree
  <2>2. \A y \in DOMAIN producers' : y[1] \in transports' /\ y[2] \in DOMAIN mapProducers'
    BY <1>1, <1>2, <1>3, <1>4, <1>9 DEF MapsAgree
  <2>3. \A q \in DOMAIN mapProducers' :
           mapProducers'[q] \in DOMAIN producers' /\ mapProducers'[q][2] = q
    BY <1>1, <1>2, <1>3, <1>4 DEF MapsAgree
  <2>4. \A y \in DOMAIN consumers' :
          /\ y[1] \in transports'
          /\ consumerProducer'[y] \in DOMAIN producers'
          /\ y \in producerConsumers'[consumerProducer'[y]]
    BY <1>1, <1>3, <1>6, <1>9 DEF MapsAgree
  <2>5. \A z \in DOMAIN producers' : \A y \in producerConsumers'[z] :
           y \in DOMAIN consumers' /\ consumerProducer'[y] = z
    BY <1>1, <1>3, <1>6, <1>9 DEF MapsAgree
  <2>6. QED
    BY <2>1, <2>2, <2>3, <2>4, <2>5 DEF MapsAgree
<1>12. Keyed'
  BY <1>1, <1>2, <1>3, <1>4 DEF Keyed, MapsAgree
<1>13. ListenerRoutes'
  <2>1. \A s \in Transports : \A k \in Keys :
           listener'[s][k] # NoProducer =>
              listener'[s][k] \in DOMAIN producers' /\ listener'[s][k][1] = s
    BY <1>1, <1>2, <1>3, <1>8 DEF ListenerRoutes
  <2>2. \A k \in producers'[x].keys : listener'[x[1]][k] = x
    BY <1>2, <1>3, <1>8
  <2>3. ASSUME NEW y \in DOMAIN producers, NEW k \in producers'[y].keys
        PROVE  listener'[y[1]][k] = y
    <3>1. y \in ProducerObjects /\ y[1] \in Transports /\ y # NoProducer
      BY <1>1, NoProducerAssumption DEF TypeOK, ProducerObjects
    <3>2. producers'[y] = producers[y] /\ k \in Keys
      BY <1>1, <1>3, <2>3 DEF TypeOK
    <3>3. listener[y[1]][k] = y
      BY <1>1, <2>3, <3>2 DEF ListenerRoutes
    <3>4. QED
      BY <1>2, <1>8, <3>1, <3>2, <3>3
  <2>4. QED
    BY <1>3, <2>1, <2>2, <2>3 DEF ListenerRoutes
<1>14. PausedAgrees'
  <2>1. \A y \in DOMAIN consumers : consumerProducer[y] \in DOMAIN producers
    BY <1>1 DEF MapsAgree
  <2>2. \A y \in DOMAIN consumers :
           producers'[consumerProducer[y]] = producers[consumerProducer[y]]
    BY <1>3, <2>1
  <2>3. QED
    BY <1>1, <1>9, <2>2 DEF PausedAgrees
<1>15. ObserversReady'
  BY <1>1, <1>2, <1>3, <1>7, <1>9 DEF ObserversReady
<1>16. QED
  BY <1>9, <1>10, <1>11, <1>12, <1>13, <1>14, <1>15 DEF RouterGood, NeverFails

\* A refused producer leaves no key behind.
LEMMA ProduceRefusedGood ==
  ASSUME RouterGood, NEW t \in Transports, NEW p \in Producers,
         NEW keys \in Declarable(p), ProduceRefused(t, p, keys)
  PROVE  RouterGood' /\ UNCHANGED vars
<1> DEFINE x == <<t, p>>
<1>1. x \in ProducerObjects /\ x \notin DOMAIN producers
  BY DEF ProduceRefused, ProducerObjects
<1>2. listener \in [Transports -> [Keys -> ProducerObjects \cup {NoProducer}]]
  BY DEF RouterGood, TypeOK
<1>3. \A k \in Keys : listener[t][k] # x
  BY <1>1, <1>2, NoProducerAssumption DEF RouterGood, ListenerRoutes
<1>4. Release(Claim(listener[t], x, keys), x) = listener[t]
  BY <1>1, <1>2, <1>3, ClaimReleased
<1>5. listener' = listener
  BY <1>2, <1>4 DEF ProduceRefused
<1>6. UNCHANGED vars
  BY <1>5 DEF ProduceRefused, vars
<1>7. QED
  BY <1>6 DEF vars, RouterGood, TypeOK, MapsAgree, Keyed, ListenerRoutes,
              PausedAgrees, ObserversReady, NeverFails

\* Closing the producers S with all their consumers, and other consumers with
\* them, leaves every map exact: what CloseProducer() and CloseTransport() share.
LEMMA ClosedGood ==
  ASSUME RouterGood,
         NEW S \in SUBSET DOMAIN producers, NEW C \in SUBSET DOMAIN consumers,
         ConsumersOfAll(S) \subseteq C,
         transports' \subseteq transports,
         \A x \in DOMAIN producers \ S : x[1] \in transports',
         \A y \in DOMAIN consumers \ C : y[1] \in transports',
         producers' = Without(producers, S),
         consumers' = Without(consumers, C),
         listener' = [t \in Transports |-> [k \in Keys |->
                         IF listener[t][k] \in S THEN NoProducer
                                                 ELSE listener[t][k]]],
         mapProducers' = Without(mapProducers, {x[2] : x \in S}),
         producerConsumers' = [x \in DOMAIN producers \ S |->
                                  producerConsumers[x] \ C],
         consumerProducer' = Without(consumerProducer, C),
         producerRtpObservers' = Without(producerRtpObservers, S),
         rtpObservers' = ObserversWithout(S),
         failed' \in BOOLEAN, ~failed'
  PROVE  RouterGood'
<1>1. /\ TypeOK /\ MapsAgree /\ Keyed /\ ListenerRoutes /\ PausedAgrees
      /\ ObserversReady
  BY DEF RouterGood
<1>2. /\ DOMAIN producers' = DOMAIN producers \ S
      /\ \A x \in DOMAIN producers \ S : producers'[x] = producers[x]
  BY DEF Without, Restrict
<1>3. /\ DOMAIN consumers' = DOMAIN consumers \ C
      /\ \A y \in DOMAIN consumers \ C : consumers'[y] = consumers[y]
  BY DEF Without, Restrict
<1>4. /\ DOMAIN mapProducers' = DOMAIN mapProducers \ {x[2] : x \in S}
      /\ \A p \in DOMAIN mapProducers' : mapProducers'[p] = mapProducers[p]
      /\ mapProducers' = [p \in DOMAIN mapProducers' |-> mapProducers'[p]]
  BY DEF Without, Restrict
<1>5. /\ DOMAIN consumerProducer = DOMAIN consumers
      /\ DOMAIN producerConsumers = DOMAIN producers
      /\ DOMAIN producerRtpObservers = DOMAIN producers
      /\ \A y \in DOMAIN consumers : consumerProducer[y] \in DOMAIN producers
  BY <1>1 DEF MapsAgree
<1>6. /\ DOMAIN consumerProducer' = DOMAIN consumers \ C
      /\ \A y \in DOMAIN consumers \ C : consumerProducer'[y] = consumerProducer[y]
      /\ consumerProducer' = [y \in DOMAIN consumerProducer' |-> consumerProducer'[y]]
  BY <1>5 DEF Without, Restrict
<1>7. /\ DOMAIN producerConsumers' = DOMAIN producers \ S
      /\ \A x \in DOMAIN producers \ S :
            producerConsumers'[x] = producerConsumers[x] \ C
  OBVIOUS
<1>8. /\ DOMAIN producerRtpObservers' = DOMAIN producers \ S
      /\ \A x \in DOMAIN producers \ S :
            producerRtpObservers'[x] = producerRtpObservers[x]
      /\ producerRtpObservers' =
            [x \in DOMAIN producerRtpObservers' |-> producerRtpObservers'[x]]
  BY <1>5 DEF Without, Restrict
<1>9. /\ DOMAIN rtpObservers' = DOMAIN rtpObservers
      /\ \A o \in DOMAIN rtpObservers :
            /\ rtpObservers'[o] \in [paused : BOOLEAN, dBovs : SUBSET ProducerObjects]
            /\ rtpObservers'[o].dBovs =
                  rtpObservers[o].dBovs \ {x \in S : o \in producerRtpObservers[x]}
  BY <1>1 DEF TypeOK, ObserversWithout
<1>10. \A y \in DOMAIN consumers \ C : consumerProducer[y] \in DOMAIN producers \ S
  <2>1. ASSUME NEW y \in DOMAIN consumers, consumerProducer[y] \in S
        PROVE  y \in C
    <3>1. y \in producerConsumers[consumerProducer[y]]
      BY <1>1 DEF MapsAgree
    <3>2. QED
      BY <2>1, <3>1 DEF ConsumersOfAll
  <2>2. QED
    BY <1>5, <2>1
<1>11. TypeOK'
  <2>1. /\ DOMAIN producers' \subseteq ProducerObjects
        /\ \A x \in DOMAIN producers' :
              producers'[x] \in [paused : BOOLEAN, keys : SUBSET Keys]
    BY <1>1, <1>2 DEF TypeOK
  <2>2. /\ DOMAIN consumers' \subseteq ConsumerObjects
        /\ \A y \in DOMAIN consumers' : consumers'[y] \in [producerPaused : BOOLEAN]
    BY <1>1, <1>3 DEF TypeOK
  <2>3. listener' \in [Transports -> [Keys -> ProducerObjects \cup {NoProducer}]]
    BY <1>1 DEF TypeOK
  <2>4. mapProducers' \in [DOMAIN mapProducers' -> ProducerObjects]
    BY <1>1, <1>4 DEF TypeOK
  <2>5. producerConsumers' \in [DOMAIN producerConsumers' -> SUBSET ConsumerObjects]
    BY <1>1, <1>5 DEF TypeOK
  <2>6. consumerProducer' \in [DOMAIN consumerProducer' -> ProducerObjects]
    BY <1>1, <1>5, <1>6 DEF TypeOK
  <2>7. producerRtpObservers' \in [DOMAIN producerRtpObservers' -> SUBSET RtpObservers]
    BY <1>1, <1>5, <1>8 DEF TypeOK
  <2>8. /\ DOMAIN rtpObservers' \subseteq RtpObservers
        /\ \A o \in DOMAIN rtpObservers' :
              rtpObservers'[o] \in [paused : BOOLEAN, dBovs : SUBSET ProducerObjects]
    BY <1>1, <1>9 DEF TypeOK
  <2>9. transports' \subseteq Transports
    BY <1>1 DEF TypeOK
  <2>10. QED
    BY <2>1, <2>2, <2>3, <2>4, <2>5, <2>6, <2>7, <2>8, <2>9 DEF TypeOK
<1>12. MapsAgree'
  <2>1. \A x \in DOMAIN producers \ S : x[2] \in DOMAIN mapProducers'
    BY <1>1, <1>4 DEF MapsAgree, Keyed
  <2>2. \A p \in DOMAIN mapProducers' :
           mapProducers'[p] \in DOMAIN producers \ S /\ mapProducers'[p][2] = p
    BY <1>1, <1>4 DEF MapsAgree
  <2>3. \A y \in DOMAIN consumers \ C :
           y \in producerConsumers'[consumerProducer'[y]]
    BY <1>1, <1>6, <1>7, <1>10 DEF MapsAgree
  <2>4. \A x \in DOMAIN producers \ S : \A y \in producerConsumers'[x] :
           y \in DOMAIN consumers \ C /\ consumerProducer'[y] = x
    BY <1>1, <1>6, <1>7 DEF MapsAgree
  <2>5. QED
    BY <1>2, <1>3, <1>6, <1>7, <1>8, <1>10, <2>1, <2>2, <2>3, <2>4 DEF MapsAgree
<1>13. Keyed'
  <2>1. \A x \in DOMAIN producers \ S : x[2] \in DOMAIN mapProducers'
    BY <1>1, <1>4 DEF MapsAgree, Keyed
  <2>2. QED
    BY <1>1, <1>2, <1>4, <2>1 DEF Keyed
<1>14. ListenerRoutes'
  <2>1. \A t \in Transports : \A k \in Keys :
           listener'[t][k] # NoProducer =>
              listener'[t][k] \in DOMAIN producers' /\ listener'[t][k][1] = t
    BY <1>1, <1>2 DEF ListenerRoutes
  <2>2. ASSUME NEW x \in DOMAIN producers \ S, NEW k \in producers[x].keys
        PROVE  listener'[x[1]][k] = x
    <3>1. x[1] \in Transports /\ k \in Keys
      BY <1>1 DEF TypeOK, ProducerObjects
    <3>2. listener[x[1]][k] = x
      BY <1>1 DEF ListenerRoutes
    <3>3. QED
      BY <3>1, <3>2
  <2>3. QED
    BY <1>2, <2>1, <2>2 DEF ListenerRoutes
<1>15. PausedAgrees'
  <2>1. \A y \in DOMAIN consumers \ C :
           producers'[consumerProducer[y]] = producers[consumerProducer[y]]
    BY <1>2, <1>10
  <2>2. QED
    BY <1>1, <1>3, <1>6, <2>1 DEF PausedAgrees
<1>16. ObserversReady'
  <2>1. \A x \in DOMAIN producers \ S : \A o \in producerRtpObservers[x] :
          /\ o \in DOMAIN rtpObservers
          /\ ~producers[x].paused => x \in rtpObservers'[o].dBovs
    BY <1>1, <1>9 DEF ObserversReady
  <2>2. \A o \in DOMAIN rtpObservers : \A x \in rtpObservers'[o].dBovs :
          x \in DOMAIN producers \ S /\ o \in producerRtpObservers[x]
    BY <1>1, <1>9 DEF ObserversReady
  <2>3. QED
    BY <1>2, <1>8, <1>9, <2>1, <2>2 DEF ObserversReady
<1>17. QED
  BY <1>11, <1>12, <1>13, <1>14, <1>15, <1>16 DEF RouterGood, NeverFails

\* A producer leaves with its consumers.
LEMMA CloseProducerGood ==
  ASSUME RouterGood, NEW x \in ProducerObjects, CloseProducer(x)
  PROVE  RouterGood'
<1> DEFINE S == {x}
<1> DEFINE C == producerConsumers[x]
<1>1. TypeOK /\ MapsAgree /\ Keyed /\ ListenerRoutes
  BY DEF RouterGood
<1>2. /\ x \in DOMAIN producers /\ x[1] \in Transports
      /\ DOMAIN producerConsumers = DOMAIN producers
      /\ DOMAIN producerRtpObservers = DOMAIN producers
      /\ DOMAIN consumerProducer = DOMAIN consumers
      /\ x[2] \in DOMAIN mapProducers
  BY <1>1 DEF CloseProducer, MapsAgree, ProducerObjects
<1>3. C \in SUBSET DOMAIN consumers
  BY <1>1, <1>2 DEF MapsAgree
<1>4. ConsumersOfAll(S) = C
  BY DEF ConsumersOfAll
<1>5. /\ \A z \in DOMAIN producers : z[1] \in transports
      /\ \A y \in DOMAIN consumers : y[1] \in transports
      /\ transports' = transports
  BY <1>1 DEF MapsAgree, CloseProducer
<1>6. /\ producers' = Without(producers, S)
      /\ consumers' = Without(consumers, C)
      /\ consumerProducer' = Without(consumerProducer, C)
      /\ producerRtpObservers' = Without(producerRtpObservers, S)
      /\ rtpObservers' = ObserversWithout(S)
  BY DEF CloseProducer
<1>7. mapProducers' = Without(mapProducers, {z[2] : z \in S})
  <2>1. {z[2] : z \in S} = {x[2]}
    OBVIOUS
  <2>2. QED
    BY <2>1 DEF CloseProducer
<1>8. producerConsumers' = [z \in DOMAIN producers \ S |-> producerConsumers[z] \ C]
  <2>1. producerConsumers' = [z \in DOMAIN producers \ S |-> producerConsumers[z]]
    BY <1>2 DEF CloseProducer, Without, Restrict
  <2>2. ASSUME NEW z \in DOMAIN producers \ S
        PROVE  producerConsumers[z] = producerConsumers[z] \ C
    BY <1>1, <1>2 DEF MapsAgree
  <2>3. QED
    BY <2>1, <2>2
<1>9. listener' = [t \in Transports |-> [k \in Keys |->
                     IF listener[t][k] \in S THEN NoProducer ELSE listener[t][k]]]
  <2> DEFINE other(t) == [k \in Keys |->
                     IF listener[t][k] \in S THEN NoProducer ELSE listener[t][k]]
  <2>1. listener' = [listener EXCEPT ![x[1]] = Release(listener[x[1]], x)]
    BY DEF CloseProducer
  <2>2. Release(listener[x[1]], x) = other(x[1])
    BY DEF Release
  <2>3. ASSUME NEW t \in Transports, t # x[1] PROVE listener[t] = other(t)
    <3>1. listener[t] \in [Keys -> ProducerObjects \cup {NoProducer}]
      BY <1>1 DEF TypeOK
    <3>2. \A k \in Keys : listener[t][k] # x
      BY <1>1, <2>3, NoProducerAssumption DEF ListenerRoutes
    <3>3. QED
      BY <3>1, <3>2
  <2>4. DOMAIN listener = Transports
    BY <1>1 DEF TypeOK
  <2>5. QED
    BY <2>1, <2>2, <2>3, <2>4
<1>10. failed' \in BOOLEAN /\ ~failed'
  <2>1. ClosingAsserts(S)
    BY <1>2, <1>3, <1>4 DEF ClosingAsserts
  <2>2. failed' = ~ClosingAsserts(S)
    BY DEF CloseProducer
  <2>3. failed' \in BOOLEAN
    BY <2>2
  <2>4. ~failed'
    BY <2>1, <2>2
  <2>5. QED
    BY <2>3, <2>4
<1>11. QED
  <2> HIDE DEF C, S
  <2>1. S \in SUBSET DOMAIN producers
    BY <1>2 DEF S
  <2>2. QED
    BY <1>3, <1>4, <1>5, <1>6, <1>7, <1>8, <1>9, <1>10, <2>1, ClosedGood

\* A transport leaves with its producers, their consumers, and its own.
LEMMA CloseTransportGood ==
  ASSUME RouterGood, NEW t \in Transports, CloseTransport(t)
  PROVE  RouterGood'
<1> DEFINE S == ProducersOf(t)
<1> DEFINE own == ConsumersOf(t) \ ConsumersOfAll(S)
<1> DEFINE C == ConsumersOfAll(S) \cup own
<1>1. TypeOK /\ MapsAgree /\ Keyed /\ ListenerRoutes
  BY DEF RouterGood
<1>2. /\ DOMAIN producerConsumers = DOMAIN producers
      /\ DOMAIN producerRtpObservers = DOMAIN producers
      /\ DOMAIN consumerProducer = DOMAIN consumers
      /\ \A x \in DOMAIN producers : x[2] \in DOMAIN mapProducers
      /\ \A y \in DOMAIN consumers : consumerProducer[y] \in DOMAIN producers
  BY <1>1 DEF MapsAgree
<1>3. S \in SUBSET DOMAIN producers
  BY DEF ProducersOf
<1>4. ConsumersOfAll(S) \subseteq DOMAIN consumers
  BY <1>1, <1>2, <1>3 DEF MapsAgree, ConsumersOfAll
<1>5. C \in SUBSET DOMAIN consumers /\ own \subseteq DOMAIN consumers
  BY <1>4 DEF ConsumersOf
<1>6. /\ transports' \subseteq transports
      /\ \A x \in DOMAIN producers \ S : x[1] \in transports'
      /\ \A y \in DOMAIN consumers \ C : y[1] \in transports'
  BY <1>1 DEF MapsAgree, CloseTransport, ProducersOf, ConsumersOf
<1>7. /\ producers' = Without(producers, S)
      /\ consumers' = Without(consumers, C)
      /\ mapProducers' = Without(mapProducers, {x[2] : x \in S})
      /\ consumerProducer' = Without(consumerProducer, C)
      /\ producerRtpObservers' = Without(producerRtpObservers, S)
      /\ rtpObservers' = ObserversWithout(S)
  BY DEF CloseTransport
<1>8. producerConsumers' = [x \in DOMAIN producers \ S |-> producerConsumers[x] \ C]
  <2>1. producerConsumers' =
           [x \in DOMAIN producers \ S |-> producerConsumers[x] \ own]
    BY <1>2 DEF CloseTransport
  <2>2. ASSUME NEW x \in DOMAIN producers \ S
        PROVE  producerConsumers[x] \ own = producerConsumers[x] \ C
    <3>1. \A y \in producerConsumers[x] : y \notin ConsumersOfAll(S)
      BY <1>1, <1>3 DEF MapsAgree, ConsumersOfAll
    <3>2. QED
      BY <3>1
  <2>3. QED
    BY <2>1, <2>2
<1>9. listener' = [s \in Transports |-> [k \in Keys |->
                     IF listener[s][k] \in S THEN NoProducer ELSE listener[s][k]]]
  <2> DEFINE other(s) == [k \in Keys |->
                     IF listener[s][k] \in S THEN NoProducer ELSE listener[s][k]]
  <2>1. listener' = [listener EXCEPT ![t] = NoKeys] /\ DOMAIN listener = Transports
    BY <1>1 DEF CloseTransport, TypeOK
  <2>2. NoKeys = other(t)
    BY <1>1 DEF NoKeys, ListenerRoutes, ProducersOf
  <2>3. ASSUME NEW s \in Transports, s # t PROVE listener[s] = other(s)
    <3>1. listener[s] \in [Keys -> ProducerObjects \cup {NoProducer}]
      BY <1>1 DEF TypeOK
    <3>2. \A k \in Keys : listener[s][k] \notin S
      <4>1. \A x \in S : x \in ProducerObjects /\ x[1] = t
        BY <1>1, <1>3 DEF ProducersOf, TypeOK
      <4>2. QED
        BY <1>1, <2>3, <4>1, NoProducerAssumption DEF ListenerRoutes
    <3>3. QED
      BY <3>1, <3>2
  <2>4. QED
    BY <2>1, <2>2, <2>3
<1>10. failed' \in BOOLEAN /\ ~failed'
  <2> DEFINE asserts == /\ ClosingAsserts(S)
                        /\ own \subseteq DOMAIN consumerProducer
                        /\ \A y \in own : consumerProducer[y] \in DOMAIN producerConsumers
  <2>1. ClosingAsserts(S)
    BY <1>2, <1>3, <1>4 DEF ClosingAsserts
  <2>2. asserts
    BY <1>2, <1>5, <2>1
  <2>3. failed' = ~asserts
    BY DEF CloseTransport
  <2>4. failed' \in BOOLEAN
    BY <2>3
  <2>5. ~failed'
    BY <2>2, <2>3
  <2>6. QED
    BY <2>4, <2>5
<1>11. QED
  <2>1. ConsumersOfAll(S) \subseteq C
    OBVIOUS
  <2> HIDE DEF C, S
  <2>2. QED
    BY <1>3, <1>5, <1>6, <1>7, <1>8, <1>9, <1>10, <2>1, ClosedGood

\* Consumers and observers learn at once that a producer is paused or resumed.
LEMMA SetPausedGood ==
  ASSUME RouterGood, NEW x \in DOMAIN producers, NEW paused \in BOOLEAN,
         SetPaused(x, paused)
  PROVE  RouterGood'
<1>1. /\ TypeOK /\ MapsAgree /\ Keyed /\ ListenerRoutes /\ PausedAgrees
      /\ ObserversReady /\ NeverFails
  BY DEF RouterGood
<1>2. /\ transports' = transports /\ listener' = listener
      /\ mapProducers' = mapProducers
      /\ producerConsumers' = producerConsumers
      /\ consumerProducer' = consumerProducer
      /\ producerRtpObservers' = producerRtpObservers
      /\ failed' = failed
  BY DEF SetPaused
<1>3. /\ DOMAIN producers' = DOMAIN producers
      /\ producers'[x] = [producers[x] EXCEPT !.paused = paused]
      /\ \A z \in DOMAIN producers : z # x => producers'[z] = producers[z]
  BY DEF SetPaused
<1>4. \A z \in DOMAIN producers :
         /\ producers'[z] \in [paused : BOOLEAN, keys : SUBSET Keys]
         /\ producers'[z].keys = producers[z].keys
         /\ producers'[z].paused = IF z = x THEN paused ELSE producers[z].paused
  BY <1>1, <1>3 DEF TypeOK
<1>5. /\ DOMAIN consumers' = DOMAIN consumers
      /\ \A y \in DOMAIN consumers :
            consumers'[y] = IF y \in producerConsumers[x]
                            THEN [producerPaused |-> paused] ELSE consumers[y]
  BY DEF SetPaused
<1>6. /\ DOMAIN rtpObservers' = DOMAIN rtpObservers
      /\ \A o \in DOMAIN rtpObservers :
            rtpObservers'[o] =
               IF o \notin producerRtpObservers[x] THEN rtpObservers[o]
               ELSE [rtpObservers[o] EXCEPT
                        !.dBovs = IF paused THEN @ \ {x} ELSE @ \cup {x}]
  BY DEF SetPaused
<1>7. x \in ProducerObjects
  BY <1>1 DEF TypeOK
<1>8. \A o \in DOMAIN rtpObservers :
         /\ rtpObservers'[o] \in [paused : BOOLEAN, dBovs : SUBSET ProducerObjects]
         /\ rtpObservers'[o].dBovs =
               IF o \notin producerRtpObservers[x] THEN rtpObservers[o].dBovs
               ELSE IF paused THEN rtpObservers[o].dBovs \ {x}
               ELSE rtpObservers[o].dBovs \cup {x}
  <2> SUFFICES ASSUME NEW o \in DOMAIN rtpObservers
               PROVE  /\ rtpObservers'[o] \in [paused : BOOLEAN, dBovs : SUBSET ProducerObjects]
                      /\ rtpObservers'[o].dBovs =
                            IF o \notin producerRtpObservers[x] THEN rtpObservers[o].dBovs
                            ELSE IF paused THEN rtpObservers[o].dBovs \ {x}
                            ELSE rtpObservers[o].dBovs \cup {x}
    OBVIOUS
  <2>1. rtpObservers[o] \in [paused : BOOLEAN, dBovs : SUBSET ProducerObjects]
    BY <1>1 DEF TypeOK
  <2>2. CASE o \notin producerRtpObservers[x]
    BY <1>6, <2>1, <2>2
  <2>3. CASE o \in producerRtpObservers[x] /\ paused
    <3>1. rtpObservers'[o] = [rtpObservers[o] EXCEPT !.dBovs = @ \ {x}]
      BY <1>6, <2>3
    <3>2. QED
      BY <2>1, <2>3, <3>1
  <2>4. CASE o \in producerRtpObservers[x] /\ ~paused
    <3>1. rtpObservers'[o] = [rtpObservers[o] EXCEPT !.dBovs = @ \cup {x}]
      BY <1>6, <2>4
    <3>2. QED
      BY <1>7, <2>1, <2>4, <3>1
  <2>5. QED
    BY <2>2, <2>3, <2>4
<1>9. TypeOK'
  <2>1. \A y \in DOMAIN consumers' : consumers'[y] \in [producerPaused : BOOLEAN]
    BY <1>1, <1>5 DEF TypeOK
  <2>2. QED
    BY <1>1, <1>2, <1>3, <1>4, <1>5, <1>6, <1>8, <2>1 DEF TypeOK
<1>10. MapsAgree' /\ Keyed'
  BY <1>1, <1>2, <1>3, <1>5 DEF MapsAgree, Keyed
<1>11. ListenerRoutes'
  BY <1>1, <1>2, <1>3, <1>4 DEF ListenerRoutes
<1>12. PausedAgrees'
  <2>1. ASSUME NEW y \in DOMAIN consumers
        PROVE  consumers'[y].producerPaused = producers'[consumerProducer[y]].paused
    <3>1. /\ consumerProducer[y] \in DOMAIN producers
          /\ consumerProducer[y] = x <=> y \in producerConsumers[x]
      BY <1>1 DEF MapsAgree
    <3>2. CASE y \in producerConsumers[x]
      BY <1>4, <1>5, <3>1, <3>2
    <3>3. CASE y \notin producerConsumers[x]
      BY <1>1, <1>4, <1>5, <3>1, <3>3 DEF PausedAgrees
    <3>4. QED
      BY <3>2, <3>3
  <2>2. QED
    BY <1>2, <1>5, <2>1 DEF PausedAgrees
<1>13. ObserversReady'
  <2>1. ASSUME NEW z \in DOMAIN producers, NEW o \in producerRtpObservers[z],
               ~producers'[z].paused
        PROVE  z \in rtpObservers'[o].dBovs
    <3>1. o \in DOMAIN rtpObservers
      BY <1>1 DEF ObserversReady
    <3>2. CASE z = x
      BY <1>4, <1>8, <2>1, <3>1, <3>2
    <3>3. CASE z # x
      BY <1>1, <1>4, <1>8, <2>1, <3>1, <3>3 DEF ObserversReady
    <3>4. QED
      BY <3>2, <3>3
  <2>2. \A o \in DOMAIN rtpObservers : \A z \in rtpObservers'[o].dBovs :
           z \in DOMAIN producers /\ o \in producerRtpObservers[z]
    <3> SUFFICES ASSUME NEW o \in DOMAIN rtpObservers, NEW z \in rtpObservers'[o].dBovs
                 PROVE  z \in DOMAIN producers /\ o \in producerRtpObservers[z]
      OBVIOUS
    <3>1. CASE z \in rtpObservers[o].dBovs
      BY <1>1, <3>1 DEF ObserversReady
    <3>2. CASE z \notin rtpObservers[o].dBovs
      <4>1. o \in producerRtpObservers[x] /\ z = x
        BY <1>8, <3>2
      <4>2. QED
        BY <4>1
    <3>3. QED
      BY <3>1, <3>2
  <2>3. QED
    BY <1>1, <1>2, <1>3, <1>6, <2>1, <2>2 DEF ObserversReady
<1>14. QED
  BY <1>1, <1>2, <1>9, <1>10, <1>11, <1>12, <1>13 DEF RouterGood, NeverFails

\* A new consumer is in both maps and knows whether its producer is paused.
LEMMA ConsumeGood ==
  ASSUME RouterGood, NEW t \in Transports, NEW c \in Consumers,
         NEW p \in Producers, Consume(t, c, p)
  PROVE  RouterGood'
<1> DEFINE x == mapProducers[p]
<1> DEFINE y == <<t, c>>
<1>1. /\ TypeOK /\ MapsAgree /\ Keyed /\ ListenerRoutes /\ PausedAgrees
      /\ ObserversReady
  BY DEF RouterGood
<1>2. /\ t \in transports /\ y \notin DOMAIN consumers
      /\ x \in DOMAIN producers /\ x \in ProducerObjects
      /\ y \in ConsumerObjects /\ y[1] = t
      /\ DOMAIN producerConsumers = DOMAIN producers
      /\ DOMAIN consumerProducer = DOMAIN consumers
  BY <1>1 DEF Consume, MapsAgree, TypeOK, ConsumerObjects
<1>3. /\ DOMAIN consumers' = DOMAIN consumers \cup {y}
      /\ consumers'[y] = [producerPaused |-> producers[x].paused]
      /\ \A z \in DOMAIN consumers : consumers'[z] = consumers[z]
  <2>1. consumers' = With(consumers, y, [producerPaused |-> producers[x].paused])
    BY DEF Consume
  <2>2. QED
    BY <1>2, <2>1 DEF With
<1>4. /\ DOMAIN consumerProducer' = DOMAIN consumers \cup {y}
      /\ consumerProducer'[y] = x
      /\ \A z \in DOMAIN consumers : consumerProducer'[z] = consumerProducer[z]
      /\ consumerProducer' = [z \in DOMAIN consumerProducer' |-> consumerProducer'[z]]
  <2>1. consumerProducer' = With(consumerProducer, y, x)
    BY DEF Consume
  <2>2. QED
    BY <1>2, <2>1 DEF With
<1>5. /\ DOMAIN producerConsumers' = DOMAIN producers
      /\ producerConsumers'[x] = producerConsumers[x] \cup {y}
      /\ \A z \in DOMAIN producers : z # x => producerConsumers'[z] = producerConsumers[z]
      /\ producerConsumers' \in [DOMAIN producers -> SUBSET ConsumerObjects]
  <2>1. producerConsumers' = [producerConsumers EXCEPT ![x] = @ \cup {y}]
    BY DEF Consume
  <2>2. producerConsumers \in [DOMAIN producers -> SUBSET ConsumerObjects]
    BY <1>1, <1>2 DEF TypeOK
  <2>3. QED
    BY <1>2, <2>1, <2>2
<1>6. /\ transports' = transports /\ producers' = producers
      /\ listener' = listener /\ mapProducers' = mapProducers
      /\ producerRtpObservers' = producerRtpObservers
      /\ rtpObservers' = rtpObservers
  BY DEF Consume
<1>7. failed' \in BOOLEAN /\ ~failed'
  <2>1. failed' = (x \notin DOMAIN producerConsumers \/ y \in DOMAIN consumerProducer)
    BY DEF Consume
  <2>2. failed' \in BOOLEAN
    BY <2>1
  <2>3. ~failed'
    BY <1>2, <2>1
  <2>4. QED
    BY <2>2, <2>3
<1>8. TypeOK'
  <2>1. producers[x].paused \in BOOLEAN
    BY <1>1, <1>2 DEF TypeOK
  <2>2. /\ DOMAIN consumers' \subseteq ConsumerObjects
        /\ \A z \in DOMAIN consumers' : consumers'[z] \in [producerPaused : BOOLEAN]
    <3>1. consumers'[y] \in [producerPaused : BOOLEAN]
      BY <1>3, <2>1
    <3>2. \A z \in DOMAIN consumers : consumers'[z] \in [producerPaused : BOOLEAN]
      BY <1>1, <1>3 DEF TypeOK
    <3>3. DOMAIN consumers' \subseteq ConsumerObjects
      BY <1>1, <1>2, <1>3 DEF TypeOK
    <3>4. QED
      BY <1>3, <3>1, <3>2, <3>3
  <2>3. consumerProducer' \in [DOMAIN consumerProducer' -> ProducerObjects]
    BY <1>1, <1>2, <1>4 DEF TypeOK
  <2>4. QED
    BY <1>1, <1>5, <1>6, <1>7, <2>2, <2>3 DEF TypeOK
<1>9. MapsAgree'
  <2>1. \A z \in DOMAIN consumers' :
           /\ z[1] \in transports
           /\ consumerProducer'[z] \in DOMAIN producers
           /\ z \in producerConsumers'[consumerProducer'[z]]
    <3>1. /\ y[1] \in transports
          /\ consumerProducer'[y] \in DOMAIN producers
          /\ y \in producerConsumers'[consumerProducer'[y]]
      BY <1>2, <1>4, <1>5
    <3>2. \A z \in DOMAIN consumers :
             /\ z[1] \in transports
             /\ consumerProducer'[z] \in DOMAIN producers
             /\ z \in producerConsumers'[consumerProducer'[z]]
      BY <1>1, <1>4, <1>5 DEF MapsAgree
    <3>3. QED
      BY <1>3, <3>1, <3>2
  <2>2. \A w \in DOMAIN producers : \A z \in producerConsumers'[w] :
           z \in DOMAIN consumers' /\ consumerProducer'[z] = w
    <3> SUFFICES ASSUME NEW w \in DOMAIN producers, NEW z \in producerConsumers'[w]
                 PROVE  z \in DOMAIN consumers' /\ consumerProducer'[z] = w
      OBVIOUS
    <3>1. CASE z \in producerConsumers[w]
      BY <1>1, <1>3, <1>4, <3>1 DEF MapsAgree
    <3>2. CASE z \notin producerConsumers[w]
      <4>1. w = x /\ z = y
        BY <1>5, <3>2
      <4>2. QED
        BY <1>3, <1>4, <4>1
    <3>3. QED
      BY <3>1, <3>2
  <2>3. QED
    BY <1>1, <1>3, <1>4, <1>5, <1>6, <2>1, <2>2 DEF MapsAgree
<1>10. Keyed' /\ ListenerRoutes' /\ ObserversReady'
  BY <1>1, <1>6 DEF Keyed, ListenerRoutes, ObserversReady
<1>11. PausedAgrees'
  <2>1. consumers'[y].producerPaused = producers[x].paused
    BY <1>3
  <2>2. QED
    BY <1>1, <1>3, <1>4, <1>6, <2>1 DEF PausedAgrees
<1>12. QED
  BY <1>7, <1>8, <1>9, <1>10, <1>11 DEF RouterGood, NeverFails

\* A closed consumer leaves both maps.
LEMMA CloseConsumerGood ==
  ASSUME RouterGood, NEW y \in ConsumerObjects, CloseConsumer(y)
  PROVE  RouterGood'
<1> DEFINE x == consumerProducer[y]
<1>1. /\ TypeOK /\ MapsAgree /\ Keyed /\ ListenerRoutes /\ PausedAgrees
      /\ ObserversReady
  BY DEF RouterGood
<1>2. /\ y \in DOMAIN consumers /\ x \in DOMAIN producers
      /\ DOMAIN producerConsumers = DOMAIN producers
      /\ DOMAIN consumerProducer = DOMAIN consumers
  BY <1>1 DEF CloseConsumer, MapsAgree
<1>3. /\ DOMAIN consumers' = DOMAIN consumers \ {y}
      /\ \A z \in DOMAIN consumers \ {y} : consumers'[z] = consumers[z]
  BY DEF CloseConsumer, Without, Restrict
<1>4. /\ DOMAIN consumerProducer' = DOMAIN consumers \ {y}
      /\ \A z \in DOMAIN consumers \ {y} : consumerProducer'[z] = consumerProducer[z]
      /\ consumerProducer' = [z \in DOMAIN consumerProducer' |-> consumerProducer'[z]]
  BY <1>2 DEF CloseConsumer, Without, Restrict
<1>5. /\ DOMAIN producerConsumers' = DOMAIN producers
      /\ producerConsumers'[x] = producerConsumers[x] \ {y}
      /\ \A z \in DOMAIN producers : z # x => producerConsumers'[z] = producerConsumers[z]
      /\ producerConsumers' \in [DOMAIN producers -> SUBSET ConsumerObjects]
  <2>1. producerConsumers' = [producerConsumers EXCEPT ![x] = @ \ {y}]
    BY DEF CloseConsumer
  <2>2. producerConsumers \in [DOMAIN producers -> SUBSET ConsumerObjects]
    BY <1>1, <1>2 DEF TypeOK
  <2>3. QED
    BY <1>2, <2>1, <2>2
<1>6. /\ transports' = transports /\ producers' = producers
      /\ listener' = listener /\ mapProducers' = mapProducers
      /\ producerRtpObservers' = producerRtpObservers
      /\ rtpObservers' = rtpObservers
  BY DEF CloseConsumer
<1>7. failed' \in BOOLEAN /\ ~failed'
  <2>1. failed' = ~(y \in DOMAIN consumerProducer /\ x \in DOMAIN producerConsumers)
    BY DEF CloseConsumer
  <2>2. failed' \in BOOLEAN
    BY <2>1
  <2>3. ~failed'
    BY <1>2, <2>1
  <2>4. QED
    BY <2>2, <2>3
<1>8. TypeOK'
  <2>1. consumerProducer' \in [DOMAIN consumerProducer' -> ProducerObjects]
    BY <1>1, <1>2, <1>4 DEF TypeOK
  <2>2. QED
    BY <1>1, <1>3, <1>5, <1>6, <1>7, <2>1 DEF TypeOK
<1>9. MapsAgree'
  <2>1. \A z \in DOMAIN consumers' :
           /\ z[1] \in transports
           /\ consumerProducer'[z] \in DOMAIN producers
           /\ z \in producerConsumers'[consumerProducer'[z]]
    BY <1>1, <1>2, <1>3, <1>4, <1>5 DEF MapsAgree
  <2>2. \A w \in DOMAIN producers : \A z \in producerConsumers'[w] :
           z \in DOMAIN consumers' /\ consumerProducer'[z] = w
    BY <1>1, <1>2, <1>3, <1>4, <1>5 DEF MapsAgree
  <2>3. QED
    BY <1>1, <1>3, <1>4, <1>5, <1>6, <2>1, <2>2 DEF MapsAgree
<1>10. Keyed' /\ ListenerRoutes' /\ ObserversReady'
  BY <1>1, <1>6 DEF Keyed, ListenerRoutes, ObserversReady
<1>11. PausedAgrees'
  BY <1>1, <1>3, <1>4, <1>6 DEF PausedAgrees
<1>12. QED
  BY <1>7, <1>8, <1>9, <1>10, <1>11 DEF RouterGood, NeverFails

ObserverRecords == [paused : BOOLEAN, dBovs : SUBSET ProducerObjects]

\* A step that changes the observers alone concerns their maps alone.
LEMMA ObserversOnly ==
  ASSUME RouterGood,
         UNCHANGED <<transports, producers, consumers, listener, mapProducers,
                     producerConsumers, consumerProducer, failed>>,
         producerRtpObservers' \in [DOMAIN producers -> SUBSET RtpObservers],
         DOMAIN rtpObservers' \subseteq RtpObservers,
         \A o \in DOMAIN rtpObservers' : rtpObservers'[o] \in ObserverRecords,
         ObserversReady'
  PROVE  RouterGood'
<1>1. /\ TypeOK /\ MapsAgree /\ Keyed /\ ListenerRoutes /\ PausedAgrees
      /\ NeverFails
  BY DEF RouterGood
<1>2. TypeOK'
  BY <1>1 DEF TypeOK, ObserverRecords
<1>3. MapsAgree' /\ Keyed' /\ ListenerRoutes' /\ PausedAgrees' /\ NeverFails'
  BY <1>1 DEF MapsAgree, Keyed, ListenerRoutes, PausedAgrees, NeverFails
<1>4. QED
  BY <1>2, <1>3 DEF RouterGood

\* What the next lemmas use of the invariant.
LEMMA ObserverFacts ==
  ASSUME RouterGood
  PROVE  /\ producerRtpObservers \in [DOMAIN producers -> SUBSET RtpObservers]
         /\ DOMAIN producers \subseteq ProducerObjects
         /\ DOMAIN rtpObservers \subseteq RtpObservers
         /\ \A o \in DOMAIN rtpObservers : rtpObservers[o] \in ObserverRecords
         /\ \A p \in DOMAIN mapProducers : mapProducers[p] \in DOMAIN producers
         /\ ObserversReady
BY DEF RouterGood, TypeOK, MapsAgree, ObserverRecords

\* A new observer counts no producer.
LEMMA CreateRtpObserverGood ==
  ASSUME RouterGood, NEW o \in RtpObservers, CreateRtpObserver(o)
  PROVE  RouterGood'
<1> DEFINE new == [paused |-> FALSE, dBovs |-> {}]
<1>1. /\ producerRtpObservers \in [DOMAIN producers -> SUBSET RtpObservers]
      /\ DOMAIN rtpObservers \subseteq RtpObservers
      /\ \A q \in DOMAIN rtpObservers : rtpObservers[q] \in ObserverRecords
      /\ ObserversReady
  BY ObserverFacts
<1>2. UNCHANGED <<transports, producers, consumers, listener, mapProducers,
                  producerConsumers, consumerProducer, producerRtpObservers, failed>>
  BY DEF CreateRtpObserver
<1>3. /\ DOMAIN rtpObservers' = DOMAIN rtpObservers \cup {o}
      /\ rtpObservers'[o] = new
      /\ \A q \in DOMAIN rtpObservers : rtpObservers'[q] = rtpObservers[q]
  BY DEF CreateRtpObserver, With
<1>4. new \in ObserverRecords /\ new.dBovs = {}
  BY DEF ObserverRecords
<1>5. ObserversReady'
  BY <1>1, <1>2, <1>3, <1>4 DEF ObserversReady
<1>6. \A q \in DOMAIN rtpObservers' : rtpObservers'[q] \in ObserverRecords
  BY <1>1, <1>3, <1>4
<1>7. producerRtpObservers' \in [DOMAIN producers -> SUBSET RtpObservers]
  BY <1>1, <1>2
<1>8. DOMAIN rtpObservers' \subseteq RtpObservers
  BY <1>1, <1>3
<1>9. QED
  BY <1>2, <1>5, <1>6, <1>7, <1>8, ObserversOnly

\* A closed observer is forgotten by every producer.
LEMMA CloseRtpObserverGood ==
  ASSUME RouterGood, NEW o \in RtpObservers, CloseRtpObserver(o)
  PROVE  RouterGood'
<1>1. /\ producerRtpObservers \in [DOMAIN producers -> SUBSET RtpObservers]
      /\ DOMAIN rtpObservers \subseteq RtpObservers
      /\ \A q \in DOMAIN rtpObservers : rtpObservers[q] \in ObserverRecords
      /\ ObserversReady
  BY ObserverFacts
<1>2. UNCHANGED <<transports, producers, consumers, listener, mapProducers,
                  producerConsumers, consumerProducer, failed>>
  BY DEF CloseRtpObserver
<1>3. /\ DOMAIN rtpObservers' = DOMAIN rtpObservers \ {o}
      /\ \A q \in DOMAIN rtpObservers \ {o} : rtpObservers'[q] = rtpObservers[q]
  BY DEF CloseRtpObserver, Without, Restrict
<1>4. producerRtpObservers' = [x \in DOMAIN producers |-> producerRtpObservers[x] \ {o}]
  BY <1>1 DEF CloseRtpObserver
<1>5. producerRtpObservers' \in [DOMAIN producers -> SUBSET RtpObservers]
  BY <1>1, <1>4
<1>6. ObserversReady'
  BY <1>1, <1>2, <1>3, <1>4 DEF ObserversReady
<1>7. /\ DOMAIN rtpObservers' \subseteq RtpObservers
      /\ \A q \in DOMAIN rtpObservers' : rtpObservers'[q] \in ObserverRecords
  BY <1>1, <1>3
<1>8. QED
  BY <1>2, <1>5, <1>6, <1>7, ObserversOnly

\* Pausing an observer changes no relation.
LEMMA PauseRtpObserverGood ==
  ASSUME RouterGood, NEW o \in RtpObservers, NEW paused \in BOOLEAN,
         PauseRtpObserver(o, paused)
  PROVE  RouterGood'
<1> DEFINE r == [rtpObservers[o] EXCEPT !.paused = paused]
<1>1. /\ producerRtpObservers \in [DOMAIN producers -> SUBSET RtpObservers]
      /\ DOMAIN rtpObservers \subseteq RtpObservers
      /\ \A q \in DOMAIN rtpObservers : rtpObservers[q] \in ObserverRecords
      /\ ObserversReady
  BY ObserverFacts
<1>2. UNCHANGED <<transports, producers, consumers, listener, mapProducers,
                  producerConsumers, consumerProducer, producerRtpObservers, failed>>
  BY DEF PauseRtpObserver
<1>3. o \in DOMAIN rtpObservers /\ rtpObservers' = [rtpObservers EXCEPT ![o] = r]
  BY DEF PauseRtpObserver
<1>4. r \in ObserverRecords /\ r.dBovs = rtpObservers[o].dBovs
  BY <1>1, <1>3 DEF ObserverRecords
<1>5. /\ DOMAIN rtpObservers' = DOMAIN rtpObservers
      /\ rtpObservers'[o] = r
      /\ \A q \in DOMAIN rtpObservers : q # o => rtpObservers'[q] = rtpObservers[q]
  BY <1>3
<1>6. ObserversReady'
  BY <1>1, <1>2, <1>4, <1>5 DEF ObserversReady
<1>7. \A q \in DOMAIN rtpObservers' : rtpObservers'[q] \in ObserverRecords
  BY <1>1, <1>4, <1>5
<1>8. producerRtpObservers' \in [DOMAIN producers -> SUBSET RtpObservers]
  BY <1>1, <1>2
<1>9. QED
  BY <1>1, <1>2, <1>5, <1>6, <1>7, <1>8, ObserversOnly

\* The producer and the observer learn of each other in the same step.
LEMMA AddProducerGood ==
  ASSUME RouterGood, NEW o \in RtpObservers, NEW p \in Producers, AddProducer(o, p)
  PROVE  RouterGood'
<1> DEFINE x == mapProducers[p]
<1> DEFINE r == [rtpObservers[o] EXCEPT !.dBovs = @ \cup {x}]
<1>1. /\ producerRtpObservers \in [DOMAIN producers -> SUBSET RtpObservers]
      /\ DOMAIN producers \subseteq ProducerObjects
      /\ DOMAIN rtpObservers \subseteq RtpObservers
      /\ \A q \in DOMAIN rtpObservers : rtpObservers[q] \in ObserverRecords
      /\ x \in DOMAIN producers
      /\ ObserversReady
  BY ObserverFacts DEF AddProducer
<1>2. UNCHANGED <<transports, producers, consumers, listener, mapProducers,
                  producerConsumers, consumerProducer, failed>>
  BY DEF AddProducer
<1>3. o \in DOMAIN rtpObservers /\ rtpObservers' = [rtpObservers EXCEPT ![o] = r]
  BY DEF AddProducer
<1>4. r \in ObserverRecords /\ r.dBovs = rtpObservers[o].dBovs \cup {x}
  BY <1>1, <1>3 DEF ObserverRecords
<1>5. /\ DOMAIN rtpObservers' = DOMAIN rtpObservers
      /\ rtpObservers'[o] = r
      /\ \A q \in DOMAIN rtpObservers : q # o => rtpObservers'[q] = rtpObservers[q]
  BY <1>3
<1>6. producerRtpObservers' = [producerRtpObservers EXCEPT ![x] = @ \cup {o}]
  BY DEF AddProducer
<1>7. /\ producerRtpObservers' \in [DOMAIN producers -> SUBSET RtpObservers]
      /\ \A z \in DOMAIN producers : \A q :
            q \in producerRtpObservers'[z] <=>
               q \in producerRtpObservers[z] \/ (z = x /\ q = o)
  BY <1>1, <1>6
<1>8. \A q \in DOMAIN rtpObservers : \A z :
         z \in rtpObservers'[q].dBovs <=>
            z \in rtpObservers[q].dBovs \/ (z = x /\ q = o)
  BY <1>4, <1>5
<1>9. ObserversReady'
  <2>1. \A z \in DOMAIN producers : \A q \in producerRtpObservers'[z] :
           /\ q \in DOMAIN rtpObservers
           /\ ~producers[z].paused => z \in rtpObservers'[q].dBovs
    BY <1>1, <1>3, <1>7, <1>8 DEF ObserversReady
  <2>2. \A q \in DOMAIN rtpObservers : \A z \in rtpObservers'[q].dBovs :
           z \in DOMAIN producers /\ q \in producerRtpObservers'[z]
    BY <1>1, <1>7, <1>8 DEF ObserversReady
  <2>3. QED
    BY <1>2, <1>5, <2>1, <2>2 DEF ObserversReady
<1>10. \A q \in DOMAIN rtpObservers' : rtpObservers'[q] \in ObserverRecords
  BY <1>1, <1>4, <1>5
<1>11. QED
  BY <1>1, <1>2, <1>5, <1>7, <1>9, <1>10, ObserversOnly

\* They forget each other in the same step.
LEMMA RemoveProducerGood ==
  ASSUME RouterGood, NEW o \in RtpObservers, NEW p \in Producers, RemoveProducer(o, p)
  PROVE  RouterGood'
<1> DEFINE x == mapProducers[p]
<1> DEFINE r == [rtpObservers[o] EXCEPT !.dBovs = @ \ {x}]
<1>1. /\ producerRtpObservers \in [DOMAIN producers -> SUBSET RtpObservers]
      /\ DOMAIN rtpObservers \subseteq RtpObservers
      /\ \A q \in DOMAIN rtpObservers : rtpObservers[q] \in ObserverRecords
      /\ x \in DOMAIN producers
      /\ ObserversReady
  BY ObserverFacts DEF RemoveProducer
<1>2. UNCHANGED <<transports, producers, consumers, listener, mapProducers,
                  producerConsumers, consumerProducer, failed>>
  BY DEF RemoveProducer
<1>3. o \in DOMAIN rtpObservers /\ rtpObservers' = [rtpObservers EXCEPT ![o] = r]
  BY DEF RemoveProducer
<1>4. r \in ObserverRecords /\ r.dBovs = rtpObservers[o].dBovs \ {x}
  BY <1>1, <1>3 DEF ObserverRecords
<1>5. /\ DOMAIN rtpObservers' = DOMAIN rtpObservers
      /\ rtpObservers'[o] = r
      /\ \A q \in DOMAIN rtpObservers : q # o => rtpObservers'[q] = rtpObservers[q]
  BY <1>3
<1>6. producerRtpObservers' = [producerRtpObservers EXCEPT ![x] = @ \ {o}]
  BY DEF RemoveProducer
<1>7. /\ producerRtpObservers' \in [DOMAIN producers -> SUBSET RtpObservers]
      /\ \A z \in DOMAIN producers : \A q :
            q \in producerRtpObservers'[z] <=>
               q \in producerRtpObservers[z] /\ ~(z = x /\ q = o)
  BY <1>1, <1>6
<1>8. \A q \in DOMAIN rtpObservers : \A z :
         z \in rtpObservers'[q].dBovs <=>
            z \in rtpObservers[q].dBovs /\ ~(z = x /\ q = o)
  BY <1>4, <1>5
<1>9. ObserversReady'
  <2>1. \A z \in DOMAIN producers : \A q \in producerRtpObservers'[z] :
           /\ q \in DOMAIN rtpObservers
           /\ ~producers[z].paused => z \in rtpObservers'[q].dBovs
    BY <1>1, <1>7, <1>8 DEF ObserversReady
  <2>2. \A q \in DOMAIN rtpObservers : \A z \in rtpObservers'[q].dBovs :
           z \in DOMAIN producers /\ q \in producerRtpObservers'[z]
    BY <1>1, <1>7, <1>8 DEF ObserversReady
  <2>3. QED
    BY <1>2, <1>5, <2>1, <2>2 DEF ObserversReady
<1>10. \A q \in DOMAIN rtpObservers' : rtpObservers'[q] \in ObserverRecords
  BY <1>1, <1>4, <1>5
<1>11. QED
  BY <1>1, <1>2, <1>5, <1>7, <1>9, <1>10, ObserversOnly

\* A packet finds a living producer of its transport, which the observers it
\* was added to can look up; the SSRC it teaches was nobody's.
LEMMA ReceiveRtpPacketGood ==
  ASSUME RouterGood, NEW t \in Transports, NEW ssrc \in Ssrcs, NEW mid \in Mids,
         ReceiveRtpPacket(t, ssrc, mid)
  PROVE  RouterGood'
<1> DEFINE x == Lookup(listener[t], ssrc, mid)
<1>1. /\ TypeOK /\ MapsAgree /\ Keyed /\ ListenerRoutes /\ PausedAgrees
      /\ ObserversReady
  BY DEF RouterGood
<1>2. ssrc \in Keys /\ mid \in Keys
  BY DEF Keys
<1>3. /\ x # NoProducer
      /\ listener' = [listener EXCEPT ![t] = [listener[t] EXCEPT ![ssrc] = x]]
  BY DEF ReceiveRtpPacket
<1>4. /\ x = listener[t][ssrc] \/ x = listener[t][mid]
      /\ listener[t][ssrc] # NoProducer => x = listener[t][ssrc]
  BY DEF Lookup
<1>5. x \in DOMAIN producers /\ x[1] = t /\ x \in ProducerObjects
  BY <1>1, <1>2, <1>3, <1>4 DEF ListenerRoutes, TypeOK
<1>6. /\ UNCHANGED <<transports, producers, consumers, mapProducers, producerConsumers,
                    consumerProducer, producerRtpObservers, rtpObservers>>
  BY DEF ReceiveRtpPacket
<1>7. /\ listener' \in [Transports -> [Keys -> ProducerObjects \cup {NoProducer}]]
      /\ \A s \in Transports : \A k \in Keys :
            listener'[s][k] = IF s = t /\ k = ssrc THEN x ELSE listener[s][k]
  <2>1. listener \in [Transports -> [Keys -> ProducerObjects \cup {NoProducer}]]
    BY <1>1 DEF TypeOK
  <2> HIDE DEF x
  <2>2. QED
    BY <1>2, <1>3, <1>5, <2>1
<1>8. failed' \in BOOLEAN /\ ~failed'
  <2> DEFINE fails == /\ ~producers[x].paused
                      /\ \/ x \notin DOMAIN producerConsumers
                         \/ \E o \in producerRtpObservers[x] :
                               ~rtpObservers[o].paused /\ x \notin rtpObservers[o].dBovs
  <2>1. ~fails
    BY <1>1, <1>5 DEF MapsAgree, ObserversReady
  <2>2. failed' = fails
    BY DEF ReceiveRtpPacket
  <2>3. failed' \in BOOLEAN
    BY <2>2
  <2>4. ~failed'
    BY <2>1, <2>2
  <2>5. QED
    BY <2>3, <2>4
<1>9. TypeOK'
  BY <1>1, <1>6, <1>7, <1>8 DEF TypeOK
<1>10. ListenerRoutes'
  <2>1. \A s \in Transports : \A k \in Keys :
           listener'[s][k] # NoProducer =>
              listener'[s][k] \in DOMAIN producers /\ listener'[s][k][1] = s
    <3> HIDE DEF x
    <3>1. QED
      BY <1>1, <1>5, <1>7 DEF ListenerRoutes
  <2>2. ASSUME NEW z \in DOMAIN producers, NEW k \in producers[z].keys
        PROVE  listener'[z[1]][k] = z
    <3>1. z[1] \in Transports /\ k \in Keys /\ z # NoProducer
      BY <1>1, NoProducerAssumption DEF TypeOK, ProducerObjects
    <3>2. listener[z[1]][k] = z
      BY <1>1 DEF ListenerRoutes
    <3>3. CASE z[1] = t /\ k = ssrc
      BY <1>4, <1>7, <3>1, <3>2, <3>3
    <3>4. CASE ~(z[1] = t /\ k = ssrc)
      BY <1>7, <3>1, <3>2, <3>4
    <3>5. QED
      BY <3>3, <3>4
  <2>3. QED
    BY <1>6, <2>1, <2>2 DEF ListenerRoutes
<1>11. MapsAgree' /\ Keyed' /\ PausedAgrees' /\ ObserversReady'
  BY <1>1, <1>6 DEF MapsAgree, Keyed, PausedAgrees, ObserversReady
<1>12. QED
  BY <1>8, <1>9, <1>10, <1>11 DEF RouterGood, NeverFails

\* Every step keeps the maps exact.
LEMMA NextGood == RouterGood /\ [Next]_vars => RouterGood'
<1> SUFFICES ASSUME RouterGood, [Next]_vars PROVE RouterGood'
  OBVIOUS
<1>1. CASE UNCHANGED vars
  BY <1>1 DEF vars, RouterGood, TypeOK, MapsAgree, Keyed, ListenerRoutes,
              PausedAgrees, ObserversReady, NeverFails
<1>2. ASSUME NEW t \in Transports, CreateTransport(t) \/ CloseTransport(t)
      PROVE  RouterGood'
  BY <1>2, CreateTransportGood, CloseTransportGood
<1>3. ASSUME NEW t \in Transports, NEW p \in Producers, NEW keys \in Declarable(p),
             Produce(t, p, keys) \/ ProduceRefused(t, p, keys)
      PROVE  RouterGood'
  BY <1>3, ProduceGood, ProduceRefusedGood
<1>4. ASSUME NEW t \in Transports, NEW c \in Consumers, NEW p \in Producers,
             Consume(t, c, p)
      PROVE  RouterGood'
  BY <1>4, ConsumeGood
<1>5. ASSUME NEW x \in ProducerObjects,
             CloseProducer(x) \/ PauseProducer(x) \/ ResumeProducer(x)
      PROVE  RouterGood'
  BY <1>5, CloseProducerGood, SetPausedGood DEF PauseProducer, ResumeProducer
<1>6. ASSUME NEW y \in ConsumerObjects, CloseConsumer(y)
      PROVE  RouterGood'
  BY <1>6, CloseConsumerGood
<1>7. ASSUME NEW o \in RtpObservers, CreateRtpObserver(o) \/ CloseRtpObserver(o)
      PROVE  RouterGood'
  BY <1>7, CreateRtpObserverGood, CloseRtpObserverGood
<1>8. ASSUME NEW o \in RtpObservers, NEW paused \in BOOLEAN, PauseRtpObserver(o, paused)
      PROVE  RouterGood'
  BY <1>8, PauseRtpObserverGood
<1>9. ASSUME NEW o \in RtpObservers, NEW p \in Producers,
             AddProducer(o, p) \/ RemoveProducer(o, p)
      PROVE  RouterGood'
  BY <1>9, AddProducerGood, RemoveProducerGood
<1>10. ASSUME NEW t \in Transports, NEW ssrc \in Ssrcs, NEW mid \in Mids,
              ReceiveRtpPacket(t, ssrc, mid)
       PROVE  RouterGood'
  BY <1>10, ReceiveRtpPacketGood
<1>11. CASE Request
  BY <1>2, <1>3, <1>4, <1>5, <1>6, <1>7, <1>8, <1>9, <1>11 DEF Request
<1>12. QED
  BY <1>1, <1>10, <1>11 DEF Next

\* All relations of the router hold in every state it can reach.
THEOREM RouterInvariance == Spec => []RouterGood
<1>1. QED
  BY InitGood, NextGood, PTL DEF Spec

\* The types of the router's maps.
THEOREM RouterTypeCorrect == Spec => []TypeOK
<1>1. RouterGood => TypeOK
  BY DEF RouterGood
<1>2. QED
  BY RouterInvariance, <1>1, PTL

\* The maps of producers and consumers are exact: no pointer dangles.
THEOREM MapsAgreeAlways == Spec => []MapsAgree
<1>1. RouterGood => MapsAgree
  BY DEF RouterGood
<1>2. QED
  BY RouterInvariance, <1>1, PTL

\* A producer id names one producer of the whole router.
THEOREM ProducerIdsUniqueAlways == Spec => []ProducerIdsUnique
<1>1. RouterGood => ProducerIdsUnique
  BY DEF RouterGood, Keyed, ProducerIdsUnique
<1>2. QED
  BY RouterInvariance, <1>1, PTL

\* The listeners lead to living producers, and to those that declared the key.
THEOREM ListenerRoutesAlways == Spec => []ListenerRoutes
<1>1. RouterGood => ListenerRoutes
  BY DEF RouterGood
<1>2. QED
  BY RouterInvariance, <1>1, PTL

\* Consumers know whether their producer is paused.
THEOREM PausedAgreesAlways == Spec => []PausedAgrees
<1>1. RouterGood => PausedAgrees
  BY DEF RouterGood
<1>2. QED
  BY RouterInvariance, <1>1, PTL

\* Observers are ready for the packets of the producers they were given.
THEOREM ObserversReadyAlways == Spec => []ObserversReady
<1>1. RouterGood => ObserversReady
  BY DEF RouterGood
<1>2. QED
  BY RouterInvariance, <1>1, PTL

\* No assertion of the router fails and no lookup throws.
THEOREM NeverFailsAlways == Spec => []NeverFails
<1>1. RouterGood => NeverFails
  BY DEF RouterGood
<1>2. QED
  BY RouterInvariance, <1>1, PTL
=============================================================================
