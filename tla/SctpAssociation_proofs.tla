----------------------- MODULE SctpAssociation_proofs -----------------------
(***************************************************************************)
(* Proofs about SctpAssociation.  They rest on SctpAssumption alone: any   *)
(* limits, streams and messages, any interleaving of the parts.            *)
(***************************************************************************)
EXTENDS SctpAssociation, TLAPS

Unit == [message : 1 .. MaxMessages, unit : Nat]

SeriesRecords ==
    [units : Seq(Unit), fresh : BOOLEAN, ssn : 0 .. MaxMessages,
     outcome : {"none", "buffered", "delivered", "refused"}]

\* The types of the buffers, which TypeOK leaves out, and what the outcome of the
\* last part says of them.
BuffersOK ==
    /\ messageBuffer \in Seq(Unit)
    /\ delivered \in Seq(Unit)
    /\ series \in SeriesRecords
    /\ series.outcome \in {"none", "delivered"} => messageBuffer = <<>>
    /\ series.outcome = "buffered" => lastSsnReceived = series.ssn
    /\ series.outcome = "refused" => lastSsnReceived = 0

\* Every message has a number of its own, and SSNs count messages.
Numbered ==
    /\ \A s \in PeerStreams :
          /\ nextSsn[s] <= sent
          /\ current[s] # Nothing => current[s].message <= sent
    /\ \A s, t \in PeerStreams :
          (/\ current[s] # Nothing /\ current[t] # Nothing
           /\ current[s].message = current[t].message) => s = t
    /\ series.units # <<>> => series.units[1].message <= sent

\* A message that goes on where its fresh series ended finds it in the buffer.
SeriesInBuffer ==
    \A s \in PeerStreams :
        (/\ series.fresh /\ Len(series.units) <= MaxSctpMessageSize
         /\ series.units # <<>> /\ current[s] # Nothing
         /\ current[s].message = series.units[1].message) =>
            /\ messageBuffer = series.units
            /\ lastSsnReceived = current[s].ssn

\* What is wanted beyond what there is, is one increment.
WantedIsNext == desiredOs > os => desiredOs = os + AdditionalOs(os)

IInv ==
    /\ TypeOK
    /\ BuffersOK
    /\ BufferFits
    /\ Numbered
    /\ SeriesInBuffer
    /\ WantedIsNext
-----------------------------------------------------------------------------
(***************************************************************************)
(* The operators.                                                          *)
(***************************************************************************)
\* Adding streams does not pass the limit.
LEMMA AdditionalOsBounded ==
    ASSUME NEW n \in 1 .. MaxSctpStreams
    PROVE  /\ AdditionalOs(n) \in Nat
           /\ n + AdditionalOs(n) \in 1 .. MaxSctpStreams
           /\ AdditionalOs(n) = 0 => n = MaxSctpStreams
  BY SctpAssumption DEF AdditionalOs

\* The units of a part.
LEMMA UnitsOfPart ==
    ASSUME NEW message \in 1 .. MaxMessages, NEW from \in Nat, NEW n \in Nat \ {0}
    PROVE  /\ Units(message, from, n) \in Seq(Unit)
           /\ Len(Units(message, from, n)) = n
           /\ Units(message, from, n) # <<>>
           /\ Units(message, from, n)[1].message = message
<1> DEFINE u == Units(message, from, n)
<1>1. u \in [1 .. n -> Unit]
  BY SctpAssumption DEF Units, Unit
<1>2. u \in Seq(Unit) /\ Len(u) = n
  BY <1>1
<1>3. u[1].message = message
  BY DEF Units
<1> QED
  BY <1>2, <1>3

\* Receive() keeps the buffer within its limit.
LEMMA ReceiveFits ==
    ASSUME NEW ssn \in 0 .. MaxMessages, NEW part \in Seq(Unit), NEW eor \in BOOLEAN,
           messageBuffer \in Seq(Unit), BufferFits, lastSsnReceived \in 0 .. MaxMessages,
           Receive(ssn, part, eor)
    PROVE  /\ messageBuffer' \in Seq(Unit) /\ delivered' \in Seq(Unit)
           /\ lastSsnReceived' \in 0 .. MaxMessages
           /\ BufferFits'
<1> DEFINE buffer == BufferFor(ssn)
<1>0. buffer \in Seq(Unit) /\ Len(buffer) <= MaxSctpMessageSize
  BY SctpAssumption DEF BufferFor, BufferFits
<1>1. buffer \o part \in Seq(Unit) /\ Len(buffer \o part) = Len(buffer) + Len(part)
  BY <1>0
<1>2. CASE Exceeds(buffer, part)
  BY <1>0, <1>2, SctpAssumption DEF Receive, BufferFits
<1>3. CASE ~Exceeds(buffer, part)
  <2>1. /\ messageBuffer' = IF eor THEN <<>> ELSE buffer \o part
        /\ lastSsnReceived' = ssn
        /\ delivered' = IF eor THEN buffer \o part ELSE <<>>
    BY <1>3 DEF Receive
  <2>2. Len(buffer \o part) <= MaxSctpMessageSize
    BY <1>0, <1>1, <1>3, SctpAssumption DEF Exceeds
  <2>3. CASE eor
    BY <2>1, <2>3, <1>1, SctpAssumption DEF BufferFits
  <2>4. CASE ~eor
    BY <2>1, <2>2, <2>4, <1>1 DEF BufferFits
  <2> QED
    BY <2>3, <2>4
<1> QED
  BY <1>2, <1>3
-----------------------------------------------------------------------------
(***************************************************************************)
(* The invariant, one part of the state at a time.                         *)
(***************************************************************************)
LEMMA InitIInv == Init => IInv
<1> SUFFICES ASSUME Init PROVE IInv
  OBVIOUS
<1>1. TypeOK
  <2>1. /\ nextSsn \in [PeerStreams -> 0 .. MaxMessages]
        /\ current \in [PeerStreams -> PeerMessages]
    BY SctpAssumption DEF Init, PeerMessages
  <2>2. os \in 1 .. MaxSctpStreams /\ desiredOs \in 0 .. MaxSctpStreams
    BY SctpAssumption DEF Init
  <2>3. lastSsnReceived \in 0 .. MaxMessages /\ sent \in 0 .. MaxMessages
    BY SctpAssumption DEF Init
  <2>4. /\ state = "new" /\ request = "none" /\ resetPending = {} /\ refused = FALSE
    BY DEF Init
  <2> QED
    BY <2>1, <2>2, <2>3, <2>4 DEF TypeOK
<1>2. BuffersOK /\ BufferFits
  BY SctpAssumption DEF Init, BuffersOK, SeriesRecords, BufferFits, NoSeries
<1>3. Numbered /\ SeriesInBuffer
  BY DEF Init, Numbered, SeriesInBuffer, NoSeries
<1>4. WantedIsNext
  BY SctpAssumption DEF Init, WantedIsNext
<1> QED
  BY <1>1, <1>2, <1>3, <1>4 DEF IInv

\* Asking for streams keeps what is wanted within the limit, one increment
\* beyond the n there are.
LEMMA AddOutgoingStreamsKeeps ==
    ASSUME TypeOK, NEW n \in 1 .. MaxSctpStreams, NEW st, NEW force \in BOOLEAN,
           AddOutgoingStreams(n, st, force)
    PROVE  /\ desiredOs' \in 0 .. MaxSctpStreams
           /\ desiredOs' \in {desiredOs, n + AdditionalOs(n)}
           /\ force /\ AdditionalOs(n) # 0 => desiredOs' = n + AdditionalOs(n)
           /\ request' \in {"none", "add", "reset"}
           /\ refused' \in BOOLEAN
<1>1. /\ AdditionalOs(n) \in Nat
      /\ n + AdditionalOs(n) \in 1 .. MaxSctpStreams
  BY AdditionalOsBounded
<1>2. /\ desiredOs \in 0 .. MaxSctpStreams /\ refused \in BOOLEAN
      /\ request \in {"none", "add", "reset"}
  BY DEF TypeOK
<1>3. /\ desiredOs' \in {desiredOs, n + AdditionalOs(n)}
      /\ force /\ AdditionalOs(n) # 0 => desiredOs' = n + AdditionalOs(n)
  BY DEF AddOutgoingStreams
<1>4. request' \in {"none", "add", "reset"} /\ refused' \in BOOLEAN
  BY <1>2 DEF AddOutgoingStreams, RequestStreams
<1> QED
  BY <1>1, <1>2, <1>3, <1>4, SctpAssumption

\* Nor do resets of streams disturb the types.
LEMMA ResetKeeps ==
    ASSUME TypeOK, NEW streams, streams \subseteq 0 .. MaxSctpStreams - 1,
           NEW direction, ResetSctpStream(streams, direction)
    PROVE  /\ request' \in {"none", "add", "reset"}
           /\ resetPending' \subseteq 0 .. MaxSctpStreams - 1
  BY DEF TypeOK, ResetSctpStream

LEMMA AfterRequestKeeps ==
    ASSUME TypeOK, AfterRequest
    PROVE  /\ request' \in {"none", "add", "reset"}
           /\ resetPending' \subseteq 0 .. MaxSctpStreams - 1
  BY DEF TypeOK, AfterRequest

\* The steps that leave the messages alone keep the invariant when the fields of
\* the association keep theirs.
LEMMA AssociationStep ==
    ASSUME IInv,
           UNCHANGED <<messageBuffer, lastSsnReceived, series, peer>>,
           delivered' = <<>>,
           state' \in {"new", "connecting", "connected", "failed", "closed"},
           os' \in 1 .. MaxSctpStreams, desiredOs' \in 0 .. MaxSctpStreams,
           request' \in {"none", "add", "reset"},
           resetPending' \subseteq 0 .. MaxSctpStreams - 1,
           refused' \in BOOLEAN,
           desiredOs' > os' => desiredOs' = os' + AdditionalOs(os')
    PROVE  IInv'
<1>1. TypeOK'
  BY DEF IInv, TypeOK, peer, PeerMessages
<1>2. BuffersOK' /\ BufferFits'
  BY DEF IInv, BuffersOK, BufferFits
<1>3. Numbered'
  BY DEF IInv, Numbered, peer
<1>4. SeriesInBuffer'
  BY DEF IInv, SeriesInBuffer, peer
<1>5. WantedIsNext'
  BY DEF WantedIsNext, AdditionalOs
<1> QED
  BY <1>1, <1>2, <1>3, <1>4, <1>5 DEF IInv

\* The steps that cut off messages, and may number those of some streams anew,
\* keep it, too.
LEMMA CutStep ==
    ASSUME IInv,
           UNCHANGED <<messageBuffer, lastSsnReceived, series, sent>>,
           delivered' = <<>>,
           nextSsn' \in [PeerStreams -> 0 .. MaxMessages],
           current' \in [PeerStreams -> PeerMessages],
           \A s \in PeerStreams : nextSsn'[s] <= nextSsn[s],
           \A s \in PeerStreams : current'[s] \in {current[s], Nothing},
           state' \in {"new", "connecting", "connected", "failed", "closed"},
           os' \in 1 .. MaxSctpStreams, desiredOs' \in 0 .. MaxSctpStreams,
           request' \in {"none", "add", "reset"},
           resetPending' \subseteq 0 .. MaxSctpStreams - 1,
           refused' \in BOOLEAN,
           desiredOs' > os' => desiredOs' = os' + AdditionalOs(os')
    PROVE  IInv'
<1>0. /\ sent \in 0 .. MaxMessages
      /\ nextSsn \in [PeerStreams -> 0 .. MaxMessages]
  BY DEF IInv, TypeOK
<1>1. TypeOK'
  BY DEF IInv, TypeOK, PeerMessages
<1>2. BuffersOK' /\ BufferFits'
  BY DEF IInv, BuffersOK, BufferFits
<1>3. Numbered'
  <2>1. ASSUME NEW s \in PeerStreams
        PROVE  /\ nextSsn'[s] <= sent
               /\ current'[s] # Nothing => current'[s].message <= sent
    <3>1. /\ nextSsn[s] <= sent
          /\ current[s] # Nothing => current[s].message <= sent
      BY DEF IInv, Numbered
    <3>2. nextSsn'[s] \in 0 .. MaxMessages /\ nextSsn[s] \in 0 .. MaxMessages
      BY <1>0
    <3>3. nextSsn'[s] <= nextSsn[s] /\ current'[s] \in {current[s], Nothing}
      OBVIOUS
    <3> QED
      BY <1>0, <3>1, <3>2, <3>3, SctpAssumption
  <2>2. ASSUME NEW s \in PeerStreams, NEW t \in PeerStreams,
               current'[s] # Nothing, current'[t] # Nothing,
               current'[s].message = current'[t].message
        PROVE  s = t
    <3>1. current'[s] = current[s] /\ current'[t] = current[t]
      BY <2>2
    <3> QED
      BY <2>2, <3>1 DEF IInv, Numbered
  <2>3. series.units # <<>> => series.units[1].message <= sent
    BY DEF IInv, Numbered
  <2> QED
    BY <2>1, <2>2, <2>3 DEF Numbered, Nothing
<1>4. SeriesInBuffer'
  <2> SUFFICES ASSUME NEW s \in PeerStreams, series.fresh,
                      Len(series.units) <= MaxSctpMessageSize,
                      series.units # <<>>, current'[s] # Nothing,
                      current'[s].message = series.units[1].message
               PROVE  messageBuffer = series.units /\ lastSsnReceived = current'[s].ssn
    BY DEF SeriesInBuffer, Nothing
  <2>1. current'[s] = current[s]
    OBVIOUS
  <2> QED
    BY <2>1 DEF IInv, SeriesInBuffer
<1>5. WantedIsNext'
  BY DEF WantedIsNext, AdditionalOs
<1> QED
  BY <1>1, <1>2, <1>3, <1>4, <1>5 DEF IInv
-----------------------------------------------------------------------------
(***************************************************************************)
(* A part of a message comes.                                              *)
(***************************************************************************)
\* What is left in the buffer when a message comes that can be told from what
\* came before has another SSN.
LEMMA ApartFromBuffer ==
    ASSUME BuffersOK, NEW ssn, Apart(ssn)
    PROVE  BufferFor(ssn) = <<>>
  BY DEF BuffersOK, SeriesRecords, Apart, BufferFor

\* A fresh series that is not too long is in the buffer, or was delivered.
LEMMA SeriesStep ==
    ASSUME BuffersOK, lastSsnReceived \in 0 .. MaxMessages,
           NEW message, NEW ssn \in 0 .. MaxMessages, NEW eor \in BOOLEAN,
           NEW part \in Seq(Unit), part # <<>>, part[1].message = message,
           Receive(ssn, part, eor), series' = SeriesWith(message, ssn, part, eor),
           (/\ series.fresh /\ Len(series.units) <= MaxSctpMessageSize
            /\ series.units # <<>> /\ series.units[1].message = message) =>
               messageBuffer = series.units /\ lastSsnReceived = ssn
    PROVE  /\ messageBuffer' \in Seq(Unit) /\ delivered' \in Seq(Unit) => BuffersOK'
           /\ series'.units # <<>> /\ series'.units[1].message = message
           /\ (series'.fresh /\ Len(series'.units) <= MaxSctpMessageSize) =>
                 \/ eor /\ delivered' = series'.units
                 \/ /\ ~eor /\ delivered' = <<>>
                    /\ messageBuffer' = series'.units /\ lastSsnReceived' = ssn
<1> DEFINE goesOn == series.units # <<>> /\ series.units[1].message = message
           units == IF goesOn THEN series.units \o part ELSE part
           fresh == IF goesOn THEN series.fresh ELSE Apart(ssn)
           outcome == Outcome(ssn, part, eor)
<1>1. /\ series.units \in Seq(Unit) /\ series.fresh \in BOOLEAN
      /\ messageBuffer \in Seq(Unit)
  BY DEF BuffersOK, SeriesRecords
<1>2. units \in Seq(Unit) /\ units # <<>> /\ units[1].message = message
  <2>1. CASE goesOn
    <3>1. /\ series.units \o part \in Seq(Unit) /\ series.units \o part # <<>>
          /\ (series.units \o part)[1] = series.units[1]
      BY <1>1, <2>1
    <3> QED
      BY <2>1, <3>1
  <2>2. CASE ~goesOn
    BY <2>2
  <2> QED
    BY <2>1, <2>2
<1>3. fresh \in BOOLEAN
  BY <1>1 DEF Apart
<1>4. /\ outcome \in {"buffered", "delivered", "refused"}
      /\ outcome = "delivered" => messageBuffer' = <<>>
      /\ outcome = "buffered" => lastSsnReceived' = ssn
      /\ outcome = "refused" => lastSsnReceived' = 0
  BY DEF Outcome, Receive
<1>5. series' = [units |-> units, fresh |-> fresh, ssn |-> ssn, outcome |-> outcome]
  BY DEF SeriesWith
<1>6. ASSUME fresh, Len(units) <= MaxSctpMessageSize
      PROVE  BufferFor(ssn) \o part = units /\ ~Exceeds(BufferFor(ssn), part)
  <2>1. CASE goesOn
    <3>1. Len(units) = Len(series.units) + Len(part) /\ Len(series.units) \in Nat
          /\ Len(part) \in Nat
      BY <1>1, <2>1
    <3>2. Len(series.units) <= MaxSctpMessageSize
      BY <1>6, <3>1, SctpAssumption
    <3>3. messageBuffer = series.units /\ lastSsnReceived = ssn
      BY <1>6, <2>1, <3>2
    <3>4. BufferFor(ssn) = series.units
      BY <3>3 DEF BufferFor
    <3>5. ~(Len(series.units) + Len(part) > MaxSctpMessageSize)
      BY <1>6, <3>1, SctpAssumption
    <3> QED
      BY <2>1, <3>4, <3>5 DEF Exceeds
  <2>2. CASE ~goesOn
    <3>1. BufferFor(ssn) = <<>>
      BY <1>6, <2>2, ApartFromBuffer
    <3> QED
      BY <1>6, <2>2, <3>1, SctpAssumption DEF Exceeds
  <2> QED
    BY <2>1, <2>2
<1> HIDE DEF units, fresh, outcome
<1>7. /\ series'.units = units /\ series'.fresh = fresh /\ series'.ssn = ssn
      /\ series'.outcome = outcome /\ series' \in SeriesRecords
  BY <1>2, <1>3, <1>4, <1>5 DEF SeriesRecords
<1>8. messageBuffer' \in Seq(Unit) /\ delivered' \in Seq(Unit) => BuffersOK'
  BY <1>4, <1>7 DEF BuffersOK, Unit, SeriesRecords
<1>9. ASSUME fresh, Len(units) <= MaxSctpMessageSize
      PROVE  \/ eor /\ delivered' = units
             \/ /\ ~eor /\ delivered' = <<>>
                /\ messageBuffer' = units /\ lastSsnReceived' = ssn
  BY <1>6, <1>9 DEF Receive
<1> QED
  BY <1>2, <1>7, <1>8, <1>9

LEMMA NewMessageKeeps ==
    ASSUME IInv, NEW s \in PeerStreams, NEW ordered \in BOOLEAN,
           NEW n \in 1 .. PeerMessageSize, NEW eor \in BOOLEAN,
           NewMessage(s, ordered, n, eor)
    PROVE  /\ IInv'
           /\ (series'.fresh /\ Len(series'.units) <= MaxSctpMessageSize) =>
                 series'.units = IF delivered' = <<>> THEN messageBuffer' ELSE delivered'
<1> DEFINE ssn == IF ordered THEN nextSsn[s] ELSE 0
           part == Units(sent + 1, 0, n)
           m == [message |-> sent + 1, ssn |-> ssn, units |-> n]
<1>1. /\ TypeOK /\ BuffersOK /\ BufferFits /\ Numbered /\ SeriesInBuffer /\ WantedIsNext
      /\ sent \in 0 .. MaxMessages /\ lastSsnReceived \in 0 .. MaxMessages
      /\ messageBuffer \in Seq(Unit)
      /\ nextSsn \in [PeerStreams -> 0 .. MaxMessages]
      /\ current \in [PeerStreams -> PeerMessages]
  BY DEF IInv, TypeOK, BuffersOK
<1>2. /\ current[s] = Nothing /\ sent < MaxMessages /\ sent' = sent + 1
      /\ nextSsn' = [nextSsn EXCEPT ![s] = IF ordered THEN @ + 1 ELSE @]
      /\ current' = [current EXCEPT ![s] = IF eor THEN Nothing ELSE m]
      /\ Receive(ssn, part, eor)
      /\ series' = SeriesWith(sent + 1, ssn, part, eor)
      /\ UNCHANGED association
  BY DEF NewMessage
<1>3. /\ nextSsn[s] \in 0 .. sent
      /\ ssn \in 0 .. MaxMessages - 1 /\ ssn \in 0 .. MaxMessages
      /\ sent + 1 \in 1 .. MaxMessages /\ n \in Nat \ {0}
  BY <1>1, <1>2, SctpAssumption DEF Numbered
<1>4. /\ part \in Seq(Unit) /\ part # <<>> /\ part[1].message = sent + 1
  BY <1>3, UnitsOfPart
<1>5. series.units # <<>> => series.units[1].message # sent + 1
  <2>1. series.units # <<>> => series.units[1] \in Unit
    BY <1>1 DEF BuffersOK, SeriesRecords
  <2> QED
    BY <1>1, <1>3, <2>1, SctpAssumption DEF Numbered, Unit
<1> HIDE DEF ssn, part
<1>6. /\ messageBuffer' \in Seq(Unit) /\ delivered' \in Seq(Unit) => BuffersOK'
      /\ series'.units # <<>> /\ series'.units[1].message = sent + 1
      /\ (series'.fresh /\ Len(series'.units) <= MaxSctpMessageSize) =>
            \/ eor /\ delivered' = series'.units
            \/ /\ ~eor /\ delivered' = <<>>
               /\ messageBuffer' = series'.units /\ lastSsnReceived' = ssn
  BY <1>1, <1>2, <1>3, <1>4, <1>5, SeriesStep
<1>7. /\ messageBuffer' \in Seq(Unit) /\ delivered' \in Seq(Unit)
      /\ lastSsnReceived' \in 0 .. MaxMessages /\ BufferFits'
  BY <1>1, <1>2, <1>3, <1>4, ReceiveFits
<1>8. /\ nextSsn' \in [PeerStreams -> 0 .. MaxMessages]
      /\ \A t \in PeerStreams : nextSsn'[t] <= sent + 1
  <2>1. \A t \in PeerStreams : nextSsn[t] \in 0 .. sent
    BY <1>1 DEF Numbered
  <2>2. \A t \in PeerStreams : nextSsn'[t] \in 0 .. sent + 1
    BY <1>1, <1>2, <2>1
  <2>3. 0 .. sent + 1 \subseteq 0 .. MaxMessages
    BY <1>1, <1>2, SctpAssumption
  <2> QED
    BY <1>1, <1>2, <2>2, <2>3
<1>9. m \in PeerMessages /\ current' \in [PeerStreams -> PeerMessages]
  <2>1. m \in PeerMessages /\ Nothing \in PeerMessages
    BY <1>3 DEF PeerMessages
  <2> QED
    BY <1>1, <1>2, <2>1
<1>10. \A t \in PeerStreams :
          t # s /\ current'[t] # Nothing =>
             current'[t] = current[t] /\ current[t].message \in 1 .. sent
  <2> SUFFICES ASSUME NEW t \in PeerStreams, t # s, current'[t] # Nothing
               PROVE  current'[t] = current[t] /\ current[t].message \in 1 .. sent
    OBVIOUS
  <2>1. current'[t] = current[t]
    BY <1>1, <1>2
  <2>2. current[t] \in PeerMessages \ {Nothing}
    BY <1>1, <2>1
  <2>3. current[t].message \in 1 .. MaxMessages /\ current[t].message <= sent
    BY <1>1, <2>1, <2>2 DEF Numbered, PeerMessages
  <2> QED
    BY <1>1, <2>1, <2>3, SctpAssumption
<1>11. current'[s] # Nothing => ~eor /\ current'[s] = m
  BY <1>1, <1>2
<1>12. Numbered'
  <2>1. ASSUME NEW t \in PeerStreams, current'[t] # Nothing
        PROVE  current'[t].message <= sent + 1
    BY <1>1, <1>10, <1>11, <2>1
  <2>2. ASSUME NEW t \in PeerStreams, NEW u \in PeerStreams,
               current'[t] # Nothing, current'[u] # Nothing,
               current'[t].message = current'[u].message
        PROVE  t = u
    <3>1. CASE t = s \/ u = s
      BY <1>1, <1>10, <1>11, <2>2, <3>1
    <3>2. CASE t # s /\ u # s
      BY <1>1, <1>10, <2>2, <3>2 DEF Numbered
    <3> QED
      BY <3>1, <3>2
  <2>3. sent + 1 <= sent'
    BY <1>1, <1>2
  <2> QED
    BY <1>1, <1>2, <1>6, <1>8, <2>1, <2>2, <2>3 DEF Numbered, Nothing
<1>13. SeriesInBuffer'
  <2> SUFFICES ASSUME NEW t \in PeerStreams, series'.fresh,
                      Len(series'.units) <= MaxSctpMessageSize,
                      current'[t] # Nothing,
                      current'[t].message = series'.units[1].message
               PROVE  messageBuffer' = series'.units /\ lastSsnReceived' = current'[t].ssn
    BY DEF SeriesInBuffer, Nothing
  <2>1. t = s
    BY <1>1, <1>6, <1>10
  <2> QED
    BY <1>6, <1>11, <2>1
<1>14. TypeOK'
  <2>1. UNCHANGED <<state, os, desiredOs, request, resetPending, refused>>
    BY <1>2 DEF association
  <2>2. sent' \in 0 .. MaxMessages
    BY <1>2, <1>3, SctpAssumption
  <2> QED
    BY <1>1, <1>7, <1>8, <1>9, <2>1, <2>2 DEF TypeOK, PeerMessages, Nothing
<1>15. WantedIsNext'
  BY <1>1, <1>2 DEF association, WantedIsNext, AdditionalOs
<1>16. IInv'
  BY <1>6, <1>7, <1>12, <1>13, <1>14, <1>15 DEF IInv
<1> QED
  BY <1>6, <1>16

LEMMA NextPartKeeps ==
    ASSUME IInv, NEW s \in PeerStreams,
           NEW n \in 1 .. PeerMessageSize, NEW eor \in BOOLEAN,
           NextPart(s, n, eor)
    PROVE  /\ IInv'
           /\ (series'.fresh /\ Len(series'.units) <= MaxSctpMessageSize) =>
                 series'.units = IF delivered' = <<>> THEN messageBuffer' ELSE delivered'
<1> DEFINE m == current[s]
           part == Units(m.message, m.units, n)
           more == [m EXCEPT !.units = @ + n]
<1>1. /\ TypeOK /\ BuffersOK /\ BufferFits /\ Numbered /\ SeriesInBuffer /\ WantedIsNext
      /\ sent \in 0 .. MaxMessages /\ lastSsnReceived \in 0 .. MaxMessages
      /\ messageBuffer \in Seq(Unit)
      /\ nextSsn \in [PeerStreams -> 0 .. MaxMessages]
      /\ current \in [PeerStreams -> PeerMessages]
  BY DEF IInv, TypeOK, BuffersOK
<1>2. /\ m # Nothing /\ m.units + n <= PeerMessageSize
      /\ current' = [current EXCEPT ![s] = IF eor THEN Nothing ELSE more]
      /\ Receive(m.ssn, part, eor)
      /\ series' = SeriesWith(m.message, m.ssn, part, eor)
      /\ UNCHANGED <<association, sent, nextSsn>>
  BY DEF NextPart
<1>3. /\ m \in [message : 1 .. MaxMessages, ssn : 0 .. MaxMessages - 1,
                units : 1 .. PeerMessageSize]
      /\ m.message <= sent
  BY <1>1, <1>2 DEF PeerMessages, Numbered
<1>4. /\ m.message \in 1 .. MaxMessages /\ m.ssn \in 0 .. MaxMessages
      /\ m.units \in Nat /\ n \in Nat \ {0}
      /\ more = [message |-> m.message, ssn |-> m.ssn, units |-> m.units + n]
      /\ more \in PeerMessages
  BY <1>2, <1>3, SctpAssumption DEF PeerMessages
<1>5. /\ part \in Seq(Unit) /\ part # <<>> /\ part[1].message = m.message
  BY <1>4, UnitsOfPart
<1>6. (/\ series.fresh /\ Len(series.units) <= MaxSctpMessageSize
       /\ series.units # <<>> /\ series.units[1].message = m.message) =>
          messageBuffer = series.units /\ lastSsnReceived = m.ssn
  BY <1>1, <1>2 DEF SeriesInBuffer
<1> HIDE DEF part
<1>7. /\ messageBuffer' \in Seq(Unit) /\ delivered' \in Seq(Unit) => BuffersOK'
      /\ series'.units # <<>> /\ series'.units[1].message = m.message
      /\ (series'.fresh /\ Len(series'.units) <= MaxSctpMessageSize) =>
            \/ eor /\ delivered' = series'.units
            \/ /\ ~eor /\ delivered' = <<>>
               /\ messageBuffer' = series'.units /\ lastSsnReceived' = m.ssn
  <2> HIDE DEF m
  <2> QED
    BY <1>1, <1>2, <1>4, <1>5, <1>6, SeriesStep
<1>8. /\ messageBuffer' \in Seq(Unit) /\ delivered' \in Seq(Unit)
      /\ lastSsnReceived' \in 0 .. MaxMessages /\ BufferFits'
  BY <1>1, <1>2, <1>4, <1>5, ReceiveFits
<1>9. current' \in [PeerStreams -> PeerMessages]
  BY <1>1, <1>2, <1>4 DEF PeerMessages
<1>10. /\ \A t \in PeerStreams : t # s => current'[t] = current[t]
       /\ current'[s] # Nothing => ~eor /\ current'[s] = more
  BY <1>1, <1>2
<1>11. \A t \in PeerStreams :
          current'[t] # Nothing =>
             /\ current[t] # Nothing
             /\ current'[t].message = current[t].message
             /\ current'[t].ssn = current[t].ssn
  BY <1>2, <1>4, <1>10
<1>12. sent' = sent /\ nextSsn' = nextSsn
  BY <1>2
<1>13. Numbered'
  <2>1. ASSUME NEW t \in PeerStreams
        PROVE  /\ nextSsn[t] <= sent
               /\ current'[t] # Nothing => current'[t].message <= sent
    BY <1>1, <1>11 DEF Numbered
  <2>2. ASSUME NEW t \in PeerStreams, NEW u \in PeerStreams,
               current'[t] # Nothing, current'[u] # Nothing,
               current'[t].message = current'[u].message
        PROVE  t = u
    BY <1>1, <1>11, <2>2 DEF Numbered
  <2> QED
    BY <1>3, <1>7, <1>12, <2>1, <2>2 DEF Numbered, Nothing
<1>14. SeriesInBuffer'
  <2> SUFFICES ASSUME NEW t \in PeerStreams, series'.fresh,
                      Len(series'.units) <= MaxSctpMessageSize,
                      current'[t] # Nothing,
                      current'[t].message = series'.units[1].message
               PROVE  messageBuffer' = series'.units /\ lastSsnReceived' = current'[t].ssn
    BY DEF SeriesInBuffer, Nothing
  <2>1. t = s
    BY <1>1, <1>2, <1>7, <1>11 DEF Numbered
  <2> QED
    BY <1>4, <1>7, <1>10, <2>1
<1>15. TypeOK'
  <2>1. UNCHANGED <<state, os, desiredOs, request, resetPending, refused>>
    BY <1>2 DEF association
  <2> QED
    BY <1>1, <1>8, <1>9, <1>12, <2>1 DEF TypeOK, PeerMessages, Nothing
<1>16. WantedIsNext'
  BY <1>1, <1>2 DEF association, WantedIsNext, AdditionalOs
<1>17. IInv'
  BY <1>7, <1>8, <1>13, <1>14, <1>15, <1>16 DEF IInv
<1> QED
  BY <1>7, <1>17
-----------------------------------------------------------------------------
(***************************************************************************)
(* The other steps.                                                        *)
(***************************************************************************)
\* Once connected with some number of streams, those wanted are within the limit
\* and one increment beyond them.
LEMMA UpKeeps ==
    ASSUME IInv, NEW streams \in 1 .. InitialOs, Up(streams)
    PROVE  /\ state' = "connected" /\ os' \in 1 .. MaxSctpStreams
           /\ desiredOs' \in 0 .. MaxSctpStreams
           /\ request' \in {"none", "add", "reset"} /\ refused' \in BOOLEAN
           /\ desiredOs' > os' => desiredOs' = os' + AdditionalOs(os')
<1>1. /\ TypeOK /\ desiredOs \in 0 .. MaxSctpStreams
      /\ request \in {"none", "add", "reset"} /\ refused \in BOOLEAN
  BY DEF IInv, TypeOK
<1>2. streams \in 1 .. MaxSctpStreams
  BY SctpAssumption
<1>3. state' = "connected" /\ os' = streams
  BY DEF Up
<1>4. CASE desiredOs > streams
  <2>1. AddOutgoingStreams(streams, state, TRUE)
    BY <1>4 DEF Up
  <2>2. AdditionalOs(streams) # 0
    BY <1>1, <1>2, <1>4, AdditionalOsBounded, SctpAssumption
  <2>3. /\ desiredOs' \in 0 .. MaxSctpStreams
        /\ desiredOs' = streams + AdditionalOs(streams)
        /\ request' \in {"none", "add", "reset"} /\ refused' \in BOOLEAN
    BY <1>1, <1>2, <2>1, <2>2, AddOutgoingStreamsKeeps
  <2> QED
    BY <1>2, <1>3, <2>3
<1>5. CASE ~(desiredOs > streams)
  BY <1>1, <1>2, <1>3, <1>5 DEF Up
<1> QED
  BY <1>4, <1>5

\* Every step keeps the invariant, and only parts of messages change the series.
LEMMA NextKeeps ==
    ASSUME IInv, Next
    PROVE  /\ IInv'
           /\ (/\ series' # series /\ series'.fresh
               /\ Len(series'.units) <= MaxSctpMessageSize) =>
                 series'.units = IF delivered' = <<>> THEN messageBuffer' ELSE delivered'
<1>1. /\ TypeOK /\ WantedIsNext
      /\ state \in {"new", "connecting", "connected", "failed", "closed"}
      /\ os \in 1 .. MaxSctpStreams /\ desiredOs \in 0 .. MaxSctpStreams
      /\ request \in {"none", "add", "reset"}
      /\ resetPending \subseteq 0 .. MaxSctpStreams - 1 /\ refused \in BOOLEAN
      /\ nextSsn \in [PeerStreams -> 0 .. MaxMessages]
      /\ current \in [PeerStreams -> PeerMessages]
  BY DEF IInv, TypeOK
<1>2. desiredOs > os => desiredOs = os + AdditionalOs(os)
  BY <1>1 DEF WantedIsNext
<1>3. CASE Run
  BY <1>1, <1>2, <1>3, AssociationStep DEF Run
<1>4. ASSUME NEW streams \in 1 .. InitialOs, CommUp(streams)
      PROVE  IInv' /\ series' = series
  <2>1. Up(streams)
    BY <1>4 DEF CommUp
  <2> QED
    BY <1>1, <1>4, <2>1, UpKeeps, AssociationStep DEF CommUp
<1>5. ASSUME NEW streams \in 1 .. InitialOs, Restart(streams)
      PROVE  IInv' /\ series' = series
  <2>1. /\ Up(streams)
        /\ nextSsn' = [s \in PeerStreams |-> 0]
        /\ current' = [s \in PeerStreams |-> Nothing]
        /\ UNCHANGED <<resetPending, messageBuffer, lastSsnReceived, series, sent>>
        /\ delivered' = <<>>
    BY <1>5 DEF Restart
  <2>2. /\ nextSsn' \in [PeerStreams -> 0 .. MaxMessages]
        /\ current' \in [PeerStreams -> PeerMessages]
        /\ \A s \in PeerStreams : nextSsn'[s] <= nextSsn[s]
        /\ \A s \in PeerStreams : current'[s] \in {current[s], Nothing}
    BY <1>1, <2>1, SctpAssumption DEF PeerMessages
  <2> QED
    BY <1>1, <2>1, <2>2, UpKeeps, CutStep
<1>6. CASE Down
  BY <1>1, <1>2, <1>6, AssociationStep DEF Down
<1>7. ASSUME NEW s \in ConsumerStreams, HandleDataConsumer(s)
      PROVE  IInv' /\ series' = series
  <2>1. /\ UNCHANGED <<state, os, resetPending, messageBuffer, lastSsnReceived, series, peer>>
        /\ delivered' = <<>>
    BY <1>7 DEF HandleDataConsumer
  <2>2. CASE s > os - 1
    <3>1. AddOutgoingStreams(os, state, FALSE)
      BY <1>7, <2>2 DEF HandleDataConsumer
    <3>2. /\ desiredOs' \in 0 .. MaxSctpStreams
          /\ desiredOs' \in {desiredOs, os + AdditionalOs(os)}
          /\ request' \in {"none", "add", "reset"} /\ refused' \in BOOLEAN
      BY <1>1, <3>1, AddOutgoingStreamsKeeps
    <3>3. desiredOs' > os' => desiredOs' = os' + AdditionalOs(os')
      BY <1>2, <2>1, <3>2
    <3> QED
      BY <1>1, <2>1, <3>2, <3>3, AssociationStep
  <2>3. CASE ~(s > os - 1)
    BY <1>1, <1>2, <1>7, <2>1, <2>3, AssociationStep DEF HandleDataConsumer
  <2> QED
    BY <2>2, <2>3
<1>8. ASSUME NEW s \in ConsumerStreams, DataConsumerClosed(s)
      PROVE  IInv' /\ series' = series
  <2>1. /\ request' \in {"none", "add", "reset"}
        /\ resetPending' \subseteq 0 .. MaxSctpStreams - 1
    BY <1>1, <1>8, ResetKeeps, SctpAssumption DEF DataConsumerClosed
  <2> QED
    BY <1>1, <1>2, <1>8, <2>1, AssociationStep DEF DataConsumerClosed
<1>9. ASSUME NEW s \in PeerStreams, DataProducerClosed(s)
      PROVE  IInv' /\ series' = series
  <2>1. /\ request' \in {"none", "add", "reset"}
        /\ resetPending' \subseteq 0 .. MaxSctpStreams - 1
    BY <1>1, <1>9, ResetKeeps, SctpAssumption DEF DataProducerClosed
  <2> QED
    BY <1>1, <1>2, <1>9, <2>1, AssociationStep DEF DataProducerClosed
<1>10. ASSUME NEW s \in PeerStreams, PeerResets(s)
       PROVE  IInv' /\ series' = series
  <2>1. /\ request' \in {"none", "add", "reset"}
        /\ resetPending' \subseteq 0 .. MaxSctpStreams - 1
    BY <1>1, <1>10, ResetKeeps, SctpAssumption DEF PeerResets
  <2>2. /\ nextSsn' = [nextSsn EXCEPT ![s] = 0]
        /\ current' = [current EXCEPT ![s] = Nothing]
    BY <1>10 DEF PeerResets
  <2>3. /\ nextSsn' \in [PeerStreams -> 0 .. MaxMessages]
        /\ current' \in [PeerStreams -> PeerMessages]
        /\ \A t \in PeerStreams : nextSsn'[t] <= nextSsn[t]
        /\ \A t \in PeerStreams : current'[t] \in {current[t], Nothing}
    BY <1>1, <2>2, SctpAssumption DEF PeerMessages
  <2> QED
    BY <1>1, <1>2, <1>10, <2>1, <2>3, CutStep DEF PeerResets
<1>11. ASSUME NEW s \in PeerStreams, GivenUp(s)
       PROVE  IInv' /\ series' = series
  <2>1. /\ nextSsn' = nextSsn
        /\ current' = [current EXCEPT ![s] = Nothing]
    BY <1>11 DEF GivenUp
  <2>2. /\ nextSsn' \in [PeerStreams -> 0 .. MaxMessages]
        /\ current' \in [PeerStreams -> PeerMessages]
        /\ \A t \in PeerStreams : nextSsn'[t] <= nextSsn[t]
        /\ \A t \in PeerStreams : current'[t] \in {current[t], Nothing}
    BY <1>1, <2>1, SctpAssumption DEF PeerMessages
  <2> QED
    BY <1>1, <1>2, <1>11, <2>2, CutStep DEF GivenUp, association
<1>12. ASSUME NEW granted \in BOOLEAN, StreamsChanged(granted)
       PROVE  IInv' /\ series' = series
  <2>1. /\ request' \in {"none", "add", "reset"}
        /\ resetPending' \subseteq 0 .. MaxSctpStreams - 1
    BY <1>1, <1>12, AfterRequestKeeps DEF StreamsChanged
  <2>2. /\ os' = IF granted THEN os + AdditionalOs(os) ELSE os
        /\ refused' \in BOOLEAN /\ desiredOs' = desiredOs
    BY <1>12 DEF StreamsChanged
  <2>3. os' \in 1 .. MaxSctpStreams
    BY <1>1, <2>2, AdditionalOsBounded
  <2>4. desiredOs' > os' => desiredOs' = os' + AdditionalOs(os')
    <3>1. CASE granted
      BY <1>1, <1>2, <2>2, <3>1, AdditionalOsBounded
    <3>2. CASE ~granted
      BY <1>2, <2>2, <3>2
    <3> QED
      BY <3>1, <3>2
  <2> QED
    BY <1>1, <1>12, <2>1, <2>2, <2>3, <2>4, AssociationStep DEF StreamsChanged
<1>13. CASE ResetAnswered
  <2>1. /\ request' \in {"none", "add", "reset"}
        /\ resetPending' \subseteq 0 .. MaxSctpStreams - 1
    BY <1>1, <1>13, AfterRequestKeeps DEF ResetAnswered
  <2> QED
    BY <1>1, <1>2, <1>13, <2>1, AssociationStep DEF ResetAnswered
<1>14. ASSUME NEW s \in PeerStreams, NEW n \in 1 .. PeerMessageSize, NEW eor \in BOOLEAN,
              NEW ordered \in {TRUE, ~PeerUnordered}, NewMessage(s, ordered, n, eor)
       PROVE  /\ IInv'
              /\ (series'.fresh /\ Len(series'.units) <= MaxSctpMessageSize) =>
                 series'.units = IF delivered' = <<>> THEN messageBuffer' ELSE delivered'
  <2>1. ordered \in BOOLEAN
    OBVIOUS
  <2> QED
    BY <1>14, <2>1, NewMessageKeeps
<1>15. ASSUME NEW s \in PeerStreams, NEW n \in 1 .. PeerMessageSize, NEW eor \in BOOLEAN,
              NextPart(s, n, eor)
       PROVE  /\ IInv'
              /\ (series'.fresh /\ Len(series'.units) <= MaxSctpMessageSize) =>
                 series'.units = IF delivered' = <<>> THEN messageBuffer' ELSE delivered'
  BY <1>15, NextPartKeeps
<1>16. Run \/ Down \/ ResetAnswered => series' = series
  BY DEF Run, Down, ResetAnswered
<1> QED
  BY <1>3, <1>4, <1>5, <1>6, <1>7, <1>8, <1>9, <1>10, <1>11, <1>12, <1>13, <1>14,
     <1>15, <1>16 DEF Next
-----------------------------------------------------------------------------
(***************************************************************************)
(* The theorems.                                                           *)
(***************************************************************************)
\* The parts of the invariant hold in every state.
THEOREM SctpInvariant == Spec => []IInv
<1>1. ASSUME IInv, UNCHANGED vars
      PROVE  IInv'
  BY <1>1 DEF vars, association, reassembly, peer, IInv, TypeOK, BuffersOK, BufferFits,
     Numbered, SeriesInBuffer, WantedIsNext, AdditionalOs, PeerMessages, Nothing, Unit
<1>2. IInv /\ [Next]_vars => IInv'
  BY <1>1, NextKeeps
<1> QED
  BY <1>2, InitIInv, PTL DEF Spec

\* The fields keep their types and limits, for any limits, streams and messages.
THEOREM SctpTypeCorrect == Spec => []TypeOK
  BY SctpInvariant, PTL DEF IInv

\* The buffer of maxSctpMessageSize bytes is never written past its end.
THEOREM BufferFitsAlways == Spec => []BufferFits
  BY SctpInvariant, PTL DEF IInv

\* What a message is put together from, when nothing came in between, is the
\* message.
THEOREM SeriesDeliveredAlways == Spec => SeriesDelivered
<1>1. IInv /\ [Next]_vars =>
        [(/\ series' # series /\ series'.fresh
          /\ Len(series'.units) <= MaxSctpMessageSize) =>
            series'.units = IF delivered' = <<>> THEN messageBuffer' ELSE delivered']_vars
  BY NextKeeps
<1> QED
  BY <1>1, SctpInvariant, PTL DEF Spec, SeriesDelivered

\* Streams that are being added are not asked for once more.
THEOREM AskedOnceAlways == Spec => AskedOnce
<1>1. ASSUME IInv, NEW s \in ConsumerStreams, HandleDataConsumer(s), desiredOs > os
      PROVE  refused' = refused
  <2>1. desiredOs = os + AdditionalOs(os)
    BY <1>1 DEF IInv, WantedIsNext
  <2> QED
    BY <1>1, <2>1 DEF HandleDataConsumer, AddOutgoingStreams
<1>2. IInv => [\A s \in ConsumerStreams :
          HandleDataConsumer(s) /\ request = "add" /\ desiredOs > os =>
            refused' = refused]_vars
  BY <1>1
<1> QED
  BY <1>2, SctpInvariant, PTL DEF Spec, AskedOnce
=============================================================================
