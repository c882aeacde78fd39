------------------------ MODULE RtpStreamSend_proofs ------------------------
(***************************************************************************)
(* The retransmission buffer of RtpStreamSend, for every modulus of the    *)
(* sequence numbers, every size of the storage and any number of packets:  *)
(* its invariants, that it implements RetransmissionCache, and the order   *)
(* of its packets.                                                         *)
(***************************************************************************)
EXTENDS RtpStreamSend, FiniteSetTheorems, WellFoundedInduction, TLAPS

\* Arithmetic modulo SeqModulus stays in the sequence numbers.
LEMMA WrapFacts ==
    /\ \A n \in Int : Wrap(n) \in Seqs
    /\ \A n \in Seqs : Wrap(n) = n
  BY SeqModulusAssumption DEF Wrap, Seqs

\* The next slot is one in use, if there is any: a nearest one exists.
LEMMA UpdateBufferStartIdxFacts ==
  ASSUME NEW b \in [Seqs -> Slots \cup {Free}], NEW start \in Seqs
  PROVE  /\ UpdateBufferStartIdx(b, start) \in Seqs
         /\ Used(b) # {} => UpdateBufferStartIdx(b, start) \in Used(b)
<1>1. CASE Used(b) = {}
  BY <1>1 DEF UpdateBufferStartIdx
<1>2. CASE Used(b) # {}
  <2> DEFINE D == {Distance(start, seq) : seq \in Used(b)}
  <2>1. \A seq \in Used(b) : seq \in Seqs /\ Distance(start, seq) \in Nat
    BY WrapFacts, SeqModulusAssumption DEF Used, Distance, Seqs
  <2>2. D \subseteq Nat /\ D # {}
    BY <1>2, <2>1
  <2>3. PICK d \in D : \A e \in D : ~(e < d)
    <3>1. PICK d \in D : \A e \in D : ~(<<e, d>> \in OpToRel(<, Nat))
      BY <2>2, NatLessThanWellFounded, WFMin
    <3>2. \A e \in D : ~(e < d)
      BY <3>1, <2>2 DEF OpToRel
    <3>3. QED
      BY <3>2
  <2>4. PICK seq \in Used(b) : Distance(start, seq) = d
    OBVIOUS
  <2>5. \A other \in Used(b) : Distance(start, seq) <= Distance(start, other)
    BY <2>1, <2>2, <2>3, <2>4
  <2>6. UpdateBufferStartIdx(b, start) \in Used(b)
    BY <1>2, <2>5 DEF UpdateBufferStartIdx
  <2>7. QED
    BY <2>1, <2>6
<1>3. QED
  BY <1>1, <1>2
-----------------------------------------------------------------------------
\* The fields of the buffer, and what the properties say of them.
BuffersOK ==
    /\ buffer \in [Seqs -> Slots \cup {Free}]
    /\ bufferStartIdx \in Seqs
    /\ bufferSize \in 0 .. StorageSize
    /\ storage \in [Slots -> StorageItems]
    /\ StorageInUse
    /\ SlotsHoldTheirPackets
    /\ EncodingKnown

SInv == TypeOK /\ BuffersOK

\* A new item.
LEMMA ItemFacts ==
  ASSUME NEW p \in Packets \cup {NoPacket}
  PROVE  /\ Item(p) \in StorageItems
         /\ Item(p).packet = p /\ ~Item(p).rtxEncoded /\ Item(p).encodings = 0
  BY DEF Item, StorageItems

\* Renewing an item changes that one only.
LEMMA RenewedFacts ==
  ASSUME BuffersOK, NEW i \in Slots, NEW p \in Packets, storage' = Renewed(i, p)
  PROVE  /\ storage' \in [Slots -> StorageItems]
         /\ EncodingKnown'
         /\ storage'[i].packet = p
         /\ \A j \in Slots \ {i} : storage'[j] = storage[j]
<1>1. storage' = [storage EXCEPT ![i] = Item(p)]
  BY DEF Renewed
<1>2. storage' \in [Slots -> StorageItems]
  BY <1>1, ItemFacts DEF BuffersOK
<1>3. storage'[i] = Item(p) /\ \A j \in Slots \ {i} : storage'[j] = storage[j]
  BY <1>1 DEF BuffersOK
<1>4. EncodingKnown'
  BY <1>3, ItemFacts DEF BuffersOK, EncodingKnown
<1>5. QED
  BY <1>2, <1>3, <1>4, ItemFacts

\* Slots in use point to items in use.
LEMMA InUseFacts ==
  ASSUME BuffersOK
  PROVE  /\ \A seq \in Used(buffer) : seq \in Seqs /\ buffer[seq] \in Slots /\ buffer[seq] < bufferSize
         /\ bufferSize = 0 => Used(buffer) = {}
<1>1. \A seq \in Used(buffer) : seq \in Seqs /\ buffer[seq] \in Slots
  BY DEF BuffersOK, Used
<1>2. \A seq \in Used(buffer) : buffer[seq] < bufferSize
  BY <1>1 DEF BuffersOK, StorageInUse
<1>3. \A seq \in Used(buffer) : bufferSize # 0
  BY <1>1, <1>2 DEF BuffersOK, Slots
<1>4. QED
  BY <1>1, <1>2, <1>3

\* Each way to store a packet keeps the buffer consistent.
LEMMA StoreFirstOK ==
  ASSUME BuffersOK, NEW p \in Packets, StoreFirst(p)
  PROVE  BuffersOK'
<1>0. 0 \in Slots /\ Seq(p) \in Seqs /\ Free \notin Slots
  BY StreamAssumption, WrapFacts DEF Slots, Seq, Packets
<1>1. /\ Used(buffer) = {}
      /\ buffer' = [buffer EXCEPT ![Seq(p)] = 0]
      /\ bufferSize' = 1 /\ bufferStartIdx' = Seq(p) /\ storage' = Renewed(0, p)
  BY InUseFacts DEF StoreFirst
<1>2. /\ storage' \in [Slots -> StorageItems] /\ EncodingKnown'
      /\ storage'[0].packet = p
  BY <1>0, <1>1, RenewedFacts
<1>3. buffer' \in [Seqs -> Slots \cup {Free}]
  BY <1>0, <1>1 DEF BuffersOK
<1>4. buffer'[Seq(p)] = 0 /\ Used(buffer)' = {Seq(p)}
  BY <1>0, <1>1 DEF BuffersOK, Used
<1>5. StorageInUse'
  <2>1. ASSUME NEW i \in Slots
        PROVE  i < bufferSize' <=> \E seq \in Used(buffer)' : buffer'[seq] = i
    <3>1. i < bufferSize' <=> i = 0
      BY <1>1 DEF Slots
    <3>2. (\E seq \in Used(buffer)' : buffer'[seq] = i) <=> i = 0
      BY <1>4
    <3>3. QED
      BY <3>1, <3>2
  <2>2. buffer'[bufferStartIdx'] # Free
    BY <1>0, <1>1, <1>4
  <2>3. QED
    BY <1>4, <2>1, <2>2 DEF StorageInUse
<1>6. SlotsHoldTheirPackets'
  BY <1>2, <1>4, StreamAssumption DEF SlotsHoldTheirPackets, Packets
<1>7. QED
  BY <1>0, <1>1, <1>2, <1>3, <1>5, <1>6, StreamAssumption DEF BuffersOK

\* The slot holds a packet of an earlier cycle.
LEMMA StoreAgainOK ==
  ASSUME BuffersOK, NEW p \in Packets, StoreAgain(p)
  PROVE  BuffersOK'
<1>0. Seq(p) \in Seqs /\ Free \notin Slots
  BY StreamAssumption, WrapFacts DEF Slots, Seq, Packets
<1>1. /\ Seq(p) \in Used(buffer) /\ buffer' = buffer /\ bufferSize' = bufferSize
      /\ storage' = Renewed(buffer[Seq(p)], p)
      /\ bufferStartIdx' = IF bufferStartIdx = Seq(p)
                           THEN UpdateBufferStartIdx(buffer, bufferStartIdx)
                           ELSE bufferStartIdx
  BY <1>0 DEF StoreAgain, Used
<1>2. buffer[Seq(p)] \in Slots
  BY <1>1, InUseFacts
<1>3. /\ storage' \in [Slots -> StorageItems] /\ EncodingKnown'
      /\ storage'[buffer[Seq(p)]].packet = p
      /\ \A j \in Slots \ {buffer[Seq(p)]} : storage'[j] = storage[j]
  BY <1>1, <1>2, RenewedFacts
<1>4. bufferStartIdx' \in Seqs /\ (bufferSize > 0 => bufferStartIdx' \in Used(buffer))
  BY <1>1, UpdateBufferStartIdxFacts DEF BuffersOK, StorageInUse, Used
<1>5. StorageInUse'
  BY <1>1, <1>4 DEF BuffersOK, StorageInUse, Used
<1>6. SlotsHoldTheirPackets'
  <2> SUFFICES ASSUME NEW seq \in Used(buffer)
               PROVE  storage'[buffer[seq]].packet # NoPacket
                      /\ Seq(storage'[buffer[seq]].packet) = seq
    BY <1>1 DEF SlotsHoldTheirPackets, Used
  <2>1. CASE seq = Seq(p)
    BY <2>1, <1>3, StreamAssumption DEF Packets
  <2>2. CASE seq # Seq(p)
    <3>1. buffer[seq] \in Slots \ {buffer[Seq(p)]}
      BY <2>2, <1>1, InUseFacts DEF BuffersOK, StorageInUse
    <3>2. QED
      BY <3>1, <1>3 DEF BuffersOK, SlotsHoldTheirPackets
  <2>3. QED
    BY <2>1, <2>2
<1>7. QED
  BY <1>1, <1>3, <1>4, <1>5, <1>6 DEF BuffersOK

\* A storage item is left.
LEMMA StoreMoreOK ==
  ASSUME BuffersOK, NEW p \in Packets, StoreMore(p)
  PROVE  BuffersOK'
<1>0. Seq(p) \in Seqs /\ Free \notin Slots
  BY StreamAssumption, WrapFacts DEF Slots, Seq, Packets
<1>1. /\ bufferSize \in Slots /\ bufferSize > 0 /\ bufferSize + 1 \in 0 .. StorageSize
      /\ buffer[Seq(p)] = Free
      /\ buffer' = [buffer EXCEPT ![Seq(p)] = bufferSize]
      /\ bufferSize' = bufferSize + 1 /\ bufferStartIdx' = bufferStartIdx
      /\ storage' = Renewed(bufferSize, p)
  BY StreamAssumption DEF StoreMore, Slots
<1>2. /\ storage' \in [Slots -> StorageItems] /\ EncodingKnown'
      /\ storage'[bufferSize].packet = p
      /\ \A j \in Slots \ {bufferSize} : storage'[j] = storage[j]
  BY <1>1, RenewedFacts
<1>3. buffer' \in [Seqs -> Slots \cup {Free}]
  BY <1>0, <1>1 DEF BuffersOK
<1>4. /\ buffer'[Seq(p)] = bufferSize
      /\ \A seq \in Seqs \ {Seq(p)} : buffer'[seq] = buffer[seq]
      /\ Used(buffer)' = Used(buffer) \cup {Seq(p)}
      /\ Seq(p) \notin Used(buffer)
  BY <1>0, <1>1 DEF BuffersOK, Used
<1>5. StorageInUse'
  <2>1. buffer'[bufferStartIdx'] # Free
    BY <1>1, <1>4, <1>0 DEF BuffersOK, StorageInUse
  <2>2. \A s1, s2 \in Used(buffer)' : buffer'[s1] = buffer'[s2] => s1 = s2
    BY <1>1, <1>4, InUseFacts DEF BuffersOK, StorageInUse
  <2>3. ASSUME NEW i \in Slots
        PROVE  i < bufferSize' <=> \E seq \in Used(buffer)' : buffer'[seq] = i
    <3>1. CASE i = bufferSize
      <4>1. i < bufferSize'
        BY <3>1, <1>1 DEF Slots
      <4>2. buffer'[Seq(p)] = i /\ Seq(p) \in Used(buffer)'
        BY <3>1, <1>4
      <4>3. QED
        BY <4>1, <4>2
    <3>2. CASE i # bufferSize
      <4>1. i < bufferSize' <=> i < bufferSize
        BY <3>2, <1>1 DEF Slots
      <4>2. (\E seq \in Used(buffer)' : buffer'[seq] = i) <=> \E seq \in Used(buffer) : buffer[seq] = i
        BY <3>2, <1>4, InUseFacts
      <4>3. QED
        BY <4>1, <4>2 DEF BuffersOK, StorageInUse
    <3>3. QED
      BY <3>1, <3>2
  <2>4. QED
    BY <2>1, <2>2, <2>3 DEF StorageInUse
<1>6. SlotsHoldTheirPackets'
  <2> SUFFICES ASSUME NEW seq \in Used(buffer)'
               PROVE  storage'[buffer'[seq]].packet # NoPacket
                      /\ Seq(storage'[buffer'[seq]].packet) = seq
    BY DEF SlotsHoldTheirPackets
  <2>1. CASE seq = Seq(p)
    BY <2>1, <1>2, <1>4, StreamAssumption DEF Packets
  <2>2. CASE seq # Seq(p)
    <3>1. seq \in Used(buffer) /\ buffer'[seq] = buffer[seq] /\ buffer[seq] \in Slots \ {bufferSize}
      BY <2>2, <1>4, InUseFacts DEF BuffersOK
    <3>2. QED
      BY <3>1, <1>2 DEF BuffersOK, SlotsHoldTheirPackets
  <2>3. QED
    BY <2>1, <2>2
<1>7. QED
  BY <1>1, <1>2, <1>3, <1>5, <1>6 DEF BuffersOK

\* None is left, and the packet at the start goes.
LEMMA StoreInsteadOfOldestOK ==
  ASSUME BuffersOK, NEW p \in Packets, StoreInsteadOfOldest(p)
  PROVE  /\ BuffersOK'
         /\ bufferStartIdx \in Used(buffer) /\ Seq(p) \notin Used(buffer)
         /\ Used(buffer)' = (Used(buffer) \ {bufferStartIdx}) \cup {Seq(p)}
         /\ buffer'[Seq(p)] = buffer[bufferStartIdx]
         /\ \A seq \in Used(buffer) \ {bufferStartIdx} : buffer'[seq] = buffer[seq]
<1> DEFINE i == buffer[bufferStartIdx]
           without == [buffer EXCEPT ![bufferStartIdx] = Free]
<1>0. Seq(p) \in Seqs /\ Free \notin Slots
  BY StreamAssumption, WrapFacts DEF Slots, Seq, Packets
<1>1. /\ bufferSize = StorageSize /\ bufferSize > 0 /\ bufferSize > 1
      /\ buffer[Seq(p)] = Free
      /\ bufferStartIdx' = UpdateBufferStartIdx(without, bufferStartIdx)
      /\ buffer' = [without EXCEPT ![Seq(p)] = i]
      /\ storage' = Renewed(i, p)
      /\ bufferSize' = bufferSize
  BY StreamAssumption DEF StoreInsteadOfOldest
<1>2. /\ bufferStartIdx \in Used(buffer) /\ Seq(p) \notin Used(buffer)
      /\ bufferStartIdx # Seq(p) /\ i \in Slots
  BY <1>1, InUseFacts DEF BuffersOK, StorageInUse, Used
<1>3. /\ storage' \in [Slots -> StorageItems] /\ EncodingKnown'
      /\ storage'[i].packet = p
      /\ \A j \in Slots \ {i} : storage'[j] = storage[j]
  BY <1>1, <1>2, RenewedFacts
<1>4. without \in [Seqs -> Slots \cup {Free}] /\ Used(without) = Used(buffer) \ {bufferStartIdx}
  BY DEF BuffersOK, Used
<1>5. Used(without) # {}
  <2>1. PICK j \in Slots : j # i
    BY <1>2, StreamAssumption DEF Slots
  <2>2. j < bufferSize
    BY <2>1, <1>1, StreamAssumption DEF Slots
  <2>3. PICK seq \in Used(buffer) : buffer[seq] = j
    BY <2>1, <2>2 DEF BuffersOK, StorageInUse
  <2>4. seq # bufferStartIdx
    BY <2>1, <2>3
  <2>5. QED
    BY <2>3, <2>4, <1>4
<1>6. bufferStartIdx' \in Used(without)
  BY <1>1, <1>4, <1>5, UpdateBufferStartIdxFacts DEF BuffersOK
<1>7. /\ buffer' \in [Seqs -> Slots \cup {Free}]
      /\ buffer'[Seq(p)] = i
      /\ buffer'[bufferStartIdx] = Free
      /\ \A seq \in Seqs \ {Seq(p), bufferStartIdx} : buffer'[seq] = buffer[seq]
  BY <1>0, <1>1, <1>2, <1>4 DEF BuffersOK
<1>8. Used(buffer)' = (Used(buffer) \ {bufferStartIdx}) \cup {Seq(p)}
  BY <1>0, <1>2, <1>7 DEF Used
<1>9. \A seq \in Used(buffer) \ {bufferStartIdx} :
         seq \in Seqs /\ buffer'[seq] = buffer[seq] /\ buffer[seq] \in Slots \ {i}
  BY <1>2, <1>7, InUseFacts DEF BuffersOK, StorageInUse
<1>10. StorageInUse'
  <2>1. buffer'[bufferStartIdx'] # Free
    BY <1>4, <1>6, <1>9, <1>0
  <2>2. \A s1, s2 \in Used(buffer)' : buffer'[s1] = buffer'[s2] => s1 = s2
    BY <1>7, <1>8, <1>9 DEF BuffersOK, StorageInUse
  <2>3. ASSUME NEW k \in Slots
        PROVE  \E seq \in Used(buffer)' : buffer'[seq] = k
    <3>1. CASE k = i
      BY <3>1, <1>7, <1>8
    <3>2. CASE k # i
      <4>1. k < bufferSize
        BY <1>1, StreamAssumption DEF Slots
      <4>2. PICK seq \in Used(buffer) : buffer[seq] = k
        BY <4>1 DEF BuffersOK, StorageInUse
      <4>3. seq # bufferStartIdx
        BY <4>2, <3>2
      <4>4. QED
        BY <4>2, <4>3, <1>8, <1>9
    <3>3. QED
      BY <3>1, <3>2
  <2>4. \A k \in Slots : k < bufferSize'
    BY <1>1, StreamAssumption DEF Slots
  <2>5. QED
    BY <2>1, <2>2, <2>3, <2>4 DEF StorageInUse
<1>11. SlotsHoldTheirPackets'
  <2> SUFFICES ASSUME NEW seq \in Used(buffer)'
               PROVE  storage'[buffer'[seq]].packet # NoPacket
                      /\ Seq(storage'[buffer'[seq]].packet) = seq
    BY DEF SlotsHoldTheirPackets
  <2>1. CASE seq = Seq(p)
    BY <2>1, <1>3, <1>7, StreamAssumption DEF Packets
  <2>2. CASE seq # Seq(p)
    <3>1. seq \in Used(buffer) /\ buffer'[seq] = buffer[seq] /\ buffer[seq] \in Slots \ {i}
      BY <2>2, <1>8, <1>9
    <3>2. storage'[buffer'[seq]] = storage[buffer[seq]]
      BY <3>1, <1>3
    <3>3. QED
      BY <3>1, <3>2 DEF BuffersOK, SlotsHoldTheirPackets
  <2>3. QED
    BY <2>1, <2>2
<1>12. bufferStartIdx' \in Seqs
  BY <1>4, <1>6, <1>9
<1>13. BuffersOK'
  BY <1>1, <1>3, <1>7, <1>10, <1>11, <1>12 DEF BuffersOK
<1>14. QED
  BY <1>2, <1>7, <1>8, <1>9, <1>13

\* Steps that change the marks of items only.
LEMMA MarksOK ==
  ASSUME BuffersOK, UNCHANGED <<buffer, bufferStartIdx, bufferSize>>,
         storage' \in [Slots -> StorageItems],
         \A i \in Slots : /\ storage'[i].packet = storage[i].packet
                          /\ storage'[i].encodings = IF storage'[i].rtxEncoded THEN 1 ELSE 0
  PROVE  BuffersOK'
<1>1. StorageInUse'
  BY DEF BuffersOK, StorageInUse, Used
<1>2. SlotsHoldTheirPackets'
  BY InUseFacts DEF BuffersOK, SlotsHoldTheirPackets, Used
<1>3. EncodingKnown'
  BY DEF EncodingKnown
<1>4. QED
  BY <1>1, <1>2, <1>3 DEF BuffersOK

\* RTX encoding keeps the packet of an item and counts right.
LEMMA EncodedFacts ==
  ASSUME NEW item \in StorageItems, item.encodings = IF item.rtxEncoded THEN 1 ELSE 0
  PROVE  /\ Encoded(item) \in StorageItems
         /\ Encoded(item).packet = item.packet /\ Encoded(item).resent = item.resent
         /\ Encoded(item).encodings = IF Encoded(item).rtxEncoded THEN 1 ELSE 0
<1>1. CASE HasRtx /\ ~item.rtxEncoded
  <2>1. Encoded(item) = [item EXCEPT !.rtxEncoded = TRUE, !.encodings = 1]
    BY <1>1 DEF Encoded, StorageItems
  <2>2. QED
    BY <2>1 DEF StorageItems
<1>2. CASE ~(HasRtx /\ ~item.rtxEncoded)
  BY <1>2 DEF Encoded
<1>3. QED
  BY <1>1, <1>2

\* A cleared buffer is consistent and empty.
LEMMA ClearBufferOK ==
  ASSUME BuffersOK, ClearBuffer
  PROVE  BuffersOK' /\ Used(buffer)' = {}
<1>0. 0 \in Seqs /\ 0 \in 0 .. StorageSize /\ NoPacket \notin Packets
  BY StreamAssumption, SeqModulusAssumption DEF Seqs, Packets
<1>1. /\ buffer' = [seq \in Seqs |-> Free]
      /\ storage' = [i \in Slots |-> IF \E seq \in Seqs : buffer[seq] = i
                                     THEN Item(NoPacket) ELSE storage[i]]
      /\ bufferStartIdx' = 0 /\ bufferSize' = 0
  BY DEF ClearBuffer
<1>2. Used(buffer)' = {}
  BY <1>1 DEF Used
<1>3. \A i \in Slots : storage'[i] = Item(NoPacket) \/ storage'[i] = storage[i]
  BY <1>1
<1>4. storage' \in [Slots -> StorageItems]
  <2>1. \A i \in Slots : storage'[i] \in StorageItems
    BY <1>3, ItemFacts DEF BuffersOK
  <2>2. QED
    BY <1>1, <2>1
<1>5. EncodingKnown'
  BY <1>3, ItemFacts DEF BuffersOK, EncodingKnown
<1>6. StorageInUse'
  BY <1>1, <1>2 DEF StorageInUse, Slots
<1>7. SlotsHoldTheirPackets'
  BY <1>2 DEF SlotsHoldTheirPackets
<1>8. buffer' \in [Seqs -> Slots \cup {Free}]
  BY <1>1
<1>9. QED
  BY <1>0, <1>1, <1>2, <1>4, <1>5, <1>6, <1>7, <1>8 DEF BuffersOK

\* A NACK marks the items it is answered with as resent, and changes no packet.
LEMMA ReceiveNackOK ==
  ASSUME BuffersOK, NEW seq \in Seqs, NEW bitmask \in SUBSET (1 .. NackBits),
         ReceiveNack(seq, bitmask)
  PROVE  /\ BuffersOK'
         /\ \A i \in Slots :
               /\ storage'[i].packet = storage[i].packet
               /\ storage'[i].resent = (storage[i].resent \/ i \in Retransmitted(Asked(seq, bitmask)))
<1> DEFINE items == Retransmitted(Asked(seq, bitmask))
<1>1. /\ storage' = [i \in Slots |-> IF i \in items
                                     THEN [Encoded(storage[i]) EXCEPT !.resent = TRUE]
                                     ELSE storage[i]]
      /\ UNCHANGED <<buffer, bufferStartIdx, bufferSize>>
  BY DEF ReceiveNack
<1> HIDE DEF items
<1>2. ASSUME NEW i \in Slots
      PROVE  /\ storage'[i] \in StorageItems
             /\ storage'[i].packet = storage[i].packet
             /\ storage'[i].resent = (storage[i].resent \/ i \in items)
             /\ storage'[i].encodings = IF storage'[i].rtxEncoded THEN 1 ELSE 0
  <2>1. storage[i] \in StorageItems /\ storage[i].encodings = IF storage[i].rtxEncoded THEN 1 ELSE 0
    BY DEF BuffersOK, EncodingKnown
  <2>2. CASE i \in items
    <3>1. storage'[i] = [Encoded(storage[i]) EXCEPT !.resent = TRUE]
      BY <1>1, <2>2
    <3>2. QED
      BY <3>1, <2>1, <2>2, EncodedFacts DEF StorageItems
  <2>3. CASE i \notin items
    <3>1. storage'[i] = storage[i]
      BY <1>1, <2>3
    <3>2. storage[i].resent \in BOOLEAN
      BY <2>1 DEF StorageItems
    <3>3. QED
      BY <3>1, <3>2, <2>1, <2>3
  <2>4. QED
    BY <2>2, <2>3
<1>3. storage' \in [Slots -> StorageItems]
  BY <1>1, <1>2
<1>4. BuffersOK'
  BY <1>1, <1>2, <1>3, MarksOK
<1>5. QED
  BY <1>2, <1>4 DEF items

\* Probation changes no packet and no mark.
LEMMA ProbationOK ==
  ASSUME BuffersOK, NEW seq \in Seqs, SendProbationRtpPacket(seq)
  PROVE  /\ BuffersOK'
         /\ \A i \in Slots : /\ storage'[i].packet = storage[i].packet
                             /\ storage'[i].resent = storage[i].resent
<1>1. /\ storage' = [storage EXCEPT ![buffer[seq]] = Encoded(@)]
      /\ buffer[seq] \in Slots
      /\ UNCHANGED <<buffer, bufferStartIdx, bufferSize>>
  BY InUseFacts DEF SendProbationRtpPacket, Used
<1>2. ASSUME NEW i \in Slots
      PROVE  /\ storage'[i] \in StorageItems
             /\ storage'[i].packet = storage[i].packet
             /\ storage'[i].resent = storage[i].resent
             /\ storage'[i].encodings = IF storage'[i].rtxEncoded THEN 1 ELSE 0
  <2>1. storage[i] \in StorageItems /\ storage[i].encodings = IF storage[i].rtxEncoded THEN 1 ELSE 0
    BY DEF BuffersOK, EncodingKnown
  <2>2. storage'[i] = Encoded(storage[i]) \/ storage'[i] = storage[i]
    BY <1>1 DEF BuffersOK
  <2>3. QED
    BY <2>1, <2>2, EncodedFacts
<1>3. storage' \in [Slots -> StorageItems]
  BY <1>1, <1>2 DEF BuffersOK
<1>4. BuffersOK'
  BY <1>1, <1>2, <1>3, MarksOK
<1>5. QED
  BY <1>2, <1>4

\* Once an RTT has passed no item is marked.
LEMMA RttElapsesOK ==
  ASSUME BuffersOK, RttElapses
  PROVE  /\ BuffersOK'
         /\ \A i \in Slots : storage'[i].packet = storage[i].packet /\ ~storage'[i].resent
<1>1. /\ storage' = [i \in Slots |-> [storage[i] EXCEPT !.resent = FALSE]]
      /\ UNCHANGED <<buffer, bufferStartIdx, bufferSize>>
  BY DEF RttElapses
<1>2. ASSUME NEW i \in Slots
      PROVE  /\ storage'[i] \in StorageItems
             /\ storage'[i].packet = storage[i].packet
             /\ ~storage'[i].resent
             /\ storage'[i].encodings = IF storage'[i].rtxEncoded THEN 1 ELSE 0
  <2>1. storage[i] \in StorageItems /\ storage[i].encodings = IF storage[i].rtxEncoded THEN 1 ELSE 0
    BY DEF BuffersOK, EncodingKnown
  <2>2. storage'[i] = [storage[i] EXCEPT !.resent = FALSE]
    BY <1>1
  <2>3. QED
    BY <2>1, <2>2 DEF StorageItems
<1>3. storage' \in [Slots -> StorageItems]
  BY <1>1, <1>2
<1>4. BuffersOK'
  BY <1>1, <1>2, <1>3, MarksOK
<1>5. QED
  BY <1>2, <1>4

\* StorePacket() keeps the buffer consistent.
LEMMA StorePacketOK ==
  ASSUME BuffersOK, NEW p \in Packets, StorePacket(p)
  PROVE  BuffersOK'
<1>1. CASE Duplicated(p)
  BY <1>1 DEF Duplicated, buffers, BuffersOK, StorageInUse, SlotsHoldTheirPackets,
              EncodingKnown, Used
<1>2. QED
  BY <1>1, StoreFirstOK, StoreAgainOK, StoreMoreOK, StoreInsteadOfOldestOK DEF StorePacket

\* The buffer is consistent at the start.
LEMMA InitSInv == Init => SInv
<1> SUFFICES ASSUME Init PROVE SInv
  OBVIOUS
<1>0. 0 \in Seqs /\ 0 \in Packets /\ 0 \in 0 .. StorageSize
  BY StreamAssumption, SeqModulusAssumption DEF Seqs, Packets
<1>1. /\ maxPacketTs = 0 /\ buffer = [seq \in Seqs |-> Free]
      /\ bufferStartIdx = 0 /\ bufferSize = 0
      /\ storage = [i \in Slots |-> Item(NoPacket)] /\ crashed = FALSE
  BY DEF Init
<1>2. Used(buffer) = {}
  BY <1>1 DEF Used
<1>3. storage \in [Slots -> StorageItems] /\ EncodingKnown
  BY <1>1, ItemFacts DEF EncodingKnown
<1>4. StorageInUse /\ SlotsHoldTheirPackets
  BY <1>1, <1>2 DEF StorageInUse, SlotsHoldTheirPackets, Slots
<1>5. buffer \in [Seqs -> Slots \cup {Free}]
  BY <1>1
<1>6. BuffersOK
  BY <1>0, <1>1, <1>3, <1>4, <1>5 DEF BuffersOK
<1>7. QED
  BY <1>0, <1>1, <1>6 DEF SInv, BuffersOK, TypeOK

\* Every step keeps it consistent.
LEMMA NextSInv == SInv /\ [Next]_vars => SInv'
<1> SUFFICES ASSUME SInv, [Next]_vars PROVE SInv'
  OBVIOUS
<1>0. BuffersOK /\ maxPacketTs \in Packets /\ crashed \in BOOLEAN
  BY DEF SInv, TypeOK
<1>a. SUFFICES BuffersOK' /\ maxPacketTs' \in Packets /\ crashed' \in BOOLEAN
  BY DEF SInv, TypeOK, BuffersOK
<1>1. ASSUME NEW p \in Packets, NEW resync \in BOOLEAN, NEW tooBig \in BOOLEAN,
             ReceivePacket(p, resync, tooBig)
      PROVE  BuffersOK' /\ maxPacketTs' \in Packets /\ crashed' \in BOOLEAN
  <2>1. maxPacketTs' \in Packets /\ crashed' \in BOOLEAN
    BY <1>0, <1>1 DEF ReceivePacket, UpdateMaxPacketTs
  <2>2. CASE tooBig
    <3>1. UNCHANGED buffers
      BY <2>2, <1>1 DEF ReceivePacket
    <3>2. BuffersOK'
      BY <3>1, <1>0 DEF buffers, BuffersOK, StorageInUse, SlotsHoldTheirPackets,
         EncodingKnown, Used
    <3>3. QED
      BY <2>1, <3>2
  <2>3. CASE ~tooBig
    <3>1. StorePacket(p)
      BY <2>3, <1>1 DEF ReceivePacket
    <3>2. QED
      BY <2>1, <3>1, <1>0, StorePacketOK
  <2>4. QED
    BY <2>1, <2>2, <2>3
<1>2. ASSUME NEW seq \in Seqs, NEW bitmask \in SUBSET (1 .. NackBits), ReceiveNack(seq, bitmask)
      PROVE  BuffersOK' /\ maxPacketTs' \in Packets /\ crashed' \in BOOLEAN
  BY <1>0, <1>2, ReceiveNackOK DEF ReceiveNack
<1>3. ASSUME NEW seq \in Seqs, NEW bitmask \in SUBSET (1 .. NackBits), NEW sent \in 1 .. NackBits + 1,
             ReceiveNackDisconnecting(seq, bitmask, sent)
      PROVE  BuffersOK' /\ maxPacketTs' \in Packets /\ crashed' \in BOOLEAN
  BY <1>0, <1>3, ClearBufferOK DEF ReceiveNackDisconnecting
<1>4. ASSUME NEW seq \in Seqs, SendProbationRtpPacket(seq)
      PROVE  BuffersOK' /\ maxPacketTs' \in Packets /\ crashed' \in BOOLEAN
  BY <1>0, <1>4, ProbationOK DEF SendProbationRtpPacket
<1>5. CASE Pause
  BY <1>0, <1>5, ClearBufferOK DEF Pause
<1>6. CASE RttElapses
  BY <1>0, <1>6, RttElapsesOK DEF RttElapses
<1>7. CASE UNCHANGED vars
  BY <1>0, <1>7 DEF vars, BuffersOK, StorageInUse, SlotsHoldTheirPackets, EncodingKnown, Used
<1>8. QED
  BY <1>1, <1>2, <1>3, <1>4, <1>5, <1>6, <1>7 DEF Next, Gone

\* The inductive invariant holds in every state.
THEOREM SendInvariant == Spec => []SInv
  BY InitSInv, NextSInv, PTL DEF Spec

\* The fields of RtpStreamSend keep their types: no packet is RTX encoded twice.
THEOREM SendTypeCorrect == Spec => []TypeOK
<1>1. SInv => TypeOK
  BY DEF SInv
<1>2. QED
  BY <1>1, SendInvariant, PTL

\* Every slot in use points to an item of its own, and the buffer starts at one.
THEOREM StorageInUseAlways == Spec => []StorageInUse
<1>1. SInv => StorageInUse
  BY DEF SInv, BuffersOK
<1>2. QED
  BY <1>1, SendInvariant, PTL

\* A NACK is answered with the packet it asks for, never with a null one.
THEOREM SlotsHoldTheirPacketsAlways == Spec => []SlotsHoldTheirPackets
<1>1. SInv => SlotsHoldTheirPackets
  BY DEF SInv, BuffersOK
<1>2. QED
  BY <1>1, SendInvariant, PTL
-----------------------------------------------------------------------------
(***************************************************************************)
(* The refinement.                                                         *)
(***************************************************************************)
\* Whether p is stored, and resent, can be seen at its own slot.
LEMMA StoredAtItsSlot ==
  BuffersOK =>
    /\ \A p : p \in Stored <=> /\ Seq(p) \in Used(buffer)
                               /\ storage[buffer[Seq(p)]].packet = p
    /\ \A p : p \in Resent <=> /\ Seq(p) \in Used(buffer)
                               /\ storage[buffer[Seq(p)]].packet = p
                               /\ storage[buffer[Seq(p)]].resent
<1> SUFFICES ASSUME BuffersOK
             PROVE  /\ \A p : p \in Stored <=> /\ Seq(p) \in Used(buffer)
                                               /\ storage[buffer[Seq(p)]].packet = p
                    /\ \A p : p \in Resent <=> /\ Seq(p) \in Used(buffer)
                                               /\ storage[buffer[Seq(p)]].packet = p
                                               /\ storage[buffer[Seq(p)]].resent
  OBVIOUS
<1>1. \A seq \in Used(buffer) : Seq(storage[buffer[seq]].packet) = seq
  BY DEF BuffersOK, SlotsHoldTheirPackets
<1>2. QED
  BY <1>1 DEF Stored, Resent

\* As many packets are stored as items are in use.
LEMMA StoredCardinality ==
  ASSUME BuffersOK
  PROVE  IsFiniteSet(Stored) /\ Cardinality(Stored) = bufferSize
<1> DEFINE I == 0 .. bufferSize - 1
           f == [i \in I |-> storage[i].packet]
<1>1. bufferSize \in Nat /\ I \subseteq Slots
  BY StreamAssumption DEF BuffersOK, Slots
<1>2. IsFiniteSet(I) /\ Cardinality(I) = bufferSize
  BY <1>1, FS_Interval
<1>3. \A i \in I : \E seq \in Used(buffer) : buffer[seq] = i
  BY <1>1 DEF BuffersOK, StorageInUse
<1>4. \A seq \in Used(buffer) : buffer[seq] \in I /\ Seq(storage[buffer[seq]].packet) = seq
  BY <1>1, InUseFacts DEF BuffersOK, SlotsHoldTheirPackets, Slots
<1>5. f \in [I -> Stored]
  BY <1>3 DEF Stored
<1>6. \A i, j \in I : f[i] = f[j] => i = j
  BY <1>3, <1>4
<1>7. \A p \in Stored : \E i \in I : f[i] = p
  BY <1>4 DEF Stored
<1> HIDE DEF f, I
<1>8. f \in Bijection(I, Stored)
  BY <1>5, <1>6, <1>7 DEF Bijection, Injection, Surjection, IsInjective
<1>9. ExistsBijection(I, Stored)
  BY <1>8 DEF ExistsBijection
<1>10. QED
  BY <1>2, <1>9, FS_Bijection

\* The instance speaks of the same cardinalities.
LEMMA CacheCardinality == \A S : Cache!Cardinality(S) = Cardinality(S)
  BY DEF Cache!Cardinality, Cardinality

\* A packet takes the place of the one stored at slot old, or of none.
LEMMA TakeOutStep ==
  ASSUME BuffersOK, BuffersOK', NEW p \in Packets, NEW old \in Used(buffer),
         p \notin Stored,
         old = Seq(p) \/ bufferSize = StorageSize,
         \A q : q \in Stored' <=> q = p \/ (q \in Stored /\ Seq(q) # old),
         \A q : q \in Resent' <=> q \in Resent /\ Seq(q) # old,
         old # Seq(p) => Seq(p) \notin Used(buffer)
  PROVE  Cache!Take(p)
<1> DEFINE out == storage[buffer[old]].packet
<1>1. out \in Stored /\ Seq(out) = old
  BY DEF Stored, BuffersOK, SlotsHoldTheirPackets
<1>2. \A q \in Stored : Seq(q) = old => q = out
  BY StoredAtItsSlot
<1>3. Stored' = (Stored \ {out}) \cup {p}
  BY <1>1, <1>2
<1>4. Resent' = Resent \ {out}
  <2>1. \A q \in Resent : q \in Stored
    BY StoredAtItsSlot
  <2>2. QED
    BY <1>1, <1>2, <2>1
<1>5. Wrap(out) = Wrap(p) \/ Cardinality(Stored) = StorageSize
  BY <1>1, StoredCardinality DEF Seq
<1>6. \A q \in Stored \ {out} : Wrap(q) # Wrap(p)
  BY <1>1, <1>2, StoredAtItsSlot DEF Seq
<1>7. QED
  BY <1>1, <1>3, <1>4, <1>5, <1>6, CacheCardinality DEF Cache!Take, Cache!Wrap, Wrap

\* It comes into a buffer that is not full.
LEMMA TakeInStep ==
  ASSUME BuffersOK, BuffersOK', NEW p \in Packets,
         Seq(p) \notin Used(buffer), bufferSize < StorageSize,
         \A q : q \in Stored' <=> q = p \/ q \in Stored,
         \A q : q \in Resent' <=> q \in Resent
  PROVE  Cache!Take(p)
<1>1. p \notin Stored /\ \A q \in Stored : Wrap(q) # Wrap(p)
  BY StoredAtItsSlot DEF Seq
<1>2. Stored' = Stored \cup {p} /\ Resent' = Resent
  OBVIOUS
<1>3. Cardinality(Stored) < StorageSize
  BY StoredCardinality
<1>4. QED
  BY <1>1, <1>2, <1>3, CacheCardinality DEF Cache!Take, Cache!Wrap, Wrap

\* The same after a step.
LEMMA StoredAtItsSlotNext ==
  (BuffersOK =>
    /\ \A p : p \in Stored <=> /\ Seq(p) \in Used(buffer)
                               /\ storage[buffer[Seq(p)]].packet = p
    /\ \A p : p \in Resent <=> /\ Seq(p) \in Used(buffer)
                               /\ storage[buffer[Seq(p)]].packet = p
                               /\ storage[buffer[Seq(p)]].resent)'
  BY StoredAtItsSlot, PTL

\* What StorePacket() stores is what the cache takes.
LEMMA StorePacketTakes ==
  ASSUME BuffersOK, NEW p \in Packets, StorePacket(p), ~Duplicated(p)
  PROVE  Cache!Take(p)
<1>0. BuffersOK' /\ Seq(p) \in Seqs /\ Free \notin Slots
  BY StorePacketOK, StreamAssumption, WrapFacts DEF Slots, Seq, Packets
<1>i. ~Item(p).resent
  BY DEF Item
<1>a. /\ \A q : q \in Stored <=> /\ Seq(q) \in Used(buffer)
                                 /\ storage[buffer[Seq(q)]].packet = q
      /\ \A q : q \in Resent <=> /\ Seq(q) \in Used(buffer)
                                 /\ storage[buffer[Seq(q)]].packet = q
                                 /\ storage[buffer[Seq(q)]].resent
  BY StoredAtItsSlot
<1>b. /\ \A q : q \in Stored' <=> /\ Seq(q) \in Used(buffer)'
                                  /\ storage'[buffer'[Seq(q)]].packet = q
      /\ \A q : q \in Resent' <=> /\ Seq(q) \in Used(buffer)'
                                  /\ storage'[buffer'[Seq(q)]].packet = q
                                  /\ storage'[buffer'[Seq(q)]].resent
  BY <1>0, StoredAtItsSlotNext DEF Seq
<1>1. CASE StoreFirst(p)
  <2>1. /\ Used(buffer) = {} /\ bufferSize < StorageSize /\ 0 \in Slots
        /\ buffer' = [buffer EXCEPT ![Seq(p)] = 0]
        /\ storage' = [storage EXCEPT ![0] = Item(p)]
    BY <1>1, InUseFacts, StreamAssumption DEF StoreFirst, Renewed, Slots
  <2>2. buffer'[Seq(p)] = 0 /\ Used(buffer)' = {Seq(p)} /\ storage'[0] = Item(p)
    BY <1>0, <2>1 DEF BuffersOK, Used
  <2>3. /\ \A q : q \in Stored' <=> q = p \/ q \in Stored
        /\ \A q : q \in Resent' <=> q \in Resent
    <3> SUFFICES ASSUME NEW q
                 PROVE  /\ q \in Stored' <=> q = p \/ q \in Stored
                        /\ q \in Resent' <=> q \in Resent
      OBVIOUS
    <3>1. Seq(q) \in Used(buffer)' => Seq(q) = Seq(p) /\ storage'[buffer'[Seq(q)]] = Item(p)
      BY <2>2
    <3>2. q \notin Stored /\ q \notin Resent
      BY <1>a, <2>1
    <3>3. q \in Stored' <=> q = p
      BY <1>b, <2>2, <3>1, ItemFacts
    <3>4. q \notin Resent'
      BY <1>b, <1>i, <3>1
    <3>5. QED
      BY <3>2, <3>3, <3>4
  <2>4. QED
    BY <1>0, <2>1, <2>3, TakeInStep
<1>2. CASE StoreMore(p)
  <2>1. /\ Seq(p) \notin Used(buffer) /\ bufferSize < StorageSize /\ bufferSize \in Slots
        /\ buffer' = [buffer EXCEPT ![Seq(p)] = bufferSize]
        /\ storage' = [storage EXCEPT ![bufferSize] = Item(p)]
    BY <1>2, StreamAssumption DEF StoreMore, Renewed, Slots, Used
  <2>2. /\ buffer'[Seq(p)] = bufferSize
        /\ Used(buffer)' = Used(buffer) \cup {Seq(p)} /\ storage'[bufferSize] = Item(p)
    BY <1>0, <2>1 DEF BuffersOK, Used
  <2>3. \A seq \in Used(buffer) : buffer'[seq] = buffer[seq] /\ storage'[buffer'[seq]] = storage[buffer[seq]]
    BY <2>1, InUseFacts DEF BuffersOK
  <2>4. /\ \A q : q \in Stored' <=> q = p \/ q \in Stored
        /\ \A q : q \in Resent' <=> q \in Resent
    <3> SUFFICES ASSUME NEW q
                 PROVE  /\ q \in Stored' <=> q = p \/ q \in Stored
                        /\ q \in Resent' <=> q \in Resent
      OBVIOUS
    <3>1. CASE Seq(q) = Seq(p)
      <4>1. q \notin Stored /\ q \notin Resent
        BY <1>a, <2>1, <3>1
      <4>2. storage'[buffer'[Seq(q)]] = Item(p) /\ Seq(q) \in Used(buffer)'
        BY <2>2, <3>1
      <4>3. (q \in Stored' <=> q = p) /\ q \notin Resent'
        BY <1>b, <1>i, <4>2, ItemFacts
      <4>4. QED
        BY <4>1, <4>3
    <3>2. CASE Seq(q) # Seq(p)
      BY <1>a, <1>b, <2>2, <2>3, <3>2
    <3>3. QED
      BY <3>1, <3>2
  <2>5. QED
    BY <1>0, <2>1, <2>4, TakeInStep
<1>3. CASE StoreAgain(p)
  <2>1. /\ Seq(p) \in Used(buffer) /\ buffer' = buffer
        /\ storage' = [storage EXCEPT ![buffer[Seq(p)]] = Item(p)]
        /\ storage[buffer[Seq(p)]].packet # p
    BY <1>0, <1>3 DEF StoreAgain, Renewed, Used
  <2>2. Used(buffer)' = Used(buffer) /\ storage'[buffer'[Seq(p)]] = Item(p)
    BY <2>1, InUseFacts DEF BuffersOK, Used
  <2>3. \A seq \in Used(buffer) \ {Seq(p)} : buffer'[seq] = buffer[seq] /\ storage'[buffer'[seq]] = storage[buffer[seq]]
    BY <2>1, InUseFacts DEF BuffersOK, StorageInUse
  <2>4. p \notin Stored
    BY <1>a, <2>1
  <2>5. /\ \A q : q \in Stored' <=> q = p \/ (q \in Stored /\ Seq(q) # Seq(p))
        /\ \A q : q \in Resent' <=> q \in Resent /\ Seq(q) # Seq(p)
    BY <1>a, <1>b, <1>i, <2>1, <2>2, <2>3, ItemFacts
  <2>6. QED
    BY <1>0, <2>1, <2>4, <2>5, TakeOutStep
<1>4. CASE StoreInsteadOfOldest(p)
  <2>1. /\ bufferStartIdx \in Used(buffer) /\ Seq(p) \notin Used(buffer)
        /\ Used(buffer)' = (Used(buffer) \ {bufferStartIdx}) \cup {Seq(p)}
        /\ buffer'[Seq(p)] = buffer[bufferStartIdx]
        /\ \A seq \in Used(buffer) \ {bufferStartIdx} : buffer'[seq] = buffer[seq]
    BY <1>4, StoreInsteadOfOldestOK
  <2>2. /\ bufferSize = StorageSize
        /\ storage' = [storage EXCEPT ![buffer[bufferStartIdx]] = Item(p)]
    BY <1>4 DEF StoreInsteadOfOldest, Renewed
  <2>3. storage'[buffer'[Seq(p)]] = Item(p)
    BY <2>1, <2>2, InUseFacts DEF BuffersOK
  <2>4. \A seq \in Used(buffer) \ {bufferStartIdx} : storage'[buffer'[seq]] = storage[buffer[seq]]
    BY <2>1, <2>2, InUseFacts DEF BuffersOK, StorageInUse
  <2>5. p \notin Stored
    BY <1>a, <2>1
  <2>6. /\ \A q : q \in Stored' <=> q = p \/ (q \in Stored /\ Seq(q) # bufferStartIdx)
        /\ \A q : q \in Resent' <=> q \in Resent /\ Seq(q) # bufferStartIdx
    BY <1>a, <1>b, <1>i, <2>1, <2>3, <2>4, ItemFacts
  <2>7. QED
    BY <1>0, <2>1, <2>2, <2>5, <2>6, TakeOutStep
<1>5. QED
  BY <1>1, <1>2, <1>3, <1>4 DEF StorePacket

\* Clearing the buffer clears the cache.
LEMMA ClearStep ==
  ASSUME BuffersOK, ClearBuffer
  PROVE  Cache!Clear
  BY ClearBufferOK DEF Stored, Resent, Cache!Clear

\* Steps that keep the packets and change the marks only.
LEMMA MarksStep ==
  ASSUME BuffersOK, BuffersOK', UNCHANGED buffer,
         \A i \in Slots : storage'[i].packet = storage[i].packet
  PROVE  /\ Stored' = Stored
         /\ \A q : q \in Resent' <=> q \in Stored /\ storage'[buffer[Seq(q)]].resent
<1>a. \A q : q \in Stored <=> /\ Seq(q) \in Used(buffer)
                              /\ storage[buffer[Seq(q)]].packet = q
  BY StoredAtItsSlot
<1>b. /\ \A q : q \in Stored' <=> /\ Seq(q) \in Used(buffer)'
                                  /\ storage'[buffer'[Seq(q)]].packet = q
      /\ \A q : q \in Resent' <=> /\ Seq(q) \in Used(buffer)'
                                  /\ storage'[buffer'[Seq(q)]].packet = q
                                  /\ storage'[buffer'[Seq(q)]].resent
  BY StoredAtItsSlotNext DEF Seq
<1>1. Used(buffer)' = Used(buffer) /\ buffer' = buffer
  BY DEF Used
<1>2. \A seq \in Used(buffer) : storage'[buffer[seq]].packet = storage[buffer[seq]].packet
  BY InUseFacts
<1>3. \A q : q \in Stored' <=> q \in Stored
  BY <1>a, <1>b, <1>1, <1>2
<1>4. QED
  BY <1>a, <1>b, <1>1, <1>2, <1>3

\* Every step of the stream is one of the cache, or stutters.
LEMMA CacheStep ==
  ASSUME SInv, [Next]_vars
  PROVE  [Cache!CacheNext]_(Cache!cache)
<1>0. BuffersOK
  BY DEF SInv
<1>a. /\ \A q : q \in Stored <=> /\ Seq(q) \in Used(buffer)
                                 /\ storage[buffer[Seq(q)]].packet = q
      /\ \A q : q \in Resent <=> /\ Seq(q) \in Used(buffer)
                                 /\ storage[buffer[Seq(q)]].packet = q
                                 /\ storage[buffer[Seq(q)]].resent
  BY <1>0, StoredAtItsSlot
<1>1. ASSUME NEW p \in Packets, NEW resync \in BOOLEAN, NEW tooBig \in BOOLEAN,
             ReceivePacket(p, resync, tooBig)
      PROVE  [Cache!CacheNext]_(Cache!cache)
  <2>1. CASE StorePacket(p) /\ ~Duplicated(p)
    BY <2>1, <1>0, StorePacketTakes DEF Cache!CacheNext
  <2>2. CASE UNCHANGED buffers
    BY <2>2 DEF buffers, Cache!cache, Stored, Resent, Used
  <2>3. QED
    BY <1>1, <2>1, <2>2 DEF ReceivePacket, Duplicated
<1>2. ASSUME NEW seq \in Seqs, NEW bitmask \in SUBSET (1 .. NackBits), ReceiveNack(seq, bitmask)
      PROVE  Cache!Answer
  <2> DEFINE items == Retransmitted(Asked(seq, bitmask))
             sent == {q \in Stored : buffer[Seq(q)] \in items}
  <2>1. /\ BuffersOK' /\ UNCHANGED buffer
        /\ \A i \in Slots : /\ storage'[i].packet = storage[i].packet
                            /\ storage'[i].resent = (storage[i].resent \/ i \in items)
    BY <1>0, <1>2, ReceiveNackOK DEF ReceiveNack
  <2>2. Stored' = Stored /\ \A q : q \in Resent' <=> q \in Stored /\ storage'[buffer[Seq(q)]].resent
    BY <1>0, <2>1, MarksStep
  <2>3. \A i \in items : ~storage[i].resent
    BY DEF Retransmitted
  <2>4. \A q \in Stored : buffer[Seq(q)] \in Slots
    BY <1>0, <1>a, InUseFacts
  <2>5. sent \in SUBSET (Stored \ Resent)
    BY <1>a, <2>3
  <2>6. Resent' = Resent \cup sent
    <3>1. ASSUME NEW q
          PROVE  q \in Resent' <=> q \in Resent \/ q \in sent
      <4>1. CASE q \in Stored
        <5>1. storage'[buffer[Seq(q)]].resent
                 <=> storage[buffer[Seq(q)]].resent \/ buffer[Seq(q)] \in items
          BY <2>1, <2>4, <4>1
        <5>2. QED
          BY <1>a, <2>2, <4>1, <5>1
      <4>2. CASE q \notin Stored
        BY <1>a, <2>2, <4>2
      <4>3. QED
        BY <4>1, <4>2
    <3>2. QED
      BY <3>1
  <2>7. QED
    BY <2>2, <2>5, <2>6 DEF Cache!Answer
<1>3. ASSUME NEW seq \in Seqs, NEW bitmask \in SUBSET (1 .. NackBits), NEW sent \in 1 .. NackBits + 1,
             ReceiveNackDisconnecting(seq, bitmask, sent)
      PROVE  Cache!Clear
  BY <1>0, <1>3, ClearStep DEF ReceiveNackDisconnecting
<1>4. ASSUME NEW seq \in Seqs, SendProbationRtpPacket(seq)
      PROVE  UNCHANGED Cache!cache
  <2>1. /\ BuffersOK' /\ UNCHANGED buffer
        /\ \A i \in Slots : /\ storage'[i].packet = storage[i].packet
                            /\ storage'[i].resent = storage[i].resent
    BY <1>0, <1>4, ProbationOK DEF SendProbationRtpPacket
  <2>2. Stored' = Stored /\ \A q : q \in Resent' <=> q \in Stored /\ storage'[buffer[Seq(q)]].resent
    BY <1>0, <2>1, MarksStep
  <2>3. \A q \in Stored : buffer[Seq(q)] \in Slots
    BY <1>0, <1>a, InUseFacts
  <2>4. Resent' = Resent
    <3>1. ASSUME NEW q
          PROVE  q \in Resent' <=> q \in Resent
      <4>1. CASE q \in Stored
        <5>1. storage'[buffer[Seq(q)]].resent <=> storage[buffer[Seq(q)]].resent
          BY <2>1, <2>3, <4>1
        <5>2. QED
          BY <1>a, <2>2, <4>1, <5>1
      <4>2. CASE q \notin Stored
        BY <1>a, <2>2, <4>2
      <4>3. QED
        BY <4>1, <4>2
    <3>2. QED
      BY <3>1
  <2>5. QED
    BY <2>2, <2>4 DEF Cache!cache
<1>5. CASE Pause
  BY <1>0, <1>5, ClearStep DEF Pause, Cache!CacheNext
<1>6. CASE RttElapses
  <2>1. /\ BuffersOK' /\ UNCHANGED buffer
        /\ \A i \in Slots : storage'[i].packet = storage[i].packet /\ ~storage'[i].resent
    BY <1>0, <1>6, RttElapsesOK DEF RttElapses
  <2>2. Stored' = Stored /\ \A q : q \in Resent' <=> q \in Stored /\ storage'[buffer[Seq(q)]].resent
    BY <1>0, <2>1, MarksStep
  <2>3. \A q \in Stored : buffer[Seq(q)] \in Slots
    BY <1>0, <1>a, InUseFacts
  <2>4. Resent' = {}
    BY <2>1, <2>2, <2>3
  <2>5. QED
    BY <2>2, <2>4 DEF Cache!RttPasses, Cache!CacheNext
<1>7. CASE UNCHANGED vars
  BY <1>7 DEF vars, Cache!cache, Stored, Resent, Used
<1>8. QED
  BY <1>1, <1>2, <1>3, <1>4, <1>5, <1>6, <1>7 DEF Next, Gone, Cache!CacheNext

\* The cache starts empty.
LEMMA CacheStart == Init => Cache!CacheInit
<1> SUFFICES ASSUME Init PROVE Stored = {} /\ Resent = {}
  BY DEF Cache!CacheInit
<1>1. Used(buffer) = {}
  BY DEF Init, Used
<1>2. QED
  BY <1>1 DEF Stored, Resent

\* The buffer keeps what the cache promises.
THEOREM SendImplementsCache == Spec => ImplementsCache
<1>1. SInv /\ [Next]_vars => [Cache!CacheNext]_(Cache!cache)
  BY CacheStep
<1>2. QED
  BY <1>1, CacheStart, SendInvariant, PTL DEF Spec, ImplementsCache, Cache!CacheSpec
-----------------------------------------------------------------------------
(***************************************************************************)
(* The order of packets in the circle of slots.                            *)
(***************************************************************************)
\* Quotient and remainder.
LEMMA Division ==
    ASSUME NEW n \in Int
    PROVE  /\ n \div SeqModulus \in Int
           /\ Wrap(n) \in Int /\ 0 <= Wrap(n) /\ Wrap(n) < SeqModulus
           /\ n = SeqModulus * (n \div SeqModulus) + Wrap(n)
BY SeqModulusAssumption DEF Wrap

\* A number with the remainder r is wrapped to r.
LEMMA WrapIs ==
    ASSUME NEW n \in Int, NEW q \in Int, NEW r \in Seqs, n = SeqModulus * q + r
    PROVE  Wrap(n) = r
<1> DEFINE N == SeqModulus
           p == n \div SeqModulus
           s == Wrap(n)
<1>1. p \in Int /\ s \in Int /\ 0 <= s /\ s < N /\ n = N * p + s
  BY Division
<1>2. N \in Nat /\ N > 3 /\ r \in Int /\ 0 <= r /\ r < N
  BY SeqModulusAssumption DEF Seqs
<1> HIDE DEF N, p, s
<1>3. N * q + r = N * p + s
  BY <1>1 DEF N
<1>4. ASSUME NEW a \in Int, NEW b \in Int, a > b PROVE N * a >= N * b + N
  <2>1. a - b >= 1 /\ a - b \in Int
    BY <1>4
  <2>2. N * (a - b) >= N
    BY <1>2, <2>1
  <2>3. N * (a - b) = N * a - N * b
    BY <1>2
  <2> QED
    BY <1>2, <2>2, <2>3
<1>5. ~(q > p)
  BY <1>1, <1>2, <1>3, <1>4
<1>6. ~(p > q)
  BY <1>1, <1>2, <1>3, <1>4
<1>7. p = q
  BY <1>1, <1>5, <1>6
<1> QED
  BY <1>1, <1>2, <1>3, <1>7 DEF s

\* From the slot of one packet to that of another, less than a cycle later, it is
\* as far as between the packets; from a slot to itself it is farthest.
LEMMA DistanceIs ==
    /\ \A m, p \in Int : m < p /\ p - m < SeqModulus =>
          Distance(Wrap(m), Wrap(p)) = p - m - 1
    /\ \A s \in Seqs : Distance(s, s) = SeqModulus - 1
<1> DEFINE N == SeqModulus
<1>0. N \in Nat /\ N > 3 /\ Seqs = 0 .. N - 1
  BY SeqModulusAssumption DEF Seqs
<1>1. ASSUME NEW m \in Int, NEW p \in Int, m < p, p - m < N
      PROVE  Distance(Wrap(m), Wrap(p)) = p - m - 1
  <2> DEFINE a == p \div SeqModulus
             b == m \div SeqModulus
             x == Wrap(p)
             y == Wrap(m)
             r == p - m - 1
  <2>1. a \in Int /\ b \in Int /\ x \in Int /\ y \in Int /\ p = N * a + x /\ m = N * b + y
    BY Division
  <2>2. r \in Seqs
    BY <1>0, <1>1
  <2> HIDE DEF a, b, x, y
  <2>3. x - y - 1 = N * (b - a) + r
    BY <1>0, <2>1
  <2>4. x - y - 1 \in Int /\ b - a \in Int
    BY <2>1
  <2> HIDE DEF N, r
  <2>5. Wrap(x - y - 1) = r
    BY <2>2, <2>3, <2>4, WrapIs DEF N
  <2> QED
    BY <2>5 DEF Distance, x, y, r
<1>2. ASSUME NEW s \in Seqs PROVE Distance(s, s) = N - 1
  <2>1. N - 1 \in Seqs /\ s - s - 1 = N * (0 - 1) + (N - 1) /\ s - s - 1 \in Int /\ 0 - 1 \in Int
    BY <1>0
  <2>2. Wrap(s - s - 1) = N - 1
    BY <2>1, WrapIs
  <2> QED
    BY <2>2 DEF Distance
<1> QED
  BY <1>1, <1>2

\* The next slot is the nearest one.
LEMMA UpdateBufferStartIdxNearest ==
    ASSUME NEW b \in [Seqs -> Slots \cup {Free}], NEW start \in Seqs, Used(b) # {}
    PROVE  /\ UpdateBufferStartIdx(b, start) \in Used(b)
           /\ \A other \in Used(b) :
                 Distance(start, UpdateBufferStartIdx(b, start)) <= Distance(start, other)
<1> DEFINE D == {Distance(start, seq) : seq \in Used(b)}
<1>1. \A seq \in Used(b) : seq \in Seqs /\ Distance(start, seq) \in Nat
  BY WrapFacts, SeqModulusAssumption DEF Used, Distance, Seqs
<1>2. D \subseteq Nat /\ D # {}
  BY <1>1
<1>3. PICK d \in D : \A e \in D : ~(<<e, d>> \in OpToRel(<, Nat))
  BY <1>2, NatLessThanWellFounded, WFMin
<1>4. \A e \in D : ~(e < d)
  BY <1>2, <1>3 DEF OpToRel
<1>5. PICK seq \in Used(b) : Distance(start, seq) = d
  OBVIOUS
<1>6. \A other \in Used(b) : Distance(start, seq) <= Distance(start, other)
  BY <1>1, <1>2, <1>4, <1>5
<1> QED
  BY <1>6 DEF UpdateBufferStartIdx

\* The slot after that of m is the one of the oldest packet, when all others were
\* sent within the cycle after m.
LEMMA NextIsOldest ==
    ASSUME NEW b \in [Seqs -> Slots \cup {Free}], NEW m \in Int, NEW start \in Seqs,
           Wrap(m) = start,
           NEW pk,
           \A x \in Used(b) \ {start} :
              pk[x] \in Int /\ Wrap(pk[x]) = x /\ m < pk[x] /\ pk[x] - m < SeqModulus,
           Used(b) \ {start} # {}
    PROVE  /\ UpdateBufferStartIdx(b, start) \in Used(b) \ {start}
           /\ \A x \in Used(b) \ {start} : pk[UpdateBufferStartIdx(b, start)] <= pk[x]
<1> DEFINE n == UpdateBufferStartIdx(b, start)
<1>1. n \in Used(b) /\ \A x \in Used(b) : Distance(start, n) <= Distance(start, x)
  BY UpdateBufferStartIdxNearest
<1> HIDE DEF n
<1>2. \A x \in Used(b) \ {start} :
         Distance(start, x) = pk[x] - m - 1 /\ Distance(start, x) < SeqModulus - 1
  <2> SUFFICES ASSUME NEW x \in Used(b) \ {start}
               PROVE  Distance(start, x) = pk[x] - m - 1 /\ Distance(start, x) < SeqModulus - 1
    OBVIOUS
  <2>1. pk[x] \in Int /\ Wrap(pk[x]) = x /\ m < pk[x] /\ pk[x] - m < SeqModulus
    OBVIOUS
  <2>2. Distance(Wrap(m), Wrap(pk[x])) = pk[x] - m - 1
    BY <2>1, DistanceIs
  <2> QED
    BY <2>1, <2>2, SeqModulusAssumption
<1>3. n # start
  <2>1. PICK x \in Used(b) \ {start} : TRUE
    OBVIOUS
  <2>2. Distance(start, x) = pk[x] - m - 1 /\ pk[x] \in Int /\ Distance(start, x) < SeqModulus - 1
    BY <1>2
  <2>3. Distance(start, start) = SeqModulus - 1
    BY DistanceIs
  <2> QED
    BY <1>1, <2>2, <2>3, SeqModulusAssumption
<1>4. ASSUME NEW x \in Used(b) \ {start} PROVE pk[n] <= pk[x]
  <2>1. Distance(start, n) = pk[n] - m - 1 /\ Distance(start, x) = pk[x] - m - 1
    BY <1>1, <1>2, <1>3
  <2>2. pk[n] \in Int /\ pk[x] \in Int
    BY <1>1, <1>3
  <2> QED
    BY <1>1, <2>1, <2>2
<1> QED
  BY <1>1, <1>3, <1>4 DEF n

\* The packet of a slot.
PacketAt(seq) == storage[buffer[seq]].packet

\* What is stored, by slots.
LEMMA StoredBySlot ==
    ASSUME BuffersOK
    PROVE  /\ \A x \in Used(buffer) : /\ PacketAt(x) \in Stored /\ PacketAt(x) \in Int
                                     /\ Wrap(PacketAt(x)) = x
           /\ StartsAtOldest <=> (bufferSize > 0 =>
                 \A x \in Used(buffer) : PacketAt(bufferStartIdx) <= PacketAt(x))
<1>1. ASSUME NEW x \in Used(buffer)
      PROVE  PacketAt(x) \in Stored /\ PacketAt(x) \in Int /\ Wrap(PacketAt(x)) = x
  <2>1. buffer[x] \in Slots
    BY InUseFacts
  <2>2. storage[buffer[x]].packet \in Packets \cup {NoPacket}
    BY <2>1 DEF BuffersOK, StorageItems
  <2> QED
    BY <2>2, StreamAssumption DEF BuffersOK, SlotsHoldTheirPackets, Stored, Packets, PacketAt, Seq
<1>2. StartsAtOldest <=> (bufferSize > 0 =>
         \A x \in Used(buffer) : PacketAt(bufferStartIdx) <= PacketAt(x))
  BY DEF StartsAtOldest, Stored, PacketAt
<1> QED
  BY <1>1, <1>2

\* The same after a step.
LEMMA StoredBySlotNext ==
  (BuffersOK =>
    /\ \A x \in Used(buffer) : /\ PacketAt(x) \in Stored /\ PacketAt(x) \in Int
                              /\ Wrap(PacketAt(x)) = x
    /\ StartsAtOldest <=> (bufferSize > 0 =>
          \A x \in Used(buffer) : PacketAt(bufferStartIdx) <= PacketAt(x)))'
<1>1. BuffersOK =>
        /\ \A x \in Used(buffer) : /\ PacketAt(x) \in Stored /\ PacketAt(x) \in Int
                                  /\ Wrap(PacketAt(x)) = x
        /\ StartsAtOldest <=> (bufferSize > 0 =>
              \A x \in Used(buffer) : PacketAt(bufferStartIdx) <= PacketAt(x))
  BY StoredBySlot
<1> QED
  BY <1>1, PTL

\* Storing a packet later than all those stored keeps the start at the oldest.
LEMMA StoreInOrder ==
  ASSUME BuffersOK, NEW p \in Packets, StorePacket(p), StartsAtOldest, WithinCycle,
         \A q \in Stored' \ Stored, r \in Stored : q > r
  PROVE  StartsAtOldest'
<1> DEFINE old == bufferStartIdx
           slot == Seq(p)
<1>0. /\ BuffersOK' /\ slot \in Seqs /\ Free \notin Slots /\ p \in Int
      /\ StorageSize \in Nat /\ bufferSize \in Nat
  BY StorePacketOK, StreamAssumption, WrapFacts DEF BuffersOK, Slots, Seq, Packets
<1>1. /\ \A x \in Used(buffer) : PacketAt(x) \in Stored /\ PacketAt(x) \in Int
                               /\ Wrap(PacketAt(x)) = x
      /\ bufferSize > 0 => \A x \in Used(buffer) : PacketAt(old) <= PacketAt(x)
  BY StoredBySlot
<1>2. /\ \A x \in Used(buffer)' : PacketAt(x)' \in Stored' /\ PacketAt(x)' \in Int
      /\ StartsAtOldest' <=> (bufferSize' > 0 =>
            \A x \in Used(buffer)' : PacketAt(bufferStartIdx)' <= PacketAt(x)')
  BY <1>0, StoredBySlotNext
<1>3. bufferSize > 0 => old \in Used(buffer) /\ old \in Seqs
  BY DEF BuffersOK, StorageInUse, Used
<1>4. \A q \in Stored : Seq(q) \in Used(buffer) /\ PacketAt(Seq(q)) = q
  BY StoredAtItsSlot DEF PacketAt
<1>5. CASE StoreFirst(p)
  <2>1. Used(buffer)' = {slot} /\ bufferStartIdx' = slot
    <3>1. Used(buffer) = {} /\ buffer' = [buffer EXCEPT ![slot] = 0] /\ 0 \in Slots
      BY <1>5, InUseFacts, StreamAssumption DEF StoreFirst, Slots
    <3> QED
      BY <1>0, <1>5, <3>1 DEF BuffersOK, Used, StoreFirst
  <2>2. \A x \in Used(buffer)' : PacketAt(bufferStartIdx)' <= PacketAt(x)'
    <3>1. PacketAt(slot)' \in Int
      BY <2>1, <1>2
    <3>2. PacketAt(bufferStartIdx)' = PacketAt(slot)'
      BY <2>1 DEF PacketAt
    <3> QED
      BY <2>1, <3>1, <3>2
  <2> QED
    BY <2>2, <1>2
<1>6. CASE Duplicated(p)
  <2>1. UNCHANGED <<buffer, bufferStartIdx, bufferSize, storage>>
    BY <1>6 DEF Duplicated, buffers
  <2> QED
    BY <2>1 DEF StartsAtOldest, Stored, Used
<1>7. CASE StoreMore(p)
  <2>1. /\ bufferSize \in Slots /\ bufferSize > 0 /\ slot \notin Used(buffer)
        /\ buffer' = [buffer EXCEPT ![slot] = bufferSize] /\ bufferStartIdx' = old
        /\ storage' = [storage EXCEPT ![bufferSize] = Item(p)]
    BY <1>7, StreamAssumption DEF StoreMore, Slots, Used, Renewed
  <2>2. Used(buffer)' = Used(buffer) \cup {slot} /\ PacketAt(slot)' = p
    <3>1. buffer'[slot] = bufferSize /\ storage'[bufferSize] = Item(p)
      BY <1>0, <2>1 DEF BuffersOK
    <3>2. PacketAt(slot)' = p
      BY <3>1, ItemFacts DEF PacketAt
    <3> QED
      BY <1>0, <2>1, <3>2 DEF BuffersOK, Used
  <2>3. \A x \in Used(buffer) : PacketAt(x)' = PacketAt(x)
    BY <2>1, InUseFacts DEF BuffersOK, PacketAt
  <2>4. p \in Stored' \ Stored
    <3>1. p \in Stored'
      BY <2>2, <1>2
    <3> QED
      BY <3>1, <2>1, <1>4
  <2>5. PacketAt(old)' = PacketAt(old) /\ PacketAt(bufferStartIdx)' = PacketAt(old)'
    BY <2>1, <2>3, <1>3 DEF PacketAt
  <2>6. PacketAt(old) <= p
    BY <2>1, <2>4, <1>0, <1>1, <1>3
  <2>7. \A x \in Used(buffer)' : PacketAt(bufferStartIdx)' <= PacketAt(x)'
    BY <2>1, <2>2, <2>3, <2>5, <2>6, <1>1
  <2> QED
    BY <2>7, <1>2
<1>8. CASE StoreAgain(p)
  <2>1. /\ bufferSize > 0 /\ slot \in Used(buffer) /\ buffer' = buffer
        /\ PacketAt(slot) # p
        /\ storage' = [storage EXCEPT ![buffer[slot]] = Item(p)]
        /\ bufferStartIdx' = IF old = slot THEN UpdateBufferStartIdx(buffer, old) ELSE old
    BY <1>0, <1>8 DEF StoreAgain, Used, Renewed, PacketAt
  <2>2. Used(buffer)' = Used(buffer) /\ PacketAt(slot)' = p
    <3>1. buffer[slot] \in Slots
      BY <2>1, InUseFacts
    <3>2. storage'[buffer'[slot]] = Item(p)
      BY <2>1, <3>1 DEF BuffersOK
    <3> QED
      BY <2>1, <3>2, ItemFacts DEF PacketAt, Used
  <2>3. \A x \in Used(buffer) \ {slot} : PacketAt(x)' = PacketAt(x)
    <3>1. \A x \in Used(buffer) \ {slot} : buffer[x] \in Slots /\ buffer[x] # buffer[slot]
      BY <2>1, InUseFacts DEF BuffersOK, StorageInUse
    <3> QED
      BY <2>1, <3>1 DEF BuffersOK, PacketAt
  <2>4. p \in Stored' \ Stored
    <3>1. p \in Stored'
      BY <2>1, <2>2, <1>2
    <3> QED
      BY <3>1, <2>1, <1>4
  <2>5. \A x \in Used(buffer) : PacketAt(x) < p
    BY <2>4, <1>0, <1>1
  <2>6. ASSUME NEW n \in Used(buffer) \ {slot}, bufferStartIdx' = n,
               \A x \in Used(buffer) \ {slot} : PacketAt(n) <= PacketAt(x)
        PROVE  StartsAtOldest'
    <3>1. PacketAt(bufferStartIdx)' = PacketAt(n)
      BY <2>3, <2>6 DEF PacketAt
    <3>2. PacketAt(n) <= p
      BY <2>5, <1>0, <1>1
    <3>3. \A x \in Used(buffer)' : PacketAt(bufferStartIdx)' <= PacketAt(x)'
      BY <3>1, <3>2, <2>2, <2>3, <2>6
    <3> QED
      BY <3>3, <1>2
  <2>7. CASE old # slot
    <3>1. old \in Used(buffer) \ {slot} /\ bufferStartIdx' = old
      BY <2>1, <2>7, <1>3
    <3> QED
      BY <3>1, <2>1, <2>6, <1>1
  <2>8. CASE old = slot /\ Used(buffer) \ {slot} # {}
    <3> DEFINE pk == [x \in Used(buffer) |-> PacketAt(x)]
               m == PacketAt(old)
               n == UpdateBufferStartIdx(buffer, old)
    <3>1. /\ m \in Int /\ Wrap(m) = old /\ old \in Seqs
          /\ buffer \in [Seqs -> Slots \cup {Free}]
      BY <2>1, <1>1, <1>3 DEF BuffersOK
    <3>2. ASSUME NEW x \in Used(buffer) \ {old}
          PROVE  pk[x] \in Int /\ Wrap(pk[x]) = x /\ m < pk[x] /\ pk[x] - m < SeqModulus
      <4>1. pk[x] = PacketAt(x) /\ pk[x] \in Int /\ Wrap(pk[x]) = x
        BY <1>1
      <4>2. m <= pk[x] /\ m # pk[x]
        BY <4>1, <3>1, <2>1, <1>1
      <4>3. pk[x] - m < SeqModulus
        BY <4>1, <2>1, <1>1, <1>3 DEF WithinCycle
      <4> HIDE DEF pk, m
      <4> QED
        BY <4>1, <4>2, <4>3, <3>1
    <3> HIDE DEF pk, m, n
    <3>3. /\ n \in Used(buffer) \ {old}
          /\ \A x \in Used(buffer) \ {old} : pk[n] <= pk[x]
      BY <3>1, <3>2, <2>8, NextIsOldest DEF n
    <3>4. bufferStartIdx' = n
      BY <2>1, <2>8 DEF n
    <3>5. \A x \in Used(buffer) \ {slot} : PacketAt(n) <= PacketAt(x)
      BY <3>3, <2>8 DEF pk
    <3> QED
      BY <3>3, <3>4, <3>5, <2>6, <2>8
  <2>9. CASE old = slot /\ Used(buffer) \ {slot} = {}
    <3>1. Used(buffer) = {slot}
      BY <2>1, <2>9
    <3>2. bufferStartIdx' = slot
      BY <3>1, <2>1, <2>9, <1>0, UpdateBufferStartIdxNearest DEF BuffersOK
    <3>3. PacketAt(bufferStartIdx)' = p
      BY <3>2, <2>2 DEF PacketAt
    <3>4. \A x \in Used(buffer)' : PacketAt(bufferStartIdx)' <= PacketAt(x)'
      BY <3>1, <3>3, <2>2, <1>0
    <3> QED
      BY <3>4, <1>2
  <2> QED
    BY <2>7, <2>8, <2>9
<1>9. CASE StoreInsteadOfOldest(p)
  <2> DEFINE without == [buffer EXCEPT ![old] = Free]
             n == UpdateBufferStartIdx(without, old)
             pk == [x \in Used(buffer) |-> PacketAt(x)]
             m == PacketAt(old)
  <2>1. /\ old \in Used(buffer) /\ slot \notin Used(buffer)
        /\ Used(buffer)' = (Used(buffer) \ {old}) \cup {slot}
        /\ buffer'[slot] = buffer[old]
        /\ \A x \in Used(buffer) \ {old} : buffer'[x] = buffer[x]
    BY <1>9, StoreInsteadOfOldestOK
  <2>2. /\ bufferSize = StorageSize /\ bufferSize > 1 /\ bufferStartIdx' = n
        /\ storage' = [storage EXCEPT ![buffer[old]] = Item(p)]
    BY <1>9, StreamAssumption DEF StoreInsteadOfOldest, Renewed
  <2>3. PacketAt(slot)' = p
    <3>1. buffer[old] \in Slots
      BY <2>1, InUseFacts
    <3>2. storage'[buffer'[slot]] = Item(p)
      BY <2>1, <2>2, <3>1 DEF BuffersOK
    <3> QED
      BY <3>2, ItemFacts DEF PacketAt
  <2>4. \A x \in Used(buffer) \ {old} : PacketAt(x)' = PacketAt(x)
    <3>1. \A x \in Used(buffer) \ {old} : buffer[x] \in Slots /\ buffer[x] # buffer[old]
      BY <2>1, InUseFacts DEF BuffersOK, StorageInUse
    <3> QED
      BY <2>1, <2>2, <3>1 DEF BuffersOK, PacketAt
  <2>5. p \in Stored' \ Stored
    <3>1. p \in Stored'
      BY <2>1, <2>3, <1>2
    <3> QED
      BY <3>1, <2>1, <1>4
  <2>6. \A x \in Used(buffer) : PacketAt(x) < p
    BY <2>5, <1>0, <1>1
  <2>7. /\ without \in [Seqs -> Slots \cup {Free}] /\ old \in Seqs
        /\ Used(without) = Used(buffer) \ {old}
    BY DEF BuffersOK, Used
  <2>8. Used(buffer) \ {old} # {}
    <3>1. PICK j \in Slots : j # buffer[old]
      BY <2>1, InUseFacts, StreamAssumption DEF Slots
    <3>2. j < bufferSize
      BY <2>2, StreamAssumption DEF Slots
    <3>3. PICK x \in Used(buffer) : buffer[x] = j
      BY <3>2 DEF BuffersOK, StorageInUse
    <3> QED
      BY <3>1, <3>3
  <2>9. m \in Int /\ Wrap(m) = old
    BY <2>1, <1>1
  <2>10. ASSUME NEW x \in Used(buffer) \ {old}
         PROVE  pk[x] \in Int /\ Wrap(pk[x]) = x /\ m < pk[x] /\ pk[x] - m < SeqModulus
    <3>1. pk[x] = PacketAt(x) /\ pk[x] \in Int /\ Wrap(pk[x]) = x
      BY <1>1
    <3>2. m <= pk[x] /\ m # pk[x]
      <4>1. bufferSize > 0
        BY <2>2, <1>0
      <4>2. m <= pk[x]
        BY <4>1, <3>1, <2>1, <1>1
      <4>3. m # pk[x]
        BY <3>1, <2>9
      <4> QED
        BY <4>2, <4>3
    <3>3. pk[x] - m < SeqModulus
      BY <3>1, <2>1, <1>1 DEF WithinCycle
    <3> HIDE DEF pk, m
    <3> QED
      BY <3>1, <3>2, <3>3, <2>9
  <2> HIDE DEF without, n, pk, m
  <2>11. /\ n \in Used(without) \ {old}
         /\ \A x \in Used(without) \ {old} : pk[n] <= pk[x]
    BY <2>7, <2>8, <2>9, <2>10, NextIsOldest DEF n
  <2>12. n \in Used(buffer) \ {old} /\ \A x \in Used(buffer) \ {old} : PacketAt(n) <= PacketAt(x)
    BY <2>7, <2>11 DEF pk
  <2>13. PacketAt(bufferStartIdx)' = PacketAt(n)
    BY <2>2, <2>4, <2>12 DEF PacketAt
  <2>14. PacketAt(n) <= p
    BY <2>6, <2>12, <1>0, <1>1
  <2>15. \A x \in Used(buffer)' : PacketAt(bufferStartIdx)' <= PacketAt(x)'
    BY <2>1, <2>3, <2>4, <2>12, <2>13, <2>14
  <2> QED
    BY <2>15, <1>2
<1> QED
  BY <1>5, <1>6, <1>7, <1>8, <1>9 DEF StorePacket

\* Steps that change marks only keep it too.
LEMMA MarksKeepOldest ==
  ASSUME BuffersOK, BuffersOK', UNCHANGED <<buffer, bufferStartIdx, bufferSize>>,
         \A i \in Slots : storage'[i].packet = storage[i].packet, StartsAtOldest
  PROVE  StartsAtOldest'
<1>1. Stored' = Stored
  BY MarksStep
<1>2. bufferSize > 0 => buffer[bufferStartIdx] \in Slots
  BY DEF BuffersOK, StorageInUse
<1> QED
  BY <1>1, <1>2 DEF StartsAtOldest

\* A cleared buffer has no start.
LEMMA ClearKeepsOldest == ClearBuffer => StartsAtOldest'
  BY DEF ClearBuffer, StartsAtOldest

\* As long as packets come in order and lie within one cycle, the start of the
\* buffer stays at the oldest packet, whatever is resent, cleared or wraps.
THEOREM InOrderAlwaysKeepsOldest == Spec => InOrderKeepsOldest
<1>1. ASSUME SInv, [Next]_vars
      PROVE  [(/\ StartsAtOldest
               /\ WithinCycle /\ WithinCycle'
               /\ \A p \in Stored' \ Stored, q \in Stored : p > q) => StartsAtOldest']_vars
  <2> SUFFICES ASSUME StartsAtOldest, WithinCycle,
                      \A p \in Stored' \ Stored, q \in Stored : p > q
               PROVE  StartsAtOldest'
    OBVIOUS
  <2>0. BuffersOK
    BY <1>1 DEF SInv
  <2>1. ASSUME NEW p \in Packets, NEW resync \in BOOLEAN, NEW tooBig \in BOOLEAN,
               ReceivePacket(p, resync, tooBig)
        PROVE  StartsAtOldest'
    <3>1. CASE StorePacket(p)
      BY <2>0, <3>1, StoreInOrder
    <3>2. CASE UNCHANGED buffers
      BY <3>2 DEF buffers, StartsAtOldest, Stored, Used
    <3> QED
      BY <2>1, <3>1, <3>2 DEF ReceivePacket
  <2>2. ASSUME NEW seq \in Seqs, NEW bitmask \in SUBSET (1 .. NackBits), ReceiveNack(seq, bitmask)
        PROVE  StartsAtOldest'
    <3>1. BuffersOK' /\ \A i \in Slots : storage'[i].packet = storage[i].packet
      BY <2>0, <2>2, ReceiveNackOK
    <3> QED
      BY <3>1, <2>0, <2>2, MarksKeepOldest DEF ReceiveNack
  <2>3. ASSUME NEW seq \in Seqs, NEW bitmask \in SUBSET (1 .. NackBits),
               NEW sent \in 1 .. NackBits + 1, ReceiveNackDisconnecting(seq, bitmask, sent)
        PROVE  StartsAtOldest'
    BY <2>3, ClearKeepsOldest DEF ReceiveNackDisconnecting
  <2>4. ASSUME NEW seq \in Seqs, SendProbationRtpPacket(seq)
        PROVE  StartsAtOldest'
    <3>1. BuffersOK' /\ \A i \in Slots : storage'[i].packet = storage[i].packet
      BY <2>0, <2>4, ProbationOK
    <3> QED
      BY <3>1, <2>0, <2>4, MarksKeepOldest DEF SendProbationRtpPacket
  <2>5. CASE Pause
    BY <2>5, ClearKeepsOldest DEF Pause
  <2>6. CASE RttElapses
    <3>1. BuffersOK' /\ \A i \in Slots : storage'[i].packet = storage[i].packet
      BY <2>0, <2>6, RttElapsesOK
    <3> QED
      BY <3>1, <2>0, <2>6, MarksKeepOldest DEF RttElapses
  <2>7. CASE UNCHANGED vars
    BY <2>7 DEF vars, StartsAtOldest, Stored, Used
  <2> QED
    BY <1>1, <2>1, <2>2, <2>3, <2>4, <2>5, <2>6, <2>7 DEF Next, Gone
<1> QED
  BY <1>1, SendInvariant, PTL DEF Spec, InOrderKeepsOldest
=============================================================================
