--------------------------- MODULE RtpStreamSend ---------------------------
(***************************************************************************)
(* The stream a consumer sends (RTC/RtpStreamSend.cpp on RTC/RtpStream.cpp) *)
(* and its retransmission buffer: 65536 slots, one for each sequence       *)
(* number, that point to a few storage items (600 in the code).            *)
(*                                                                         *)
(* A packet is its index in the stream: the sequence number is the index   *)
(* modulo SeqModulus and the RTP timestamp grows with it.  Which packets   *)
(* RtpStream::UpdateSeq() accepts is the subject of RtpStreamRecv; here    *)
(* any packet may be accepted, in order or as the start of a new series.   *)
(* The age of a packet wraps sooner than its timestamp, see AgeModulus.    *)
(* Time is known to an item only as "resent within the last RTT".  A NACK  *)
(* has one item (a packet with more of them is handled one after the       *)
(* other); counters of the statistics are left out.                        *)
(***************************************************************************)
EXTENDS SeqNumbers, FiniteSets

CONSTANTS
    StorageSize,            \* 600 in the code
    NackBits,               \* bits of the bitmask of a NACK item: 16
    MaxRetransmissionDelay, \* 2000 ms, here in packets
    AgeModulus,             \* the age that overflows to 0: 2^32 / 1000 clock ticks,
                            \* 47.7 s at 90 kHz, here in packets
    HasRtx,                 \* whether an RTX stream was negotiated
    MaxIndex,               \* bound: packets of the stream
    NoPacket, Free          \* a packet and a storage item that are null

\* One storage item would not do: UpdateBufferStartIdx() would find no slot to
\* go on with when the buffer is full.
ASSUME StreamAssumption ==
    /\ StorageSize \in Nat /\ StorageSize > 1
    /\ NackBits \in Nat /\ NackBits + 1 < SeqModulus
    /\ MaxRetransmissionDelay \in Nat
    /\ AgeModulus \in Nat /\ AgeModulus > MaxRetransmissionDelay
    /\ HasRtx \in BOOLEAN
    /\ MaxIndex \in Nat
    /\ NoPacket \notin 0 .. MaxIndex
    /\ Free \notin 0 .. StorageSize - 1

Packets == 0 .. MaxIndex
Slots == 0 .. StorageSize - 1

VARIABLES
    maxPacketTs,        \* the highest timestamp, kept by RtpStream
    buffer,             \* sequence number to its storage item
    bufferStartIdx, bufferSize,
    storage,            \* the storage items
    crashed             \* a null packet was sent: the process is gone

vars == <<maxPacketTs, buffer, bufferStartIdx,
          bufferSize, storage, crashed>>
buffers == <<buffer, bufferStartIdx, bufferSize, storage>>

Seq(p) == Wrap(p)

\* A storage item; encodings counts how often RtxEncode() was applied to its
\* packet, which rtxEncoded should tell.
Item(p) == [packet |-> p, resent |-> FALSE, rtxEncoded |-> FALSE, encodings |-> 0]

Init ==
    /\ maxPacketTs = 0
    /\ buffer = [seq \in Seqs |-> Free]
    /\ bufferStartIdx = 0 /\ bufferSize = 0
    /\ storage = [i \in Slots |-> Item(NoPacket)]
    /\ crashed = FALSE
-----------------------------------------------------------------------------
(***************************************************************************)
(* RtpStream::ReceivePacket(): the highest timestamp.                      *)
(***************************************************************************)
\* A packet in order or late moves the highest timestamp forward only; the
\* first one and one that resynchronises the stream set it.
UpdateMaxPacketTs(p, resync) ==
    maxPacketTs' = IF resync \/ p > maxPacketTs THEN p ELSE maxPacketTs
-----------------------------------------------------------------------------
(***************************************************************************)
(* The buffer.                                                             *)
(***************************************************************************)
Used(b) == {seq \in Seqs : b[seq] # Free}

Distance(from, seq) == Wrap(seq - from - 1)

\* Faulty: goes to the next slot, whether it is used or not.
UpdateBufferStartIdx_NextSlot(b, start) == Wrap(start + 1)

\* The next used slot after start, start itself the last.
UpdateBufferStartIdx(b, start) ==
    IF Used(b) = {} THEN start
    ELSE CHOOSE seq \in Used(b) :
            \A other \in Used(b) : Distance(start, seq) <= Distance(start, other)

\* Faulty: the new packet counts as resent if the one before it was.
Renewed_KeepsResent(i, p) ==
    [storage EXCEPT ![i] = [Item(p) EXCEPT !.resent = storage[i].resent]]

\* ResetStorageItem(), and the clone of the packet takes its place.
Renewed(i, p) == [storage EXCEPT ![i] = Item(p)]

StoreFirst(p) ==
    /\ bufferSize = 0
    /\ buffer' = [buffer EXCEPT ![Seq(p)] = 0]
    /\ bufferSize' = 1
    /\ bufferStartIdx' = Seq(p)
    /\ storage' = Renewed(0, p)

Duplicated(p) ==
    /\ bufferSize > 0
    /\ buffer[Seq(p)] # Free
    /\ storage[buffer[Seq(p)]].packet = p
    /\ UNCHANGED buffers

\* Faulty: the start of the buffer stays at the slot that is now the newest.
StoreAgain_KeepsStart(p) ==
    /\ bufferSize > 0
    /\ buffer[Seq(p)] # Free
    /\ storage[buffer[Seq(p)]].packet # p
    /\ storage' = Renewed(buffer[Seq(p)], p)
    /\ UNCHANGED <<bufferStartIdx, buffer, bufferSize>>

\* The slot holds a packet of an earlier cycle.
StoreAgain(p) ==
    /\ bufferSize > 0
    /\ buffer[Seq(p)] # Free
    /\ storage[buffer[Seq(p)]].packet # p
    /\ storage' = Renewed(buffer[Seq(p)], p)
    /\ bufferStartIdx' = IF bufferStartIdx = Seq(p)
                         THEN UpdateBufferStartIdx(buffer, bufferStartIdx)
                         ELSE bufferStartIdx
    /\ UNCHANGED <<buffer, bufferSize>>

StoreMore(p) ==
    /\ bufferSize \in 1 .. StorageSize - 1
    /\ buffer[Seq(p)] = Free
    /\ buffer' = [buffer EXCEPT ![Seq(p)] = bufferSize]
    /\ bufferSize' = bufferSize + 1
    /\ storage' = Renewed(bufferSize, p)
    /\ UNCHANGED bufferStartIdx

\* Faulty: the slot of the oldest packet keeps its pointer.
StoreInsteadOfOldest_KeepsPointer(p) ==
    LET i == buffer[bufferStartIdx]
    IN  /\ bufferSize = StorageSize
        /\ buffer[Seq(p)] = Free
        /\ buffer' = [buffer EXCEPT ![Seq(p)] = i]
        /\ bufferStartIdx' = UpdateBufferStartIdx(buffer, bufferStartIdx)
        /\ storage' = Renewed(i, p)
        /\ UNCHANGED bufferSize

\* "Buffer full, remove oldest entry and add new one": the oldest is the one at
\* the start of the buffer.
StoreInsteadOfOldest(p) ==
    LET i == buffer[bufferStartIdx]
        without == [buffer EXCEPT ![bufferStartIdx] = Free]
    IN  /\ bufferSize = StorageSize
        /\ buffer[Seq(p)] = Free
        /\ bufferStartIdx' = UpdateBufferStartIdx(without, bufferStartIdx)
        /\ buffer' = [without EXCEPT ![Seq(p)] = i]
        /\ storage' = Renewed(i, p)
        /\ UNCHANGED bufferSize

StorePacket(p) ==
    \/ StoreFirst(p) \/ Duplicated(p) \/ StoreAgain(p)
    \/ StoreMore(p) \/ StoreInsteadOfOldest(p)

ClearBuffer ==
    /\ buffer' = [seq \in Seqs |-> Free]
    /\ storage' = [i \in Slots |-> IF \E seq \in Seqs : buffer[seq] = i
                                   THEN Item(NoPacket) ELSE storage[i]]
    /\ bufferStartIdx' = 0
    /\ bufferSize' = 0
-----------------------------------------------------------------------------
(***************************************************************************)
(* Retransmissions.                                                        *)
(***************************************************************************)
\* The packets a NACK item asks for: seq and those of its bitmask after it.
Asked(seq, bitmask) == {seq} \cup {Wrap(seq + i) : i \in bitmask}

\* diffTs * 1000 / clockRate in uint32_t: the product overflows, and a timestamp
\* above the highest one is very far behind it.
Age(p) == (maxPacketTs - p) % AgeModulus

TooOld(p) == Age(p) > MaxRetransmissionDelay

\* The items FillRetransmissionContainer() finds.
Retransmitted(asked) ==
    {i \in Slots : /\ \E seq \in asked : buffer[seq] = i
                   /\ ~TooOld(storage[i].packet)
                   /\ ~storage[i].resent}

\* Faulty: encodes a packet every time it is sent.
Encoded_Again(item) ==
    IF HasRtx
    THEN [item EXCEPT !.rtxEncoded = TRUE, !.encodings = @ + 1]
    ELSE item

\* A packet sent on the RTX stream is encoded once.
Encoded(item) ==
    IF HasRtx /\ ~item.rtxEncoded
    THEN [item EXCEPT !.rtxEncoded = TRUE, !.encodings = @ + 1]
    ELSE item

\* ReceiveNack(): all items are prepared, then their packets are sent.
ReceiveNack(seq, bitmask) ==
    LET items == Retransmitted(Asked(seq, bitmask))
    IN  /\ ~crashed
        /\ items # {}
        /\ storage' = [i \in Slots |-> IF i \in items
                                       THEN [Encoded(storage[i]) EXCEPT !.resent = TRUE]
                                       ELSE storage[i]]
        /\ UNCHANGED <<maxPacketTs, buffer, bufferStartIdx, bufferSize, crashed>>

\* Sending the packet number sent fails on a TCP connection whose peer is gone:
\* the transport tells its consumers that it is disconnected, and the stream
\* is paused under the loop.  The next packet of the container is null.
ReceiveNackDisconnecting(seq, bitmask, sent) ==
    LET items == Retransmitted(Asked(seq, bitmask))
    IN  /\ ~crashed
        /\ sent \in 1 .. Cardinality(items)
        /\ ClearBuffer
        /\ crashed' = (sent < Cardinality(items))
        /\ UNCHANGED maxPacketTs

\* REMB asks for probation traffic: the packet just sent goes out once more.
SendProbationRtpPacket(seq) ==
    /\ ~crashed
    /\ buffer[seq] # Free
    /\ HasRtx
    /\ storage' = [storage EXCEPT ![buffer[seq]] = Encoded(@)]
    /\ UNCHANGED <<maxPacketTs, buffer, bufferStartIdx, bufferSize, crashed>>
-----------------------------------------------------------------------------
\* A packet that UpdateSeq() accepts.  One bigger than the MTU is sent and not
\* stored.
ReceivePacket(p, resync, tooBig) ==
    /\ ~crashed
    /\ UpdateMaxPacketTs(p, resync)
    /\ IF tooBig THEN UNCHANGED buffers ELSE StorePacket(p)
    /\ UNCHANGED crashed

\* The consumer or its producer is paused, or the transport is disconnected.
Pause ==
    /\ ~crashed
    /\ ClearBuffer
    /\ UNCHANGED <<maxPacketTs, crashed>>

\* Every packet was resent more than an RTT ago.
RttElapses ==
    /\ ~crashed
    /\ \E i \in Slots : storage[i].resent
    /\ storage' = [i \in Slots |-> [storage[i] EXCEPT !.resent = FALSE]]
    /\ UNCHANGED <<maxPacketTs, buffer, bufferStartIdx, bufferSize, crashed>>

Gone == crashed /\ UNCHANGED vars

Next ==
    \/ \E p \in Packets, resync, tooBig \in BOOLEAN :
          ReceivePacket(p, resync, tooBig)
    \/ \E seq \in Seqs, bitmask \in SUBSET (1 .. NackBits) :
          \/ ReceiveNack(seq, bitmask)
          \/ \E sent \in 1 .. NackBits + 1 :
                ReceiveNackDisconnecting(seq, bitmask, sent)
    \/ \E seq \in Seqs : SendProbationRtpPacket(seq)
    \/ Pause
    \/ RttElapses
    \/ Gone

Spec == Init /\ [][Next]_vars
-----------------------------------------------------------------------------
(***************************************************************************)
(* Properties.                                                             *)
(***************************************************************************)
StorageItems ==
    [packet : Packets \cup {NoPacket}, resent : BOOLEAN,
     rtxEncoded : BOOLEAN, encodings : {0, 1}]

\* The types of the fields; a packet is never RTX encoded twice.
TypeOK ==
    /\ maxPacketTs \in Packets
    /\ buffer \in [Seqs -> Slots \cup {Free}]
    /\ bufferStartIdx \in Seqs
    /\ bufferSize \in 0 .. StorageSize
    /\ storage \in [Slots -> StorageItems]
    /\ crashed \in BOOLEAN

\* The slots in use point to the first bufferSize storage items, each to one of
\* its own, and the buffer starts at one of them, after any mix of duplicates,
\* late packets, wraps and pauses: StorePacket() takes the item of the start when
\* the buffer is full, and ResetStorageItem() asserts there is one.
StorageInUse ==
    /\ bufferSize > 0 => buffer[bufferStartIdx] # Free
    /\ \A s1, s2 \in Used(buffer) : buffer[s1] = buffer[s2] => s1 = s2
    /\ \A i \in Slots : i < bufferSize <=> \E seq \in Used(buffer) : buffer[seq] = i

\* A slot in use has a packet with its own sequence number, so that a NACK is
\* never answered with another packet nor dereferences a null one.
SlotsHoldTheirPackets ==
    \A seq \in Used(buffer) :
        LET p == storage[buffer[seq]].packet IN p # NoPacket /\ Seq(p) = seq

\* The flag of an item tells the truth about its packet, although items are
\* taken over by other packets.
EncodingKnown ==
    \A i \in Slots : storage[i].encodings = IF storage[i].rtxEncoded THEN 1 ELSE 0

Stored == {storage[buffer[seq]].packet : seq \in Used(buffer)}

Resent == {storage[buffer[seq]].packet :
             seq \in {s \in Used(buffer) : storage[buffer[s]].resent}}

Cache == INSTANCE RetransmissionCache WITH held <- Stored, resent <- Resent

\* The buffer keeps what a cache of StorageSize packets promises: a packet leaves
\* it only for one with its sequence number, for lack of room or with all others,
\* and none is resent twice within an RTT nor passes its mark on to another.
ImplementsCache == Cache!CacheSpec

\* The packet at the start of the buffer is the oldest one.
StartsAtOldest ==
    bufferSize > 0 => \A p \in Stored : storage[buffer[bufferStartIdx]].packet <= p

\* The stored packets lie within one cycle of the sequence numbers.
WithinCycle == \A p, q \in Stored : p - q < SeqModulus

\* As long as packets come in order and lie within one cycle, the start of the
\* buffer stays at the oldest packet, so that the oldest is the one a full
\* buffer gives up.
InOrderKeepsOldest ==
    [][(/\ StartsAtOldest
        /\ WithinCycle /\ WithinCycle'
        /\ \A p \in Stored' \ Stored, q \in Stored : p > q) => StartsAtOldest']_vars

\* RtpStreamSend.cpp, StorePacket(): "Buffer full, remove oldest entry and add
\* new one."  When another slot takes the place of one, the packet that leaves
\* should be the oldest, late packets or not.
FullBufferGivesUpOldest ==
    [][(/\ bufferSize = StorageSize /\ bufferSize' = StorageSize
        /\ Used(buffer)' # Used(buffer)
        /\ WithinCycle /\ WithinCycle') =>
            \A p \in Stored \ Stored', q \in Stored : p <= q]_vars

\* RtpStreamSend.cpp, FillRetransmissionContainer(): "Don't resend the packet if
\* older than MaxRetransmissionDelay ms."  The age is counted modulo AgeModulus,
\* so that packets older than that may pass for recent ones.
AnswersAreRecent ==
    \A seq \in Seqs, bitmask \in SUBSET (1 .. NackBits) :
        \A i \in Retransmitted(Asked(seq, bitmask)) :
            maxPacketTs - storage[i].packet \in 0 .. MaxRetransmissionDelay
=============================================================================
