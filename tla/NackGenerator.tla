--------------------------- MODULE NackGenerator ---------------------------
(***************************************************************************)
(* The NackGenerator of a received stream (RTC/NackGenerator.cpp): which   *)
(* packets it believes lost, and when it asks for them again.              *)
(*                                                                         *)
(* An item of the list is sent in the step that creates it (its sendAtSeq  *)
(* is its own sequence number), so it is born with one retry.  Time passes *)
(* in ticks; an item remembers how long ago it was last sent, up to the    *)
(* first value that is late.                                               *)
(***************************************************************************)
EXTENDS SeqNumbers, FiniteSets

CONSTANTS
    MaxPacketAge,       \* 5000 in the code
    MaxNackPackets,     \* 1000
    MaxNackRetries,     \* 8
    DefaultRtt,         \* 100 ms
    TimerInterval,      \* 50 ms
    KeyFramesRequestable, \* PLI or FIR was negotiated: the listener can request
                        \* a key frame, and resets the generator when it does
    Watched             \* bound: packets whose way out of the list is looked at

ASSUME NackAssumption ==
    /\ MaxPacketAge \in 1 .. MaxValue \div 2
    /\ MaxNackPackets \in 1 .. MaxPacketAge
    /\ MaxPacketAge + MaxNackPackets <= MaxValue \div 2
    /\ MaxNackRetries \in Nat /\ MaxNackRetries > 1
    /\ DefaultRtt \in Nat
    /\ TimerInterval \in Nat \ {0}
    /\ KeyFramesRequestable \in BOOLEAN
    /\ Watched \subseteq Seqs

VARIABLES
    started, lastSeq, rtt,
    nackList,           \* sequence number to its item
    keyFrameList,       \* "just supposed to hold zero or one entries"
    timer,              \* ticks until the timer fires, 0 when it is stopped
    asserted,           \* the MS_ASSERT of AddPacketsToNackList() failed
    \* What the properties talk about, not in the code:
    missing,            \* recent packets that were skipped and never came
    excused             \* those of them given up for good reason

vars == <<started, lastSeq, rtt, nackList, keyFrameList, timer, asserted,
          missing, excused>>
-----------------------------------------------------------------------------
Items == DOMAIN nackList
Only(list, S) == [s \in S |-> list[s]]

\* The packets older than seq by at most MaxPacketAge.
Recent(seq) == {Wrap(seq - age) : age \in 1 .. MaxPacketAge}

\* The packets between the last one and seq.
Gap(seq) == {Wrap(lastSeq + i) : i \in 1 .. Wrap(seq - lastSeq) - 1}

\* Faulty: the timer runs for new items only.
MayRunTimer_Once(list, running) == running

\* Faulty: takes both ends of the gap for lost.
NewItems_Closed(seq) == {Wrap(lastSeq + i) : i \in 0 .. Wrap(seq - lastSeq)}

\* What AddPacketsToNackList() appends.
NewItems(seq) == Gap(seq)

MayRunTimer(list, running) == IF DOMAIN list = {} THEN running ELSE TimerInterval
-----------------------------------------------------------------------------
Init ==
    /\ started = FALSE
    /\ lastSeq = 0
    /\ rtt = DefaultRtt
    /\ nackList = <<>>
    /\ keyFrameList = {}
    /\ timer = 0
    /\ asserted = FALSE
    /\ missing = {}
    /\ excused = {}
-----------------------------------------------------------------------------
FirstPacket(seq, keyFrame) ==
    /\ ~started
    /\ started' = TRUE
    /\ lastSeq' = seq
    /\ keyFrameList' = IF keyFrame THEN {seq} ELSE {}
    /\ UNCHANGED <<rtt, nackList, timer, asserted, missing, excused>>

\* Faulty: leaves the item of a packet that came late in the list.
OldPacket_KeepsItem(seq) ==
    /\ started
    /\ SeqLowerThan(seq, lastSeq)
    /\ missing' = missing \ {seq}
    /\ excused' = excused \ {seq}
    /\ UNCHANGED <<started, lastSeq, rtt, nackList, keyFrameList, timer, asserted>>

\* Out of order, or retransmitted.
OldPacket(seq) ==
    /\ started
    /\ SeqLowerThan(seq, lastSeq)
    /\ nackList' = Only(nackList, Items \ {seq})
    /\ missing' = missing \ {seq}
    /\ excused' = excused \ {seq}
    /\ UNCHANGED <<started, lastSeq, rtt, keyFrameList, timer, asserted>>

\* Of a list of packets those not too old for seq.
CleanOldNackItems(S, seq) ==
    {s \in S : ~SeqLowerThan(s, Wrap(seq - MaxPacketAge))}

\* The first of the key frames, in the order of the set.
PreviousKeyFrame(keys) ==
    CHOOSE k \in keys : \A j \in keys : ~SeqLowerThan(j, k)

\* The key frame received replaces the previous one.
KeyFramesAfter(keys, seq) ==
    (IF keys = {} THEN {} ELSE keys \ {PreviousKeyFrame(keys)}) \cup {seq}

\* The items that a new key frame leaves: those not older than the previous one.
NeededAfterKeyFrame(S, keys) ==
    IF keys = {} THEN S ELSE {s \in S : ~SeqLowerThan(s, PreviousKeyFrame(keys))}

\* Faulty: counts the new items only.
TooMany_NewOnly(S, seq) == Wrap(seq - (lastSeq + 1)) > MaxNackPackets

TooMany(S, seq) ==
    Cardinality(S) + Wrap(seq - (lastSeq + 1)) > MaxNackPackets

\* Reset(): a key frame of the stream was requested.
Reset ==
    /\ started' = FALSE
    /\ lastSeq' = 0
    /\ rtt' = 0
    /\ nackList' = <<>>
    /\ keyFrameList' = {}
    /\ timer' = 0
    /\ missing' = {}
    /\ excused' = {}
    /\ UNCHANGED asserted
\* A packet newer than the last one.  lastSeq + 1 is computed as an int in the
\* code, so that the step from the last sequence number to 0 is not recognised
\* as the expected one and restarts the timer.
NewPacket(seq, keyFrame) ==
    LET keys == CleanOldNackItems(keyFrameList, seq)
        clean == CleanOldNackItems(Items, seq)
        kept == IF keyFrame THEN NeededAfterKeyFrame(clean, keys) ELSE clean
        keys2 == IF keyFrame THEN KeyFramesAfter(keys, seq) ELSE keys
        list == [s \in kept \cup NewItems(seq) |->
                    IF s \in kept THEN nackList[s] ELSE [wait |-> 0, retries |-> 1]]
        lost == (missing \cup Gap(seq)) \cap Recent(seq)
        useless == IF keyFrame THEN lost \ NeededAfterKeyFrame(lost, keys) ELSE {}
        expected == seq = lastSeq + 1
        overflow == ~expected /\ TooMany(kept, seq)
    IN  /\ started
        /\ seq # lastSeq
        /\ ~SeqLowerThan(seq, lastSeq)
        /\ IF overflow /\ KeyFramesRequestable
           THEN Reset
           ELSE /\ lastSeq' = seq
                /\ nackList' = CASE expected -> Only(nackList, kept)
                                 [] overflow -> <<>>
                                 [] OTHER -> list
                /\ keyFrameList' = IF overflow THEN {} ELSE keys2
                /\ timer' = IF expected THEN timer ELSE MayRunTimer(nackList', timer)
                /\ asserted' = (~expected /\ ~overflow /\ NewItems(seq) \cap kept # {})
                /\ missing' = lost
                /\ excused' = IF overflow THEN lost ELSE (excused \cap lost) \cup useless
                /\ UNCHANGED <<started, rtt>>

\* ReceivePacket()
ReceivePacket(seq, keyFrame) ==
    \/ FirstPacket(seq, keyFrame)
    \/ started /\ seq = lastSeq /\ UNCHANGED vars
    \/ OldPacket(seq)
    \/ NewPacket(seq, keyFrame)
-----------------------------------------------------------------------------
\* Time passes for the items, and the timer retries those that are late.
Older(list) ==
    [s \in DOMAIN list |->
        [list[s] EXCEPT !.wait = IF @ > DefaultRtt THEN @ ELSE @ + 1]]

\* Faulty: tries once too often.
GivenUp_TooLate(item) == item.retries + 1 > MaxNackRetries

GivenUp(item) == item.retries + 1 >= MaxNackRetries

Tick ==
    LET older == Older(nackList)
        late == {s \in Items : older[s].wait > rtt}
        dropped == {s \in late : GivenUp(older[s])}
        retried == [s \in Items \ dropped |->
                       IF s \in late
                       THEN [wait |-> 0, retries |-> older[s].retries + 1]
                       ELSE older[s]]
    IN  /\ IF timer = 1
           THEN /\ nackList' = retried
                /\ excused' = excused \cup dropped
                /\ timer' = MayRunTimer(retried, 0)
           ELSE /\ nackList' = older
                /\ timer' = IF timer = 0 THEN 0 ELSE timer - 1
                /\ UNCHANGED excused
        /\ UNCHANGED <<started, lastSeq, rtt, keyFrameList, asserted, missing>>
-----------------------------------------------------------------------------
Next ==
    /\ ~asserted
    /\ \/ \E seq \in Seqs, keyFrame \in BOOLEAN : ReceivePacket(seq, keyFrame)
       \/ Reset
       \/ Tick

\* Time passes.
Spec == Init /\ [][Next]_vars /\ WF_vars(Tick)
-----------------------------------------------------------------------------
(***************************************************************************)
(* Properties.                                                             *)
(***************************************************************************)
\* The types; an item has been sent and may be sent once more.
TypeOK ==
    /\ started \in BOOLEAN
    /\ lastSeq \in Seqs
    /\ rtt \in {0, DefaultRtt}
    /\ Items \subseteq Seqs
    /\ \A s \in Items :
          nackList[s] \in [wait : 0 .. DefaultRtt + 1,
                           retries : 1 .. MaxNackRetries - 1]
    /\ keyFrameList \subseteq Seqs
    /\ timer \in 0 .. TimerInterval
    /\ asserted \in BOOLEAN
    /\ missing \subseteq Seqs
    /\ excused \subseteq missing

\* The list holds exactly the recent packets that are missing and not excused,
\* across the wrap of the sequence numbers, late packets, key frames and
\* overflows: no packet received since the last reset is asked for and no
\* missing one is forgotten.
NackListExact == Items = missing \ excused

\* The list never exceeds its limit.
NackListBounded == Cardinality(Items) <= MaxNackPackets

\* A packet is never put into the list twice: the assertion holds.
NeverAsserts == ~asserted

\* Every item leaves the list: received, too old, useless, or tried often enough.
ItemsLeave == \A s \in Watched : s \in Items ~> s \notin Items
=============================================================================
