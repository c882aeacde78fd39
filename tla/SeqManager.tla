----------------------------- MODULE SeqManager -----------------------------
(***************************************************************************)
(* The renumbering of a forwarded stream (RTC/SeqManager.cpp), as a        *)
(* consumer uses it: the packets it forwards are passed to Input(), those  *)
(* it leaves out to Drop(), and the first one after a switch or a pause is *)
(* preceded by Sync() with the number before its own.                      *)
(*                                                                         *)
(* The packets of the source have indices 0, 1, 2...; they may be lost     *)
(* (skipped), and come late.  The indices, and what was sent for them, are *)
(* what the properties talk about; the code sees the wrapped numbers only. *)
(***************************************************************************)
EXTENDS SeqNumbers, FiniteSets, FiniteSetsExt

CONSTANTS
    FirstSeq,   \* sequence number of packet 0
    MaxIndex,   \* bound on the indices
    MaxSkip,    \* packets lost in a row
    MaxLate,    \* how late a packet may come
    Droppable,  \* the indices of the packets the consumer may drop
    Repeats     \* whether a dropped packet may come a second time

ASSUME SeqManagerAssumption ==
    /\ FirstSeq \in Seqs
    /\ MaxIndex \in Nat
    /\ MaxSkip \in Nat /\ MaxLate \in Nat
    /\ MaxSkip + MaxLate + 1 < MaxValue \div 2
    /\ Droppable \subseteq 0 .. MaxIndex
    /\ Repeats \in BOOLEAN

VARIABLES
    base, maxOutput, maxInput, dropped,
    \* What the properties talk about, not in the code:
    next,           \* one more than the highest index seen
    syncIndex,      \* the index of the last Sync(), -1 before the first
    syncOutput,     \* the number it should be sent with, unwrapped
    outputs,        \* index to the number sent, since the last Sync()
    droppedIndices  \* the indices dropped since then

vars == <<base, maxOutput, maxInput, dropped, next, syncIndex, syncOutput,
          outputs, droppedIndices>>
-----------------------------------------------------------------------------
(***************************************************************************)
(* The operations on the record of the fields.                             *)
(***************************************************************************)
Manager ==
    [base |-> base, maxOutput |-> maxOutput, maxInput |-> maxInput,
     dropped |-> dropped]

Sync(m, input) ==
    [base |-> Wrap(m.maxOutput - input), maxOutput |-> m.maxOutput,
     maxInput |-> input, dropped |-> {}]

\* Faulty: marks late inputs too.
Drop_Late(m, input) == [m EXCEPT !.dropped = @ \cup {input}]

Drop(m, input) ==
    IF SeqHigherThan(input, m.maxInput)
    THEN [m EXCEPT !.dropped = @ \cup {input}] ELSE m

\* The dropped inputs that Input() keeps, and those it counts: with "<".
Kept(m, input) ==
    {i \in m.dropped : ~SeqLowerThan(i, Wrap(input - MaxValue \div 2))}
Counted(m, input) == {i \in Kept(m, input) : i < input}

\* Whether Input() sets the output.
Accepts(m, input) == input \notin Kept(m, input)

Output(m, input) == Wrap(input + m.base - Cardinality(Counted(m, input)))

\* Faulty: keeps the last output for the highest.
Input_LastOutput(m, input) ==
    [m EXCEPT !.dropped = Kept(m, input),
              !.maxInput = IF Wrap(input - @) < MaxValue \div 2 THEN input ELSE @,
              !.maxOutput = Output(m, input)]

Input(m, input) ==
    LET output == Output(m, input)
        higher(n, max) == Wrap(n - max) < MaxValue \div 2
    IN  IF Accepts(m, input)
        THEN [m EXCEPT !.dropped = Kept(m, input),
                       !.maxInput = IF higher(input, @) THEN input ELSE @,
                       !.maxOutput = IF higher(output, @) THEN output ELSE @]
        ELSE [m EXCEPT !.dropped = Kept(m, input)]

Become(m) ==
    /\ base' = m.base
    /\ maxOutput' = m.maxOutput
    /\ maxInput' = m.maxInput
    /\ dropped' = m.dropped
-----------------------------------------------------------------------------
SeqOf(index) == Wrap(FirstSeq + index)

\* What the number of a packet should be, unwrapped: consecutive but for the
\* packets lost, and without gaps for those dropped.
Expected(index) ==
    syncOutput + (index - syncIndex)
        - Cardinality({d \in droppedIndices : d < index})

Highest == Max({syncOutput - 1} \cup {Expected(k) : k \in DOMAIN outputs})

Init ==
    /\ base = 0
    /\ maxOutput = 0
    /\ maxInput = 0
    /\ dropped = {}
    /\ next = 0
    /\ syncIndex = -1
    /\ syncOutput = 1
    /\ outputs = <<>>
    /\ droppedIndices = {}

\* The packets that may come now.  Late ones of the time before the last Sync()
\* are left out: the code renumbers them into numbers already used.  So are those
\* that were sent: they are sent again with the same number.
Arriving ==
    {k \in 0 .. MaxIndex :
        /\ k >= syncIndex
        /\ next - MaxLate <= k /\ k <= next + MaxSkip
        /\ k \notin DOMAIN outputs
        /\ k \in droppedIndices => Repeats}

Seen(k) == next' = IF k >= next THEN k + 1 ELSE next

\* A packet that the consumer synchronises to.
SyncPacket(k) ==
    LET m == Sync(Manager, Wrap(SeqOf(k) - 1)) IN
    /\ k \in Arriving
    /\ k >= next
    /\ Become(Input(m, SeqOf(k)))
    /\ syncIndex' = k
    /\ syncOutput' = Highest + 1
    /\ outputs' = [i \in {k} |-> Output(m, SeqOf(k))]
    /\ droppedIndices' = {}
    /\ Seen(k)

\* A packet it forwards.  The consumers do not look at what Input() returns:
\* when it refuses the packet they send it with an uninitialized number.
ForwardPacket(k) ==
    /\ syncIndex >= 0
    /\ k \in Arriving
    /\ Become(Input(Manager, SeqOf(k)))
    /\ \E output \in (IF Accepts(Manager, SeqOf(k))
                      THEN {Output(Manager, SeqOf(k))} ELSE Seqs) :
          outputs' = [i \in DOMAIN outputs \cup {k} |->
                         IF i = k THEN output ELSE outputs[i]]
    /\ Seen(k)
    /\ UNCHANGED <<syncIndex, syncOutput, droppedIndices>>

\* A packet it drops; too late when a newer one has been forwarded.
DropPacket(k) ==
    /\ syncIndex >= 0
    /\ k \in Arriving \cap Droppable
    /\ Become(Drop(Manager, SeqOf(k)))
    /\ droppedIndices' =
          IF \A i \in DOMAIN outputs : i < k
          THEN droppedIndices \cup {k} ELSE droppedIndices
    /\ Seen(k)
    /\ UNCHANGED <<syncIndex, syncOutput, outputs>>

Next ==
    \E k \in 0 .. MaxIndex :
        SyncPacket(k) \/ ForwardPacket(k) \/ DropPacket(k)

Spec == Init /\ [][Next]_vars
-----------------------------------------------------------------------------
(***************************************************************************)
(* Properties.                                                             *)
(***************************************************************************)
\* The types of the fields.
TypeOK ==
    /\ {base, maxOutput, maxInput} \subseteq Seqs
    /\ dropped \subseteq Seqs
    /\ DOMAIN outputs \subseteq 0 .. MaxIndex
    /\ \A k \in DOMAIN outputs : outputs[k] \in Seqs

\* Where the code renumbers right, of use to what follows: a dropped packet comes
\* once, is near the end of the stream, and, for each packet that may come after
\* it has been dropped, is neither forgotten nor out of the plain order of integers.
DropsInRange ==
    /\ ~Repeats
    /\ \A d \in Droppable :
          /\ MaxIndex - d + MaxSkip + 1 < MaxValue \div 2
          /\ \A k \in d + 1 - MaxLate .. MaxIndex :
                k # d =>
                   /\ ~SeqLowerThan(SeqOf(d), Wrap(SeqOf(k) - MaxValue \div 2))
                   /\ SeqOf(d) < SeqOf(k) <=> d < k

\* Every packet is sent with the number it should have: one more than the
\* previous one's for each packet in between, dropped ones not counted, in
\* whatever order packets come and are dropped, and after each Sync() one more
\* than all that was sent before.  The code keeps this for streams without drops;
\* with drops only where DropsInRange holds, which the run keeps to.
Contiguous == \A k \in DOMAIN outputs : outputs[k] = Wrap(Expected(k))

\* Two packets are never sent with the same number, unless they are a whole cycle
\* apart.  The run keeps to the same range as for Contiguous.
OutputsDistinct ==
    \A j, k \in DOMAIN outputs :
        outputs[j] = outputs[k] /\ j - k < SeqModulus /\ k - j < SeqModulus => j = k

\* "Count dropped entries before 'input' in order to adapt the base"
\* (SeqManager.cpp): those counted for the next packet are those before it in
\* the order of sequence numbers.
DroppedCounted ==
    LET input == SeqOf(next) IN
    Counted(Manager, input) = {i \in Kept(Manager, input) : SeqLowerThan(i, input)}

\* "trying to send a dropped input" (SeqManager.cpp), the message with which
\* Input() refuses a packet: a dropped packet that comes a second time is not sent.
DroppedStay == DOMAIN outputs \cap droppedIndices = {}
=============================================================================
