------------------------ MODULE RetransmissionCache ------------------------
(***************************************************************************)
(* What the retransmission buffer of RtpStreamSend promises, without its   *)
(* slots, pointers and sizes: a set of packets, at most one of each        *)
(* sequence number and at most StorageSize of them, and which of them were *)
(* resent within the last RTT.                                             *)
(***************************************************************************)
EXTENDS SeqNumbers, FiniteSets

CONSTANTS Packets, StorageSize

VARIABLES
    held,       \* the packets that can be resent
    resent      \* those of them resent within the last RTT

cache == <<held, resent>>

CacheInit == held = {} /\ resent = {}

\* A new packet comes in and was not resent yet.  It takes the place of the one
\* with its sequence number or, when the cache is full, of one other packet.
Take(p) ==
    /\ p \notin held
    /\ \/ /\ held' = held \cup {p} /\ resent' = resent
          /\ Cardinality(held) < StorageSize
          /\ \A q \in held : Wrap(q) # Wrap(p)
       \/ \E out \in held :
            /\ held' = (held \ {out}) \cup {p} /\ resent' = resent \ {out}
            /\ Wrap(out) = Wrap(p) \/ Cardinality(held) = StorageSize
            /\ \A q \in held \ {out} : Wrap(q) # Wrap(p)

\* A NACK is answered with some of the packets it asks for.
Answer ==
    /\ held' = held
    /\ \E packets \in SUBSET (held \ resent) : resent' = resent \cup packets

RttPasses == held' = held /\ resent' = {}

Clear == held' = {} /\ resent' = {}

CacheNext == Clear \/ RttPasses \/ Answer \/ \E p \in Packets : Take(p)

CacheSpec == CacheInit /\ [][CacheNext]_cache
=============================================================================
