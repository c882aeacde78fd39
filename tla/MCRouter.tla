------------------------------ MODULE MCRouter ------------------------------
(***************************************************************************)
(* Router on two transports, with an audio, a video and a data producer,   *)
(* an id for each kind of consumer on either transport, and one observer.  *)
(***************************************************************************)
EXTENDS Router, TLC

\* Transports and SSRCs are interchangeable, in the properties too.
Symmetry == Permutations(Transports) \cup Permutations(Ssrcs)
=============================================================================
