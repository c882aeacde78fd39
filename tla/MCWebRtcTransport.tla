------------------------- MODULE MCWebRtcTransport -------------------------
(***************************************************************************)
(* WebRtcTransport on one UDP and two TCP tuples, two ICE restarts and one *)
(* DataConsumer, which is told all that a Consumer is and more.  A Consumer *)
(* that is no DataConsumer is in the run of the reconnection.              *)
(***************************************************************************)
EXTENDS WebRtcTransport, TLC

\* TCP connections are interchangeable, in the properties too.
Symmetry == Permutations(TcpTuples)
=============================================================================
