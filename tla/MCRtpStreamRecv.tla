--------------------------- MODULE MCRtpStreamRecv ---------------------------
(***************************************************************************)
(* RtpStreamRecv with 14 sequence numbers, a NACK list of two packets of   *)
(* age four at most and two tries; gaps may exceed the list.               *)
(***************************************************************************)
EXTENDS RtpStreamRecv
=============================================================================
