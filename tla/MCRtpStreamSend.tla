-------------------------- MODULE MCRtpStreamSend --------------------------
(***************************************************************************)
(* RtpStreamSend with 6 sequence numbers, 3 storage items and NACKs of two *)
(* packets, over one wrap and a half.                                      *)
(***************************************************************************)
EXTENDS RtpStreamSend
=============================================================================
