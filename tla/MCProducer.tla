----------------------------- MODULE MCProducer -----------------------------
(***************************************************************************)
(* Producer with the streams of a simulcast producer.                      *)
(***************************************************************************)
EXTENDS Producer
=============================================================================
