-------------------------- MODULE MCSctpAssociation --------------------------
(***************************************************************************)
(* SctpAssociation of at most three streams, added up to two at a time,    *)
(* with three messages of up to three units where two units fit.           *)
(***************************************************************************)
EXTENDS SctpAssociation
=============================================================================
