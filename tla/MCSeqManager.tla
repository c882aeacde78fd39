---------------------------- MODULE MCSeqManager ----------------------------
(***************************************************************************)
(* SeqManager on 5-bit numbers.  They wrap after packet 3, and packets are *)
(* dropped once no late one from before the wrap can come: the range where *)
(* the code counts drops right.                                            *)
(***************************************************************************)
EXTENDS SeqManager

ASSUME MCSeqManagerRange == DropsInRange
=============================================================================
