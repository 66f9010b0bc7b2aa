--------------------------- MODULE MCEvidenceChain ---------------------------
(* EvidenceChain for TLC. *)
EXTENDS EvidenceChain, TLC

MCSymmetry == Permutations(Proc)
=============================================================================
