------------------------------ MODULE MCJournal ------------------------------
(* Journal under its most general client, for TLC. *)
EXTENDS Journal, TLC

MCSymmetry == Permutations(VenueId) \cup Permutations(Op)
                \cup Permutations(Proc)
=============================================================================
