--------------------------- MODULE MCPublishCall ---------------------------
(***************************************************************************)
(* TLC instance of PublishCall: the two callers are alike, and so are the  *)
(* two words of a stamp.                                                   *)
(***************************************************************************)
EXTENDS PublishCall, TLC

Symmetry == Permutations(Callers) \cup Permutations(Words)
=============================================================================
