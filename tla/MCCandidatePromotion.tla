------------------------ MODULE MCCandidatePromotion ------------------------
(* Small instances of CandidatePromotion. *)
EXTENDS CandidatePromotion

CONSTANTS p1, p2, x, y

=============================================================================
