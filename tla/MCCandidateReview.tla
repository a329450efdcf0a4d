------------------------- MODULE MCCandidateReview -------------------------
(* Small instances of CandidateReview for TLC.                             *)
EXTENDS CandidateReview, TLC

CONSTANTS f1, v1, c1, c2, own1, own2

Symmetry == Permutations(LayerId) \cup Permutations(Worker) \cup Permutations(Revision)

\* Key "combo:candidate_<id>" of each candidate.
OwnKeys == [c \in Candidate |-> IF c = c1 THEN own1 ELSE own2]

\* The user answered one field, f1.
OneAnswer == {[f \in Field |-> IF f = f1 THEN v1 ELSE NULL]}

NoImports == {}
=============================================================================
