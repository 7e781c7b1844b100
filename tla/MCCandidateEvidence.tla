------------------------ MODULE MCCandidateEvidence ------------------------
(* CandidateEvidence with one candidate and limits small enough to be      *)
(* reached.                                                                *)
EXTENDS CandidateEvidence

CONSTANT k1
=============================================================================
