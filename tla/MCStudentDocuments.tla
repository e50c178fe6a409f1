------------------------- MODULE MCStudentDocuments -------------------------
(* Small instance of StudentDocuments, up to symmetry.                       *)
EXTENDS StudentDocuments, TLC

Symmetry == Permutations(Docs) \cup Permutations(Requests) \cup Permutations(Experts)
=============================================================================
