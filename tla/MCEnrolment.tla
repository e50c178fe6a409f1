---------------------------- MODULE MCEnrolment ----------------------------
EXTENDS Enrolment, TLC

Symmetry == Permutations(Contracts) \cup Permutations(Orders) \cup Permutations(Payments)
              \cup Permutations(Experts)

=============================================================================
