-------------------------- MODULE MCLeadLifecycle --------------------------
(* Small instance of LeadLifecycle: every set of interchangeable rows or    *)
(* users is a set of model values, so states are explored up to symmetry.   *)
EXTENDS LeadLifecycle, TLC

Symmetry == Permutations(Managers) \cup Permutations(Experts) \cup Permutations(Calls)
              \cup Permutations(Callbacks) \cup Permutations(Reminders)
              \cup Permutations(Previews) \cup Permutations(Times) \cup Permutations(Terms)
=============================================================================
