----------------------------- MODULE MCBookingTx -----------------------------
(* Small instances of BookingTx; the liveness run does not use the symmetry. *)
EXTENDS BookingTx, TLC

Symmetry == Permutations(Reqs) \cup Permutations(Experts) \cup Permutations(Consultations)
              \cup Permutations(LeadCalls)
=============================================================================
