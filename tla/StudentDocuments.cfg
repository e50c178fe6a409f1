\* Two requests for one document, which may have been stored and reviewed before; one expert who
\* may be unassigned or blocked; one upload slot; one crash.
CONSTANTS
  Docs = {d1}
  Requests = {q1, q2}
  Experts = {e1}
  Student = Student
  Admin = Admin
  Limit = 1
  MaxCrashes = 1
  None = None
SPECIFICATION Spec
SYMMETRY Symmetry
INVARIANTS
  VersionsStored
  OrphansObserved
  ReviewedIsSubmitted
  SlotsHeld
PROPERTIES
  WritesAuthorised
  StoredWhole
