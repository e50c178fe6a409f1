SPECIFICATION Spec
CONSTANTS
  Tasks = {t1}
  MaxStudents = 1
  MaxAttempts = 2
  Questions = {x1}
  Requests = {q1, q2}
PROPERTIES
  StartedOnce
