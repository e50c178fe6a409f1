\* Two requests at once are the fewest that overlap.
CONSTANTS
  Requests = {q1, q2}
  LastStart = 3
  None = None
SPECIFICATION ReminderSpec
INVARIANTS
  ClosedHasNoReminder
