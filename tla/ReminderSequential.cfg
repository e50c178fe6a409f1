\* One request at a time, racing only the worker and the clock; four start times, so that
\* a start can lie in the past, be due, and move either way.
CONSTANTS
  Requests = {q1}
  LastStart = 4
  None = None
SPECIFICATION ReminderSpec
INVARIANTS
  ClearedBeforeAdd
  ReminderAgrees
