\* Two workers, so that one can outlive its lease while the other takes over; two attempts, so
\* that the last one differs from the first; one move of the call; one fault: a crash, a failing
\* statement or an outlived lease.  Both kinds: the mail about the assignment is due at once, the
\* reminder waits for its time and for a confirmation.  Settled intents are the end: no deadlock
\* check.
CONSTANTS
  Workers = {w1, w2}
  MaxVersion = 1
  MaxAttempts = 2
  MaxFaults = 1
  None = None
SPECIFICATION FairSpec
CHECK_DEADLOCK FALSE
INVARIANTS
  SendsAreCounted
  SupersededSettled
  SentMeansSent
PROPERTIES
  DeliversAsPromised
  SettledIsFinal
  EveryIntentSettles
