\* No fault at all: the wake-up is lost between the loop test and .finally().
CONSTANTS
  Records = {r1, r2}
  MaxFailures = 0
SPECIFICATION RecoverySpec
INVARIANTS
  WakeupsServed
