\* Three records, so that one is in a batch, one behind it and one not yet committed; three
\* failures, so that a pass, the queue and the process can fail in one behaviour.
\* Everything stops once all is queued except the schedule, which goes on: no deadlock.
CONSTANTS
  Records = {r1, r2, r3}
  MaxFailures = 3
SPECIFICATION FairRecoverySpec
PROPERTIES
  LastTestServesAll
  EveryRecordQueued
