\* A note and the file it refers to, one record per pulse, under the timer of the
\* pulses.
SPECIFICATION FairSpec
CONSTANTS
  None = None
  Records = {1, 2}
  Refers <- MCRefers
  Contents = {"sound", "unfiled", "damaged"}
  Flawed = {"unfiled"}
  Damaged = {"damaged"}
  Breakable = {2}
  Limit = 1
INVARIANTS
  StaleFindingsAreQueued
  LeftAsIsStaysHidden
PROPERTIES
  CompletedRunsAreCurrent
  QueuedRecordsAreChecked
  RunsComplete
