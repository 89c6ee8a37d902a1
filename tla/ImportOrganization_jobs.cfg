\* Two batches of one file each compete for the worker, one with a suggestion
\* retained from an older build, under the fairness of the event loop.
SPECIFICATION FairSpec
CONSTANTS
  None = None
  Batches = {1, 2}
  Entries = {1, 2}
  BatchOf <- MCOnePerBatch
  Places = {"unfiled", "matter"}
  PerCall = 1
  Outcomes = {"ready", "error", "policy"}
  Retained = {2}
INVARIANTS
  ReviewedChoicesKept
  AskedAtMostTwice
PROPERTIES
  ImplementsPaidCalls
  CompleteMeansSettled
  ImplementsImportContract
  JobsEnd
