\* Two batches share the dispatcher and the text budget (one file's worth),
\* under the fairness of the event loop.
SPECIFICATION FairSpec
CONSTANTS
  plain = plain
  policy = policy
  local = local
  w1 = w1
  w2 = w2
  None = None
  Windows = {w1}
  Batches = {1, 2}
  Entries = {1, 2}
  BatchOf <- MCTwoBatches
  Versions = {plain}
  LocalOnly = {}
  LocalPolicy = {}
  Textless = {}
  Unsupported = {}
  ByteCount <- MCByteCount
  TextSize <- MCTextSize
  PageSize = 0
  MaxReview = 2
  MaxBytes = 2
  MaxText = 1
INVARIANTS
  TextWithinBudget
PROPERTIES
  QueuedFilesAreProcessed
  IdleSettles
