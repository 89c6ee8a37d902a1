\* Two windows review one batch of two files, a page of one at a time, while its parser and an
\* organization job write in the background; one version of a file states a
\* workspace-wide local-only policy; the text budget holds one file.
SPECIFICATION Spec
CONSTANTS
  plain = plain
  policy = policy
  local = local
  w1 = w1
  w2 = w2
  None = None
  Windows = {w1, w2}
  Batches = {1}
  Entries = {1, 2}
  BatchOf <- MCOneBatch
  Versions = {plain, policy}
  LocalOnly = {policy}
  LocalPolicy = {policy}
  Textless = {}
  Unsupported = {}
  ByteCount <- MCByteCount
  TextSize <- MCTextSize
  PageSize = 1
  MaxReview = 1
  MaxBytes = 2
  MaxText = 1
SYMMETRY MCWindowSymmetry
INVARIANTS
  AcknowledgedOriginalsKept
  TextMatchesOriginal
  ShownRowsAreCurrent
  PublishedOnlyPermittedOriginals
PROPERTIES
  FinishedBatchesAreFinal
  CommitIsAllOrNothing
  ImplementsImportContract
