\* Two windows and the list of drafts edit and send two messages; one call
\* fails or one window ends.
SPECIFICATION Spec
CONSTANTS
  Windows = {w1, w2}
  List = list
  Texts = {t1, t2}
  NoText = NoText
  NoRevision = NoRevision
  NoWrite = NoWrite
  Never = Never
  MaxWrites = 2
  MaxDiscards = 1
  MaxFailures = 1
SYMMETRY Symmetry
INVARIANTS
  SentMessagesStaySent
PROPERTIES
  StoredTextIsKept
CHECK_DEADLOCK FALSE
