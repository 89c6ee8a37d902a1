\* One window, opened with a prepared message while the workspace does not answer.
SPECIFICATION Spec
CONSTANTS
  Windows = {w1}
  List = list
  Texts = {t1, t2}
  NoText = NoText
  NoRevision = NoRevision
  NoWrite = NoWrite
  Never = Never
  MaxWrites = 2
  MaxDiscards = 1
  MaxFailures = 1
SYMMETRY Symmetry
INVARIANTS
  CleanTextWasSaved
CHECK_DEADLOCK FALSE
