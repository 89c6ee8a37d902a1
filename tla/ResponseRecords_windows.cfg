\* Two responses and a window on one practice item, its original and one brief,
\* with up to four revisions of item and brief together.
SPECIFICATION Spec
CONSTANTS
  Turns = {t1, t2}
  Windows = {w1}
  MaxRevisions = 4
  MaxVersions = 2
SYMMETRY Symmetry
INVARIANTS
  UsedRecordsAreKept
  UndoRestoresTheBrief
PROPERTIES
  NoEditIsLost
  EditsKeepTheBaseline
