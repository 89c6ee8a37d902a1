\* A launcher of an older build and two of a newer one, two originals, one backup.
CONSTANTS
  p1 = p1
  p2 = p2
  p3 = p3
  Procs = {p1, p2, p3}
  Contents = {c1, c2}
  None = None
  MaxArchives = 1
  Target <- MCTarget
SYMMETRY Symmetry
SPECIFICATION Spec
INVARIANTS
  UpgradesAreRecoverable
  RegisteredOriginalsAreWhole
  RecoveredFoldersAreWhole
PROPERTIES
  ImplementsExclusiveUse
