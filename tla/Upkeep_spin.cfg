\* What upkeep.ts:81 says of a record that cannot be checked.
SPECIFICATION Spec
CONSTANTS
  None = None
  Records = {1, 2}
  Refers <- MCRefers
  Contents = {"sound", "unfiled", "damaged"}
  Flawed = {"unfiled"}
  Damaged = {"damaged"}
  Breakable = {1}
  Limit = 1
PROPERTIES
  DamagedRecordsAreNotSpunOn
