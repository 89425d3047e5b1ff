\* A run of apply that may be interrupted once, alone with the backup root.
SPECIFICATION FairSpec
CONSTANTS
  Backups = {1, 2}
  Existing = {1, 2}
  Held = {}
  PinOps = {}
  Reasons = {r1}
  NoPin = NoPin
  MaxFailures = 1
  Plans = {p1}
  NoPlan = NoPlan
  Minimum = 1
  SlotChoices = {{}}
PROPERTIES ResumeConverges
CHECK_DEADLOCK FALSE
