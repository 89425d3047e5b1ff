\* Two packages and one that is made meanwhile, two pin requests, one plan.
SPECIFICATION Spec
CONSTANTS
  Backups = {1, 2, 3}
  Existing = {1, 2}
  Held = {}
  PinOps = {o1, o2}
  Reasons = {r1, r2}
  NoPin = NoPin
  MaxFailures = 1
  Plans = {p1}
  NoPlan = NoPlan
  Minimum = 1
  SlotChoices = {{}}
INVARIANTS VisibleIsComplete ProgressCoversDeletion PinsAreAudited ReportIsTrue
PROPERTIES DeletesOnlySurplus
CHECK_DEADLOCK FALSE
