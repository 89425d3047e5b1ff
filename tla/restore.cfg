\* One run, two cleanups that may overlap, a package that may change and change back.
SPECIFICATION Spec
CONSTANTS
  Runs = {r1}
  Cleaners = {c1, c2}
  Unsigned = Unsigned
  MaxFailures = 4
  MaxChanges = 1
INVARIANTS LeftoverIsFindable VerifiedIsRestored ReportIsHonest
PROPERTIES LeftoverIsDropped
CHECK_DEADLOCK FALSE
