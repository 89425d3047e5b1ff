\* Two sinks, two lines of each kind, two failures, one archive kept of each target.
SPECIFICATION Spec
CONSTANTS
  Sinks = {s1, s2}
  Free = Free
  Keep = 1
  Budget = 1
  MaxLines = 2
  MaxFailures = 2
INVARIANTS NothingLost ArchivedOnce
PROPERTIES PendingFinalized ImplementsRetainedLog
CHECK_DEADLOCK FALSE
