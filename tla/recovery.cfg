\* A call of run() or of the cleanup beside a call of rollback(), and two faults.
SPECIFICATION Spec
CONSTANTS
    Operators = {o1}
    Undoers = {u1}
    MaxFaults = 2
INVARIANTS ActiveIsVerified NoForkedHistory
PROPERTIES SwitchedAtRest RollbackConverges
CHECK_DEADLOCK FALSE
