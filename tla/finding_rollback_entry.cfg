\* One call of run() that dies, one call of rollback().
SPECIFICATION Spec
CONSTANTS
    Operators = {o1}
    Undoers = {u1}
    MaxFaults = 1
PROPERTIES RollbackIsAccepted
CHECK_DEADLOCK FALSE
