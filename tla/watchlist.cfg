\* Three requests and two changes without the service; a revision can come back.
SPECIFICATION Spec
CONSTANTS
    Requests = {q1, q2, q3}
    Contents = {w1, w2}
    NoRevision = NoRevision
    MaxEdits = 2
PROPERTIES OverwritesOnlyWhatWasSeen
CHECK_DEADLOCK FALSE
