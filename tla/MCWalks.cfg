CONSTANTS
    Objects <- MCObjects
    Asking <- MCAsking
    Faults <- AllFaults
    MaxChanges = 2
SPECIFICATION Spec
INVARIANT DropsAreForgiven
INVARIANT WholeOrNotAtAll
PROPERTY WalksList
PROPERTY WalkEnds
CHECK_DEADLOCK FALSE
