CONSTANTS
    b1 = b1
    b2 = b2
    b3 = b3
    Committees <- MCCommittees
SPECIFICATION Spec
INVARIANT
    LabelNamesNextClick
CHECK_DEADLOCK FALSE
