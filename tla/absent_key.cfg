\* Looking up a name that is not in the table.
CONSTANTS
    k1 = k1
    k2 = k2
    k3 = k3
    k4 = k4
    Key <- Names
    Value = {1, 2}
    Absent = Absent
    Size = 2
    Slot <- Collisions
SPECIFICATION Spec
INVARIANTS
    LookupAnswers
CHECK_DEADLOCK FALSE
