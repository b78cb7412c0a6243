SPECIFICATION Spec
CONSTANTS
    a = a
    b = b
    c = c
    old = old
    new = new
    blob = blob
    Files = {a, b, c}
    Texts = {old, new}
    Binary = {blob}
    Garbled = Garbled
    Absent = Absent
    None = None
    Plans <- MCPlans
    Initial <- MCInitial
    DirectEdits = TRUE
    MaxEdits = 2
    MaxFailures = 1
    MaxRestarts = 1
CHECK_DEADLOCK FALSE
INVARIANTS TypeOK StashedBeforeChange FailureIsContained
PROPERTIES PatchesRollBack
