SPECIFICATION Spec
CONSTANTS
    a = a
    b = b
    c = c
    old = old
    new = new
    blob = blob
    Files = {a, b, c}
    Texts = {old, new}
    Binary = {}
    Garbled = Garbled
    Absent = Absent
    None = None
    Plans <- MCPlans
    Initial <- MCTextInitial
    DirectEdits = FALSE
    MaxEdits = 2
    MaxFailures = 0
    MaxRestarts = 0
CHECK_DEADLOCK FALSE
INVARIANT FailureIsAtomic
