SPECIFICATION Spec
CONSTANTS
    Attempts = {a1, a2, a3, a4}
    Values = {v1, v2, null}
    Null = null
    Undefined = undefined
    None = None
SYMMETRY Symmetry
INVARIANTS Replayed OneWrite
CHECK_DEADLOCK FALSE
