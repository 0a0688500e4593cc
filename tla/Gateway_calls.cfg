\* Two calls in flight at once, up to two sessions, one attempt per append.
SPECIFICATION Spec
CONSTANTS
    c1 = c1
    c2 = c2
    s1 = s1
    s2 = s2
    Calls = {c1, c2}
    Sessions = {s1, s2}
    Tools = {"refund"}
    Scopes = {"refund"}
    Precommit = {"refund"}
    Facts = {"f1"}
    Lapsing = {}
    Attempts = 1
SYMMETRY MCSymmetry
\* A finite set of calls: when all are over, nothing is left to do.
CHECK_DEADLOCK FALSE
INVARIANTS
    Consistent
    HandedOutVerifies
PROPERTIES
    ConsumedComplete
