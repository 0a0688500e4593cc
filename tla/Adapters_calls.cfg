SPECIFICATION Spec
SYMMETRY Symmetry
CONSTANTS
    c1 = c1
    c2 = c2
    None = None
    Calls = {c1, c2}
INVARIANTS OneStory DenialsHold HandedBackIsReceipted
CHECK_DEADLOCK FALSE
