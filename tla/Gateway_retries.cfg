\* One call, three attempts per append: every loss, delay and duplicate.
SPECIFICATION FairSpec
CONSTANTS
    c1 = c1
    c2 = c2
    s1 = s1
    s2 = s2
    Calls = {c1}
    Sessions = {s1}
    Tools = {"lookup", "refund", "other"}
    Scopes = {"lookup", "refund"}
    Precommit = {"refund"}
    Facts = {"f1"}
    Lapsing = {s1}
    Attempts = 3
CHECK_DEADLOCK FALSE
INVARIANTS
    EvidenceBeforeEffect
    ReceiptsTruthful
PROPERTIES
    CallsEnd
    PromiseKept
