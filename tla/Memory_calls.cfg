CONSTANTS
  none = none
  p = p
  c1 = c1
  c2 = c2
  None = none
  Past = p
  Calls = {c1, c2}
  Direct = {c2}
  NumStores = 2
  Attempts = 2
  Shared = FALSE
  TopK = 1
SPECIFICATION Spec
INVARIANTS Consistent AnswersTruthful VerifiedIsGone OneReplacement VendorsFit
PROPERTIES HoldBars
CHECK_DEADLOCK FALSE
