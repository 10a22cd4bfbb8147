SPECIFICATION Spec
CONSTANTS
  None = None
  x = x
  L2Logic = L2Logic
  Bank = {b1, b2}
  NumBanks = 2
  Tag = {x}
  L1Bank = {b1}
  LocalTag = local
  Requests <- MixedRequests
  WordsPerLine = 1
  ReferenceKernel = TRUE
  Spaced = FALSE
INVARIANTS
  OneHit
