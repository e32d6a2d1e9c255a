SPECIFICATION Spec
CONSTANTS
  pPing = pPing
  pTele = pTele
  pCrane = pCrane
  Publishers = {pPing, pTele}
  Length <- TwoLengths
  OutSize = 8
  Budget = 1
INVARIANT OwnFrame
CHECK_DEADLOCK FALSE
