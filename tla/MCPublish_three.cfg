SPECIFICATION Spec
CONSTANTS
  pPing = pPing
  pTele = pTele
  pCrane = pCrane
  Publishers = {pPing, pTele, pCrane}
  Length <- ThreeLengths
  OutSize = 5
  Budget = 1
INVARIANTS
  TypeOK
  OverrunBounded
  AloneIntact
CHECK_DEADLOCK FALSE
