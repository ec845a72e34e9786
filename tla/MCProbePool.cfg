SPECIFICATION PSpec
CONSTANTS
  w1 = w1
  w2 = w2
  item = item
  order = order
  login = login
  NoTarget = NoTarget
  Workers <- MCWorkers
  TargetSeq <- MCTargetSeq
  Facts <- MCFacts
  RedirectParams = {}
  Classes <- MCClasses
  FuzzForms = TRUE
  KeptExchanges = 3
  GroupAt = 2
INVARIANTS ProofIsOwn ToldByItsProof
PROPERTIES OneByOne Drained
CHECK_DEADLOCK FALSE
