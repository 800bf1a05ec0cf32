SPECIFICATION FairSpec
CONSTANTS
  j1 = j1
  j2 = j2
  w1 = w1
  w2 = w2
  a1 = a1
  Jobs = {j1, j2}
  Workers = {w1, w2}
  BatchSlots = 1
  Accounts = {a1}
  Offers <- MCOffers
  MaxSubmits <- MCFirstTwice
  MaxUpsets = 1
INVARIANTS OneWorkerPerJob CompleteMeansDebited
 
CHECK_DEADLOCK FALSE
