SPECIFICATION FairSpec
CONSTANTS
  j1 = j1
  w1 = w1
  a1 = a1
  Jobs = {j1}
  Workers = {w1}
  BatchSlots = 1
  Accounts = {a1}
  Offers <- MCOffers
  MaxSubmits <- MCOnce
  MaxUpsets = 1
PROPERTIES RestartResumes
CHECK_DEADLOCK FALSE
