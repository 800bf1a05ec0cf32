SPECIFICATION Spec
CONSTANTS
  j1 = j1
  j2 = j2
  w1 = w1
  w2 = w2
  c1 = c1
  c2 = c2
  Jobs = {j1, j2}
  Planned = {j1}
  Ladder = 2
  Workers = {w1, w2}
  Callers = {c1, c2}
  BatchSlots = 1
  Priced = {j1}
  MaxFaults = 1
SYMMETRY MCSymmetry
INVARIANTS CompleteIsWhole UnpaidAtMostOne NotForgotten
CHECK_DEADLOCK FALSE
