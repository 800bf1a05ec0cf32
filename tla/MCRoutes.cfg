SPECIFICATION Spec
CONSTANTS
  q1 = q1
  q2 = q2
  q3 = q3
  t1 = t1
  t2 = t2
  n1 = n1
  None = None
  Requests = {q1, q2, q3}
  MayUse <- MCMayUse
  Names = {n1}
  Tickets = {t1, t2}
  SenderOf <- MCSenderOf
  Modes = {"paid", "dev"}
  Runners <- MCRunners
  MaxRestarts = 1
SYMMETRY MCSymmetry
INVARIANTS NoUnpaidWork TopupCreditsSession
CHECK_DEADLOCK FALSE
