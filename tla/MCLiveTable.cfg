SPECIFICATION Spec
CONSTANTS
  s1 = s1
  c1 = c1
  c2 = c2
  q1 = q1
  e1 = e1
  None = None
  Streams = {s1}
  Conns = {c1, c2}
  Starts = {q1}
  Enders = {e1}
  StreamOf <- MCStreamOf
  MaxStreams = 1
  Slots = 2
SYMMETRY MCSymmetry
INVARIANTS LeasesFollowSessions SessionsReachable PaymentsClose
CHECK_DEADLOCK FALSE
