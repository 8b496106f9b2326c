SPECIFICATION Spec
CONSTANTS
  p = p
  q = q
  Procs = {p, q}
  Ratings = {"helpful", "not_helpful"}
  None = None
  Torn = Torn
  MaxEvents = 2
  MaxFaults = 0
INVARIANT EveryLineAnEvent
SYMMETRY Interchangeable
