SPECIFICATION Spec
CONSTANTS
  p = p
  q = q
  Procs = {p, q}
  Ratings = {"helpful", "not_helpful"}
  None = None
  Torn = Torn
  MaxEvents = 4
  MaxFaults = 2
INVARIANTS Resynced CountsAPrefix OneLineEach
SYMMETRY Interchangeable
