SPECIFICATION Spec
CONSTANTS
  Procs = {p1}
  Ids = {r1, r2}
  Slugs = {s1, s2}
  GenSlugs = {s2}
  Bodies = {b1, b2}
  Patches <- SeparatePatches
  UpdateTypes <- RuleEntriesOnly
  Absent = Absent
  Keep = Keep
  ScanOnOpen = FALSE
  OneShot = FALSE
  ExternalDuplicates = FALSE
  MaxFaults = 2
SYMMETRY Interchangeable
INVARIANTS TypeOK DerivedAgrees
PROPERTIES  AtomicCalls
