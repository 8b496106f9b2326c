SPECIFICATION Spec
CONSTANTS
  Procs = {p1, p2}
  Ids = {r1, r2}
  Slugs = {s1, s2}
  GenSlugs = {s2}
  Bodies = {b1}
  Patches <- SharedPatches
  UpdateTypes <- RuleEntriesOnly
  Absent = Absent
  Keep = Keep
  ScanOnOpen = TRUE
  OneShot = TRUE
  ExternalDuplicates = FALSE
  MaxFaults = 0
SYMMETRY Interchangeable
INVARIANTS DerivedAgrees 
