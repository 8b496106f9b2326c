SPECIFICATION CommandsSpec
CONSTANTS
  Procs = {p1}
  Ids = {r1, r2, r3}
  s1 = s1
  s2 = s2
  Slugs = {s1, s2}
  GenSlugs = {}
  Bodies = {b1, b2}
  Patches <- NoPatches
  UpdateTypes <- RuleEntriesOnly
  Documents <- MCDocuments
  Requests <- MCRequests
  Absent = Absent
  Keep = Keep
  ScanOnOpen = TRUE
  OneShot = FALSE
  ExternalDuplicates = FALSE
  MaxFaults = 2
SYMMETRY Interchangeable
INVARIANTS ImportedPrefix ImportConfined RetryNotRefused 
