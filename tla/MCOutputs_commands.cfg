SPECIFICATION Spec
CONSTANTS
  r1 = r1
  r2 = r2
  r3 = r3
  r4 = r4
  r5 = r5
  main = main
  nested = nested
  other = other
  agents = agents
  sec = sec
  lib = lib
  own = own
  p = p
  b1 = b1
  b2 = b2
  b3 = b3
  outA = outA
  outB = outB
  Ids = {r1, r2, r3, r4, r5}
  SlugOf <- Slugs
  Absent = Absent
  Unset = Unset
  Roots = {main, nested, other}
  MainRoot = main
  Nested = {nested}
  RootOf <- Places
  GroupOf <- Groups
  SummaryOf <- Summaries
  Starts <- OneStart
  Rankings <- TwoRankings
  Manifests <- Contents
  Broken = Broken
  Torn = Torn
  Targets <- AllTargets
  Requests <- AllRequests
  Filters <- AllFilters
  Limits = {1}
  Outs = {outA, outB}
  MaxEdits = 1
  MaxFaults = 1
INVARIANTS ListedAsFiled SearchHonest  ExplainTruthful CheckSound CheckQuiet
PROPERTIES  CatalogConverges
