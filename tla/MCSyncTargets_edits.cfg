SPECIFICATION Spec
CONSTANTS
  n1 = n1
  n2 = n2
  s1 = s1
  s2 = s2
  Names = {n1, n2}
  Outs = {o1, o2}
  Slugs = {s1, s2}
  SlugOf <- OwnSlugs
  Contents = {c1, c2}
  FrontContents = {c2}
  NoRules = NoRules
  Absent = Absent
  Hand = Hand
  Edited = Edited
  HandValues = {Absent, Hand, Edited}
  Kinds <- AllKinds
  CanonicalOuts = {o1}
  MaxEdits = 2
  MaxCrashes = 1
INVARIANTS TypeOK OutputsCurrentUnlessReclaimed RecordsCurrent GeneratedFilesTracked CheckSound
PROPERTY OnlyOwnOutputs
