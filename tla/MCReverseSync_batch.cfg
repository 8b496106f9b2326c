SPECIFICATION Spec
CONSTANTS
  i1 = i1
  i2 = i2
  i3 = i3
  b1 = b1
  b2 = b2
  Ids = {i1, i2, i3}
  SpecDocs = {i3}
  Bodies = {b1, b2}
  Files <- SmallFiles
  Absent = Absent
  None = None
  MaxFaults = 2
  MaxEdits = 1
INVARIANTS OutcomeHonest StaleDocumentsBounded
PROPERTY AllOrNothing
