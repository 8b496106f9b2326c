SPECIFICATION Spec
CONSTANTS
  u = u
  v = v
  Titles = {u, v}
  Default = Default
  None = None
  Documents <- SmallDocuments
INVARIANTS BlocksApart TextKept SectionsNested
