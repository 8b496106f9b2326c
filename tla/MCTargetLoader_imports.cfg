SPECIFICATION FairSpec
CONSTANTS
  a = a
  b = b
  c = c
  d = d
  t1 = t1
  t2 = t2
  t3 = t3
  s1 = s1
  x = x
  y = y
  Files = {a, b, c}
  Dirs = {d}
  Names = {t1, t2, t3}
  SchemaNames = {s1}
  Blocks = {x, y}
  None = None
  Unreadable = Unreadable
  Contents <- SmallContents
  Listings <- SmallListings
  Roots = {a, d}
INVARIANTS LoadedOnce ResultHonest OrderIrrelevant
PROPERTY Terminates
