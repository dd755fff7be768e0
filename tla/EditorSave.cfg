SPECIFICATION Spec
CONSTANTS
  a = a
  b = b
  None = none
  Posts = {a, b}
  Revisions = {1, 2}
  Broken <- NothingBroken
  Address <- BySlug
  InitialDisk <- FirstRevisions
  Tabs = {t1}
  Calls = {c1, c2, c3}
  MaxOpens = 2
  MaxEdits = 1
  MaxSaves = 1
  MaxFaults = 0
SYMMETRY Symmetry
CHECK_DEADLOCK FALSE
INVARIANT SavesStayHome
