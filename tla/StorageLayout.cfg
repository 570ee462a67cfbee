SPECIFICATION BranchSpec
CONSTANTS
  n1 = n1
  c1 = c1
  c2 = c2
  p1 = p1
  p2 = p2
  Networks = {n1}
  Names = {governor}
  Sources = {c1, c2}
  Delegators = {governor}
  Layouts <- MCLayouts
  Opaque = Opaque
  Absent = Absent
  Pulls = {p1, p2}
  MaxMerges = 3
PROPERTIES
  UpgradesAreCompatible
  SourcesFitDeployments
SYMMETRY MCSymmetry
CHECK_DEADLOCK FALSE
