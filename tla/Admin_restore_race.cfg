\* Two restores at once.
CONSTANTS
  Null = Null
  Clients = {c1, c2}
  Admins = {c1, c2}
  Vpcs = {v1}
  Networks = {n1}
  Broken = Broken
  MaxCrashes = 0
SPECIFICATION MCSpec
SYMMETRY Symmetry
INVARIANTS EnforcementResumes
