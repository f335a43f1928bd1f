\* Two clients, or one at a time, on two instances and what belongs to them.
CONSTANTS
  Null = Null
  Clients = {c1, c2}
  Instances = {i1, i2}
  Endpoints = {e1, e2}
  Copies = {k1, k2}
  Networks = {n1}
  Users = {u1, u2}
  Databases = {d1}
  RuleIPs = {a1, a2}
  MaxInitEndpoints = 1
  MaxPrivileges = 2
SPECIFICATION MCSpec
SYMMETRY Symmetry
INVARIANTS RdbTypeOK
PROPERTIES RdbKeepsReferences PrivilegesAreReplacedAtOnce SerialEndpointsComeAndGoOneByOne
