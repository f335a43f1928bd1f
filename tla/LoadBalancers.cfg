\* Two clients, or one at a time, on two load balancers; updates may name any parent or none.
CONSTANTS
  Null = Null
  Clients = {c1, c2}
  Lbs = {l1, l2}
  LbIps = {i1, i2}
  Frontends = {f1}
  Backends = {b1, b2}
  Acls = {a1}
  Routes = {r1}
  Certificates = {t1}
  Networks = {n1}
  Zones = {z1, z2}
  Moves = {l1, l2, f1, Null}
  MaxMovedBackends = 1
SPECIFICATION MCSpec
SYMMETRY Symmetry
INVARIANTS LbTypeOK InPlaceUpdatesFindTheirReferences InPlaceRoutesStayWithinOneLb
PROPERTIES LbKeepsReferences DeletedLBsReleaseTheirIPs SerialLBIPsInUseAreKept
