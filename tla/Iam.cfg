\* Two clients, or one at a time, on what the IAM API relates.
CONSTANTS
  Null = Null
  Clients = {c1, c2}
  Applications = {a1, a2}
  ApiKeys = {k1}
  Policies = {p1, p2}
  Rules = {r1, r2, r3}
  Users = {u1, u2}
  Groups = {g1}
  SSHKeys = {s1}
  MaxListed = 2
SPECIFICATION MCSpec
SYMMETRY Symmetry
INVARIANTS IamTypeOK IamDocumentsAreLive SerialErrorsLeaveNoTrace
PROPERTIES IamKeepsReferences NoHalfCreatedPolicies
