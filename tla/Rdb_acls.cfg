\* One client, one instance and its ACL rules.
CONSTANTS
  Null = Null
  Clients = {c1}
  Instances = {i1}
  Endpoints = {e1}
  Copies = {}
  Networks = {}
  Users = {}
  Databases = {}
  RuleIPs = {a1, a2}
  MaxInitEndpoints = 1
  MaxPrivileges = 1
SPECIFICATION MCSpec
SYMMETRY Symmetry
PROPERTIES DeletesRulesOfTheRequest
