\* An update of a server races the deletion of its group.
CONSTANTS
  Null = Null
  Placeholder = Placeholder
  Clients = {c1, c2}
  Servers = {s1}
  Ips = {}
  Nics = {}
  SecurityGroups = {g1}
  PrivateNetworks = {}
  MaxPublicIps = 0
SPECIFICATION MCSpec
SYMMETRY Symmetry
PROPERTIES UpdatedServerIsConsistent
