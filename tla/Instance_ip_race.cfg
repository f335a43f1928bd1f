\* Two concurrent creates name the same IP, and nobody patches it.
CONSTANTS
  Null = Null
  Placeholder = Placeholder
  Clients = {c1, c2}
  Servers = {s1, s2}
  Ips = {i1}
  Nics = {}
  SecurityGroups = {}
  PrivateNetworks = {}
  MaxPublicIps = 1
SPECIFICATION UnpatchedSpec
SYMMETRY Symmetry
PROPERTIES CreateServerTakesOnlyFreeIPs
