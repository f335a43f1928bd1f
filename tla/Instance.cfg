\* Two clients, or one at a time, on two servers with all they refer to.
CONSTANTS
  Null = Null
  Placeholder = Placeholder
  Clients = {c1, c2}
  Servers = {s1, s2}
  Ips = {i1, i2}
  Nics = {n1}
  SecurityGroups = {g1, g2}
  PrivateNetworks = {p1}
  MaxPublicIps = 2
SPECIFICATION MCSpec
SYMMETRY Symmetry
INVARIANTS TypeOK ReferencesAreLive IpDocumentsAreLive SerialGroupDocumentsMatchColumn
PROPERTIES OnlyCreatesAddRows SerialCreatesTakeTheirIPs
