\* Two clients, or one at a time, on the resources of one service and what they are on.
CONSTANTS
  Null = Null
  Clients = {c1, c2}
  UUIDs = {1, 2, 3, 4}
  Contents = {x1}
  Zones = {z1, z2}
  Fields = {f1, f2}
  MaxEndpoints = 2
  MaxChanges = 2
  MaxShared = 3
  MaxLists = 2
SPECIFICATION MCSpec
SYMMETRY Symmetry
VIEW View
INVARIANTS ServicesTypeOK DocumentsNameLiveRows SerialRecordsHaveTheirZone
PROPERTIES ServicesKeepReferences RequestsChangeWhatTheyName
