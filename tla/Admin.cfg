\* One client alone, an admin client next to an ordinary one, or two admin clients.
CONSTANTS
  Null = Null
  Clients = {c1, c2}
  Admins = {c1, c2}
  Vpcs = {v1, v2}
  Networks = {n1}
  Broken = Broken
  MaxCrashes = 1
SPECIFICATION MCFairSpec
INVARIANTS AdminTypeOK OneAdminKeepsEnforcement SerialNetworksHaveTheirVpc
PROPERTIES OneAdminRestoresTheSnapshot SerialResetWipesAllState SerialRestoreBringsSnapshotBack AdminRequestsAreAnswered
