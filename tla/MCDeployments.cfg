\* Two APIs, two gateways, three sentinels: runs broken off anywhere.
SPECIFICATION Spec
CONSTANTS
  ApiIDs = {1, 2}
  GatewayIDs = {1, 2}
  Sentinels = {1, 2, 3}
  OverwriteTakesTitle = FALSE
INVARIANTS
  NeverOpen
  RedeployKeepsServing
PROPERTIES
  DeployCompletes
  TeardownLeavesOnlyStrays
  DeployConnects
  CleanRemoves
