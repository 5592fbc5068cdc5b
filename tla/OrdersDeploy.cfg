\* A clean that is broken off, then a deployment that completes.
SPECIFICATION Spec
CONSTANTS
  ApiIDs = {1, 2}
  GatewayIDs = {1, 2}
  Sentinels = {1, 2, 3}
  OverwriteTakesTitle = FALSE
PROPERTY
  DeployedApiMayRun
