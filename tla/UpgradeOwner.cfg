SPECIFICATION Spec
CONSTANTS
  Deployer = "deployer"
  NewOwner = "multisig"
  Nobody = "nobody"
  Attempts = 3
  MaxVersion = 2
  MaxDeploys = 1
  MaxUpgrades = 2
  MaxFailures = 0
  Edited <- EditedArtifacts
  TargetLists <- Lists
PROPERTY OwnerMakesTheUpgrade
CHECK_DEADLOCK FALSE
