SPECIFICATION Spec
CONSTANTS
  Deployer = "deployer"
  NewOwner = "multisig"
  Nobody = "nobody"
  Attempts = 3
  MaxVersion = 2
  MaxDeploys = 2
  MaxUpgrades = 2
  MaxFailures = 1
  Edited <- EditedArtifacts
  TargetLists <- Lists
INVARIANT TypeOK
INVARIANT OneAdmin
INVARIANT UpgradePowerMovesLast
INVARIANT SavedIsComplete
INVARIANT FileTellsTheChain
PROPERTY UpgradeTakesEffect
PROPERTY LibrariesNeverGoBack
PROPERTY DeploymentCompletes
PROPERTY EveryRunEnds
CHECK_DEADLOCK FALSE
