SPECIFICATION FairSpec
CONSTANTS
    DEFAULT_ADMIN_ROLE = DEFAULT_ADMIN_ROLE
    AnyContract = AnyContract
    Deployer = Deployer
    Guardian = Guardian
    OtherBatcher = OtherBatcher
    None = None
    BatchSize = 2
    MaxCrashes = 1
    MaxPending = 3
    MaxLists = 1
INVARIANTS AlwaysAdministered HandedOverReady PrintedBatchesSuffice
PROPERTIES DeploymentCompletes
