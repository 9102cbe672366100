CONSTANTS
    IntRuntimes = {"r1"}
    IntRoots = {"foreign", "twin"}
    IntDefects = {"shape", "bootstrap"}
    IntMaxClock = 2
    IntMaxOps = 3
    IntMaxFaults = 2
    ReceiptTTL = 0
    FrMaxFaults = 2
    FrMaxRuns = 2
    FrMaxVersion = 4
    KitTargets = {"linux-x86_64", "linux-aarch64"}
    Bundles = {1, 2}
    MaxKitChanges = 1
    MaxExports = 3
    MaxExportFaults = 2
SPECIFICATION DesktopSpec
INVARIANTS
    RollbackHonest
    RestartEnforced
    PassMeansDone
    OrphanReported
    KitAuthentic
    ExportHonest
    SecretReclaimable
CHECK_DEADLOCK FALSE
