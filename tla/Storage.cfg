SPECIFICATION Spec
CONSTANTS
  Blips = {b1, b2}
  Uploads = {f1, f2}
  Sizes = {1, 2}
  Quota = 2
  Window = 1
  InstallCrashes = FALSE
  MaxStarts = 3
  MaxRevision = 2
  MaxClock = 2
CHECK_DEADLOCK FALSE
INVARIANTS
    ServesWhatItHas
    QuotaHolds
PROPERTIES
    UpgradeFinishes
