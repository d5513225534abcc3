SPECIFICATION PartsSpec
CONSTANTS
  Callers = {c1, c2}
  Customs = 2
  Quotas <- ServiceQuotas
  p1 = p1
  p2 = p2
  EntryPaths <- SyncPaths
  WebEntries <- SyncEntries
  Overlays <- SyncOverlays
  MaxEdits = 1
  NoImage = NoImage
  Catalogs <- DriftCatalogs
  Images <- DriftImages
  Keys = {"k1", "k2"}
  Engines <- DriftEngines
  Versions <- BinaryVersions
  Quota <- BinaryQuota
  Attempts = 2
  Retention = 2
  Window = 1
  MaxDay = 3
  Scenarios <- EarningsScenarios
CHECK_DEADLOCK FALSE
INVARIANTS
  EarningsAreTrue
  UnlinkedIsCurrent
  BackupIsTrue
  MuteHidesNothingNew
  RulesFollowLaunches
PROPERTIES
  AddedServicesHold
  SyncIsSound
  RedeployClears
  DeployRunsWhole
